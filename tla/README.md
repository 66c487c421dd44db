# Verification of the agent activity dashboard

TLA+ specifications of the dashboard that collects the activity of coding
agents (Claude Code, Codex) from developers' workstations, accounts for their
usage, shows it on a board, and analyzes code against approved references
("Brain").  Paths below are relative to the repository.  Checked with TLC (every
run of `PROJECT.json`) and proved with TLAPS (the modules `*Proofs.tla`):

    tlasany MCWorkstation.tla
    tlc -workers 2 -config MCWorkstation_workstation.cfg MCWorkstation
    tlapm RelayProofs.tla    # a few minutes; MemoryProofs takes longest

## 1. Inventory

How the parts talk to each other:

    hooks, exporters --HTTP--> relay (workstation) --HTTP--> server --SQL--> history
                                                      |  \--WebSocket--> board
                                                      |
        administrators, webhooks --HTTP--> Brain memory --HTTP--> Notion, Git, Cognee
                                              ^                (fetch, read, index)
        board, MCP clients --HTTP--> Brain analyses --HTTP--> model provider
                                              \--activity outbox--> history

| Component | Source | State | Operations | What must hold | Module |
|---|---|---|---|---|---|
| Relay outbox, request acceptance | `fleet/relay.mjs`, `relay-outbox.mjs` | directory of entry files, list in memory, cached rules, policy file | accept, enqueue, flush, drain, restart | answered 200 is not lost; nothing leaves under another credential or for a repository no longer selected; order; bounded | `Relay`, `Delivery` |
| Relay session table | `fleet/relay.mjs` (`ProjectFilter`), `projects.mjs` | sessions per repository, their file | bind, pass, forget, save, restart | a session passes as its hooks said | `RelaySessions` |
| Workspace configuration | `fleet/setup.mjs` | settings files, backups | plan, compare, back up, replace | no setting of another is lost | `Setup` |
| Telemetry parsing | `fleet/safe-telemetry.mjs`, `otlp/parse.ts` | none | filter, parse, stamp | both programs mean the same; a repeat is known | `Telemetry` |
| Usage accounting, ingestion, history | `store/accounting.ts`, `store/store.ts`, `persistence/queue.ts`, `db.ts`, `index.ts` | identities, requests, counters; board totals; write queue; rows, checkpoints, events | ingest, write, prune, sweep, stop, start | one row per request; no counter charged twice; board = database; 200 = stored | `Accounting`, `Ingest` |
| Live sessions, prompts, hierarchy | `store/store.ts`, `store/prompts.ts`, `session-hierarchy.ts` | cards, prompt pairs | apply, pair, sweep, restart | the board is independent of the order of arrival | `Sessions` |
| Board feed | `ws.ts`, `ui/src/api/ws.ts` | connections, what the page shows | snapshot, broadcast, reconnect | snapshot + updates = state | `Feed` |
| Application lifecycle | `index.ts` | users of the history, tasks | acquire, release, fail | open while used | `Lifecycle` |
| Usage reports | `trends/*.ts`, `db.ts` | none of their own | ask, query, answer | the parts of a report agree | `Reports` |
| Migrations | `migrate-history.ts`, `brain/migrate.ts`, `db.ts`, `scripts/backfill-usage-costs.mjs` | two databases, backups | import, upgrade, backfill | repeatable, nothing overwritten | `Migration` |
| Accounts, teams, tokens | `access/*.ts` | accounts, teams, aliases, tokens | save, assign, issue, revoke | refused means refused; teams of today | `Access` |
| Project registry | `brain/project-registry.ts` | repositories, projects, checks | import, save, check | a verdict is of the project as it is | `Registry` |
| Brain memory | `brain/memory/service.ts`, `subpages.ts`, `store.ts`, `webhooks.ts`, `routes.ts` | registrations, jobs, captures, datasets | register, edit, sync, worker, webhook, review, retrieve | withdrawn stays withdrawn; ready is current | `Subpages`, `MemorySync` |
| Cognee client, pruning | `brain/cognee/*.ts`, `memory/prune.ts` | a login, datasets, bindings | index, search, log in, prune | recorded = completely indexed | `Cognee` |
| Memory graph | `brain/graph.ts` | the answer of one request | project, enrich, cut | closed, and of one moment | `MemoryGraph` |
| Brain storage | `brain/persistence.ts` | image in memory, chain of writes, lease | put, transaction, close | image = database | `BrainStorage` |
| Brain analyses, reviews | `brain/analysis/service.ts` | runs, calls, findings, outbox of activity | start, invoke, review, deliver, restart | one at a time; told at least once and in order | `Agents` |
| Code capture, evidence | `analysis/projects.ts`, `code-reader.ts`, `validation.ts`, `github.ts` | excerpts; a managed clone | read, search, cite; clone, fetch | a citation was shown; the clone is ours | `CodeReader`, `GithubCache` |
| Submission of a change | `scripts/brain-submit.mjs`, `analysis/submissions.ts` | a payload | list, read, list again, submit | one moment of the working copy | `Submission` |
| Notion connection | `brain/notion/*.ts` | credentials, pending authorization | connect, callback, renew, read, disconnect | newest grant wins; a state is used once | `Notion` |
| Pricing | `brain/pricing/*.ts` | catalogue, job, proposals | edit, look up, apply, check | an edit during a lookup wins | `Pricing` |
| Pages of the user interface | `ui/src/components/**/use*.ts` | requests under way, what is shown | poll, select, write, start | what is shown never goes back | `Feed`, `AnalysesPage`, `StatePages`, `QueryPages`, `Pages` |
| Hooks and relay supervision | `hooks/*.js`, `fleet/ensure-relay.mjs` | process, port | forward, start if absent | | not modelled |
| Brain interfaces, model calls, captures, Jira, views | `brain/mcp.ts`, `analysis/openai.ts`, `memory/capture.ts`, `jira.ts`, `ui/src/components/*.tsx` | none or a cache | | | not modelled |

Where it is hard:

* **Relay.** Every await of the drain is a point at which the policy file, the
  shared rules, the list and the clock may change; the process may stop between
  any two steps and come back under another developer's token; a post may time
  out and arrive later.
* **Accounting.** One request is seen under several ids, in parts, repeatedly
  and in any order; counters are sampled by clients that restart; memory and
  database forget at different times; a handler applies a batch to memory before
  it is stored and the store may fail, with or without having committed.
* **Memory.** A synchronization reads a policy and then spends minutes in Notion,
  Git and Cognee, while administrators edit the same branch, pages move,
  webhooks arrive, a retrieval waits for it and the process may stop.
* **Analyses.** A start is several awaited writes before the run counts as
  running; a run takes minutes over a context that may change; its result, its
  calls and its activity are separate writes.
* **Everything that waits for somebody else** (a price page, GitHub, a renewal, a
  browser, a WebSocket): the state it was asked about is another when it answers.

The full list, at the line where each hazard bites, is `hazards` in
`PROJECT.json`.  Three of them have no property, each with the reason there.

## 2. Plan

Modelled and checked: all modules of the table.  Proved: what section 6 lists.
Left, in this order:

1. Proofs of what is safe in `Sessions` (`BoardHolds`), whose operators first have to be
   written without folds, then the durable half of `Ingest` (`AckedIsStored`).
2. What the *partly* components leave out (`note` in `PROJECT.json`), first the
   totals of a session and a team in `Ingest`, and the failing write of
   `MemorySync`.

The modules are written to be proved about: parameters as constants, one action
per step, invariants as named conjuncts, no RECURSIVE operator.

## 3. Modules

Each module says at its top what it models and what it abstracts from.  A handler
without an await, and a transaction of a store, is one action; an await ends an
action.  A *budget* or *plan* is a constant that bounds how often something
happens; it is the only thing that is not in the code.  `Absence` declares `None`,
the one value that stands for null and undefined in all of them.

### The workstation

**Relay, Delivery.** `content`, `files`, `age`, `dropped`: the entry files by
serial, and why one left without delivery.  `entries`, `remote`, `drain`:
`RelayOutbox.entries`, `remotePolicy`, the loop of `drain` with `pc` at each await.
`request`, `writing`, `stage`: handlers, the chain `writing`, the place in
`enqueue`.  `received`, `stray`: what the dashboard took; posts the relay gave up
on.  `Accept`, `SessionsSaved` are the handlers up to the first await;
`WriteTemporary`, `RefuseWrite`, `RenameFile`, `PushEntry` are `enqueue`; `Flush`
to `Splice` are `flush` and `drain`, in which the file goes (`Unlink`) one await before
the entry leaves the list (`Splice`).  `Crash` and `Restart`: the process ends
anywhere; `init` reads the directory back, possibly with another credential.
`Delivery` is what an outbox promises: positions grow, the oldest entry of an owner
goes first, an entry leaves only delivered or discarded on record, delivery may
repeat.  `ImplementsDelivery` instantiates it with the directory as queue.

**RelaySessions.** `relay` is the table in memory, `saves` the chain of writes,
`sessionFile` what survives, `selection` the policy file, `tree` which repository a
directory is in.  The table is a set whose order, that of the Map, is that of the
serials of the hooks; `heard` and `answered` are history for the properties.

**Setup.** `settings` are the files, `backups` the copies; `calls` are installers
between `Plan`, `Compare`, `Copy` (the backup) and `Replace`, which `Kill` may end
anywhere; `Edit` is anybody else.  Only a file that was there at the comparison is copied
(`change.previous`).  `hasty` are the edits `setup.mjs:312` accepts to lose: made after
the copy of their file, or to a file that was absent when it was compared.

**Telemetry.** Every record of a set of small ones goes through `Accept` (relay),
`SafeTelemetry` (filter) and `ParseLogs` (server), posted up to twice.  Attributes have
types: the relay reads texts only, the server reads numbers and flags as
their texts too (`Readable`), and the filter cuts a text to its first 300 characters (`Long`).

### The accounting

**Accounting** holds `UsageAccounting` as pure operators: `Consume(memory, e, now)`
returns the new memory and what must be persisted.  **Ingest** runs it: `memory`,
`seenEvents`, `externalIds`, `live` are the state of `Store`; `queue`, `failed` that
of `PersistenceQueue`; `handler[b]` a request between gate, parsing and flush;
`rows`, `checkpoints`, `events` the tables; `cleaning` a prune between its
statements.  `Handle` is the whole synchronous handler, `Write` a transaction with
its callback, `WriteFails` an error before or after the commit, `WriteThrows` the
assertion of `recordUsageAliases`.  `Start` rebuilds memory by the load functions, which
read the rows in no stated order: `Owner` gives an id that several rows carry to the last of
them.  `overlooked` and `forgotten` are history for the properties: requests the database
did not record because the row of before was still there, and counters whose baseline
was dropped.

### The dashboard (module MCDashboard)

| Module | State | Steps |
|---|---|---|
| `Access` | `accounts`, `teams`, `aliases`, `tokens`: collections of `AccessStore`; `shown`: teams on the board; `requests`: authenticated, not yet ingested | one per operation of the store; `MigrateTeams`, `Start`, `RefreshTeams`, `Authenticate`, `IngestEvent` |
| `Registry` | `registered` (several repositories may be aliases of one project), `projects`, `imported`; `codeCheck`: saved verdicts; `checks`: those that wait for GitHub | `StartRegistry` imports, `Save`, `BeginCheck`, `EndCheck` |
| `Sessions` | `board`: cards, `prompts`: pairs, `endedSessions`, `stoppedTurns` | `DeliverHook` (in order), `DeliverLog` (any order), each the whole `Ingest`; `Sweep`, `Restart` |
| `Feed` | `taken`, `version`: the server; `link`: messages under way per socket; `page` | server and page ends of each socket |
| `Lifecycle` | `tasks`, `users`, `initialized`, `connected`; `stage` of each application, `released` | the chained tasks of `acquireHistory`, `releaseHistory`; a close may be rejected before it comes to the second |
| `Reports` | `history`, `states`: what it was since a report was asked for | each query of a report reads one of `states`; the rest is operators |
| `Migration` | `local`, `started`, `upgraded`: the SQLite files; `target`, `records`, `checkpoint`: PostgreSQL; `program` | one row a step, with the checkpoint the row carries; crashes between |
| `AnalysesPage`, `StatePages`, `QueryPages`; `Pages` has these and `Feed` | requests and their counters, what is shown | a request is sent, handled and answered in separate steps |
| `Submission` | `disk`, `index`; `capture`: the helper between two reads; `moments`: the working copies there have been | each Git command and each file read is a step; then `Submit` |

### Brain

**Subpages, MemorySync.** `Subpages` holds the policy inheritance and the
reconciliation of a branch over a function from sources to registrations.  In
`MemorySync`, `sources`, `jobs`, `captures`, `bindings`, `events` are the
collections of `MemoryStore`; `worker` is `synchronize` with `pc` at each await and
what it holds across it; `retriever`, `recorder`, `registrar` are `retrieve`,
`recordReview`, `registerProjects`; `indexer` has its turn in `indexCapture`;
`chain` is who waits for the store; `barred` and `misplaced` are history for the
properties.  What is prepared from an earlier read and
written by a single put keeps that read across the wait.

The parts of `MCBrain`:

| Module | State | Steps |
|---|---|---|
| `Agents` | `runs`, `feed` (the outbox): saved; `task`: a handler with its place and what it still waits for; `running`, `delivery` | each save, event, delivery and model call is a step, `Restart` repairs |
| `CodeReader` | `commit`, `overlay`; `excerpts`, `shown`, `cited` | `Prime`, `CallComparison`, `Requests`, `Cite` |
| `GithubCache` | `directory` with its marker; `tail`: the queue; `prepare`: callers | one per file system or Git command |
| `Pricing` | `catalogue`, `transaction`, `worker`, `check` | a transaction is open between two steps; page and model answer apart |
| `Notion` | `credentials`, `file`, `saving`; `operation`, `stream`, `refreshing` | serialized operations; inside a read, stream and requests overlap |
| `BrainStorage` | `database`, `locked`, `image`, `chain` | put, commit, rollback, loss of the session, two servers |
| `Cognee` | `service`: datasets there; `token`, `lost`, `call`, `delayed`; `bound`, `used`, `cut` | each call and login is sent, served, answered, refused or lost; prune, which may be interrupted |
| `MemoryGraph` | `memory`, `run`, `request`, `answer` | ask, extract, publish, withdraw; the graph is operators over nodes and edges with places |

Composition: `Ingest` uses `Accounting`, `MemorySync` uses `Subpages`, `Submission`
reviews what `CodeReader` overlays, and `Relay` is instantiated beside `Ingest` for
progress.  The parts of `MCDashboard` and `MCBrain` call each other only through
single awaited calls, which each part takes as an input or an answer; they share
no state, so a run explores one of them per behaviour.  The MC modules extend the
parts that are also proved about (`Relay`, `Setup`, `RelaySessions`; `Agents`, `BrainStorage`,
`GithubCache`, `Notion`, `Pricing`, `Cognee`, `MemoryGraph`; `Access`, `Registry`, `Lifecycle`,
`Submission`, `Migration`, `Pages`), so that
TLC evaluates their assumptions, and instantiate the others.  `MCLive` instantiates
`Ingest` and `MemorySync` beside `Relay`; `MCNotion` and `MCMigration` are the instances of
two runs that are expected to fail.

## 4. Runs

A *plan* is an initial state with its budgets; a run explores all its plans and
chooses among them, and among its parts, in `Init`.  A property of a run is often
the conjunction of the named properties of a part (defined at the end of the MC
module); each of these has its own mutant in `PROJECT.json`.

| Run | Instance | Properties |
|---|---|---|
| `workstation` | outbox: a hook and an export of two batches with a queue of 2 files, 3 in all, 2 credentials; one export under 4 policy files, a broken one and 2 rule sets with 2 edits; one export tried twice; each with a crash or a fault.  Table: 2 sessions, room for 1.  Installer: 2 calls, 2 files, an edit, a kill.  Every small record, posted twice | `TypeOK`, `QueueMirrorsDirectory`, `CredentialKept`, `AckedIsKept`, `PostedOnlyWhenSelected`, `ImplementsDelivery`, `OutboxHolds` (order, no needless duplicate, bounded directory), `SessionsHold`, `RecordsHold`, `EditsAreKept` |
| `live` | one export with a broken policy, a crash, a foreign credential and a fault; a request, counters and a Brain call with a failing write; a branch with an edit, a failing call or a restart, and a retrieval | `EverythingIsHandled`: every entry leaves the outbox, every batch is acknowledged; `MemorySettles`: references become ready again, retrievals end |
| `ingest_safety` | plans `Requests`, `Apart` (ids in any order), `Failures`, `Metrics`, `Expiry`, `Forgetting` | `TypeOK`, `AckedIsStored`, `BoardIsTheDatabase` (also after a restart), `RequestsCountOnce`, `CountersCountOnce` |
| `memory_safety` | one page; a branch of three levels; a page that moves; discovery with a limit; a retrieval, beside edits or with a failing call or a restart; reviews | `TypeOK`, `SourcesHold` (ready is current and fresh, withdrawals hold, branches agree), `EvidenceHolds` (answers are current, indexed once) |
| `brain` | eight parts: 2 starts, 1 review, 1 change; 3 or 4 files of at most 5 lines; 5 kinds of directories, 3 requests of 2 callers; 2 models; 2 connects, 2 pages; 2 servers, 2 records, 3 transactions; 2 datasets, a content that comes back; 3 sources, graphs of 5 nodes | `TypeOK`, `AnalysesHold`, `EvidenceIsExact`, `CloneIsOwned`, `EditsWin`, `GrantsHold`, `CommitsHold`, `IndexHolds`, `GraphHolds`, `WorkEnds` |
| `dashboard` | eleven parts: 2 accounts, 2 teams, a token; 2 repositories, 3 projects; 3 scripts of sessions; 2 connections, 2 changes, a new token; 3 applications, 2 failures; 3 analyses, polls and writes; 7 days of 4 lengths, 3 rows of usage or 4 prompts; 2 sources of older rows, a server beside; 3 paths, 4 contents, 2 edits | `TypeOK`, `AccessHolds`, `ProjectsHold`, `BoardHolds`, `HistoryIsShared`, `PagesAdvance`, `ReportsAgree`, `MovesKeep`, `ReviewedIsTheMoment`, `WorkEnds` |

Why the bounds are enough for these questions: each hazard involves at most two
concurrent actors and one interruption.  The relay needs two entries for order, a
third file for a full queue and a second credential.  An accounting race needs one
request observed under two ids with every kind of measurement, a counter with a
restart, and one retention boundary (`Retention = 2`, `DayLength = 1`, so that
batches cross midnight and expiry, `SeenLimit = 2`, so that event ids are
forgotten).  A branch needs three levels so that a middle page is both child and
parent.  A race on a page or a price needs two answers that overtake each other; a
shared login two calls; a report two days of other lengths on either side of its
period; a capture one edit before and one after a file is read.  What the instances do
not reach: a crash of the relay together with a fault while two requests are under way
(`live` has both with one), and three concurrent exports.  The plans of `ingest_safety` do reach what the accounting does not
do well, and the properties say where they stop:

* `LiveMatchesStored` (in `BoardIsTheDatabase`) compares the board with the database *and*
  the `overlooked` requests: a request whose ids memory has forgotten is new to the board
  when it is observed again, while its old row, not pruned yet, makes the database ignore it
  (plan `Forgetting`).
* `CountedIdsAddNoRow` (in `RequestsCountOnce`) is about an id that was *stored*: an
  observation that carries one adds no row.  A request observed first under one id, then
  under the other, then under both has two rows (plan `Apart`), and after a restart an id
  that both carry belongs to the one that is loaded last, which `RestartInvisible` allows.
* `CheckpointMatchesCharges` and `NeverOvercharged` (in `CountersCountOnce`) except the
  counters that do not say when they started and whose baseline expired (`Unfounded`, plan
  `Expiry`).  The first is moreover about counters that started within the
  retained history: an older one is taken up without a charge, by design.

Section 8 names the lines of each.

Some properties hold with a stated limit.  `BranchesAgree` (in `SourcesHold`) is
about registrations in which no page was approved while its branch did not have it
(`misplaced`): `update` allows that for a page that was withdrawn by itself (run
`memory_outside`), and such a page stands outside its branch from then on.  `CurrentIsIndexed` (in
`IndexHolds`) excludes what a prune has deleted and not yet forgotten, and what it was
interrupted over (`cut`).  `LoginsAreNeeded` counts a login whose answer never arrived as
needed: Cognee has issued its token, Brain asks for another.  `CountedWhereItPassed` (in
`RecordsHold`) names the session only of a record whose first session attribute is a text,
and `NothingUsedIsDropped` compares with the record after the cut.  `EditsAreKept` excepts `hasty` edits, `EventuallyClosed` (in `WorkEnds`) closes that
were rejected.  `ImportedOnce` (in `MovesKeep`) says that an import that ended has what it
found under the names it has *there*: rows of one source under other names after an upgrade
are what `history_rerun` shows, and rows of two sources under one name are section 8.
`ReportsAgree` is about reports during which nothing changed,
since a report on PostgreSQL is several statements.  `AccessHolds` says of teams
that the board shows those of today once a refresh is done.

Runs that are expected to fail, each a disagreement between code and text:

| Run | Text | What the code does |
|---|---|---|
| `ingest_relapse` | TELEMETRY.md:108-110: pruning cannot make old events count again; late exports and aliases stay deduplicated within retention | identities are renewed by every observation in memory but restored with the time of the first: after expiry and restart, a repeated, acknowledged observation is charged again |
| `ingest_latched` | db.ts:500, 517: canonical usage is persisted before its aliases | the row expires by its first observation while its ids live on in memory; the next alias throws, and the queue answers 503 until a restart |
| `memory_approved` | COGNEE.md:6: only approved references are indexed | a specification withdrawn while a retrieval waits for its turn at the index is indexed |
| `memory_outside` | NOTION-MCP.md:73-74: withdrawing a branch excludes its pages | a page withdrawn by itself before its branch can be approved afterwards, outside the branch |
| `history_rerun` | POSTGRES.md:50-51: both imports can be rerun without duplicate rows | a source of an older release is imported under its source id; once the local server has run on it, its rows have the names of the local upgrade, and the rerun inserts them again |
| `notion_reuse` | NOTION-MCP.md:34-35: requests are serialized, so that no rotated refresh token is reused | the event stream of a read is not: a renewal it forces while the read saves its time of last check is overwritten by the tokens of before |

Deadlock is not checked: budgets end, and every part may rest.

## 5. Fairness

* `Relay` (in `live`): timers fire (`Flush`), writes and requests end, possibly with
  an error (every fetch has a timeout), time passes, someone restarts the relay
  (`ensure-relay.mjs` runs at each command).  `Resolved` assumes that the policy
  file becomes readable for good; nothing makes the dashboard answer: expiry bounds
  the wait.
* `Ingest` (in `live`): clients repeat what was not answered 200 (the relay does),
  the database answers, an operator restarts a server that closed its queue.
* `MemorySync` (in `live`): the worker's calls to Notion and GitHub end (each has a
  timeout), handlers that began go on, a stopped server is started again.  The poll of the
  index has no deadline in the shipped configuration (`brain/config.json:104` has
  `indexTimeoutMs` 0, `cognee/client.ts:198-217`), so both properties have the premise
  `IndexingEnds`: Cognee ends every index operation, with a dataset or an error.  `Settles`
  assumes the periodic reconciliation besides; `RetrievalEnds` that requests for
  synchronization cease, since a retrieval waits for jobs that others may add to without end.
* `brain`: weak fairness of the progress of the chosen part: `AgentsProgress` (model
  calls, writes and deliveries that began end, a stopped server is started; a model call has
  300 s by default and no deadline with `BRAIN_REQUEST_TIMEOUT_MS=0`), `PricingProgress` (the
  timer of the automatic check, fetches, commits), `Works` of `Notion` (saves,
  renewals and reads end: all have timeouts), `StorageProgress` (a statement ends or
  its connection reports an error).  Nothing makes an administrator, a reviewer or a browser act.  No timer repeats a
  delivery of activity that failed (`analysis/service.ts:340-371`), only the next event or
  the next look at the board does: `EventuallyHeard` has the premise that somebody looks
  (weak fairness of `Overview`).  `AnalysisEnds` has the premise that retrievals end, which
  `RetrievalEnds` makes one about the index.
* `dashboard`: `FeedProgress` of `Feed` (a lost socket is noticed, the page connects
  again after its delay) and of `Lifecycle` (chained tasks run).  Nothing closes an
  application, and nothing repeats a close that was rejected: `EventuallyClosed` supposes
  that none keeps serving and none was abandoned so.

In `brain` and `dashboard` it is on the disjunction of a part's own steps, which is
the weakest assumption that says "the process goes on"; in the other runs on each
actor, since one may wait for another.

## 6. Proofs

Each proof module says at its top what it proves and by which argument.  The
theorems hold for every value of the constants that satisfies the assumption named
in the table (an `ASSUME` that TLC evaluates in the run of the module): any number
of requests, servers, pages, accounts, files, crashes, faults and edits, where a
run has two or three.

| Module, assumption | Theorem | States, of the specification of the module |
|---|---|---|
| `RelayProofs`, `RelayAssumption` | `TypeCorrect` | `TypeOK` |
| | `MirrorsDirectory` | `QueueMirrorsDirectory` |
| | `CredentialsKept` | `CredentialKept` |
| | `SelectedWhenPosted` | `PostedOnlyWhenSelected` |
| | `NothingAckedIsLost` | `AckedIsKept` |
| | `OutboxIsSafe` | `OutboxHolds`: order, no needless second post, bounded directory |
| | `ImplementsItsPromise` | `ImplementsDelivery`: the relay refines `Delivery` |
| same, `TableAssumption` | `SessionsAreSafe` | `SessionsHold` |
| same, `SetupAssumption` | `SettingsAreKept` | `EditsAreKept` |
| `MemoryProofs`, `MemoryAssumption` | `SourcesAreSafe` | `SourcesHold` |
| | `EvidenceIsSafe` | `EvidenceHolds` |
| | `MemoryTypes` | `TypeOK`, with the limit of pages |
| `AgentsProofs`, `AgentsAssumption` | `AnalysesAreSafe` | `AnalysesHold` |
| `NotionProofs`, `NotionAssumption` | `GrantsAreKept` | `GrantsHold` |
| same, `GraphAssumption` | `GraphsAreClosed` | `GraphHolds` |
| `StorageProofs`, `StorageAssumption` | `CommitsAreKept` | `CommitsHold` |
| same, `CacheAssumption` | `CloneHasOneOwner` | `CloneIsOwned` |
| same, `CogneeAssumption` | `IndexIsSafe` | `IndexHolds` |
| same, `MigrationAssumption` | `MovesAreSafe` | `MovesKeep` |
| `AccessProofs`, `AccessAssumption` | `AccessIsSafe` | `AccessHolds` |
| same, `RegistryAssumption` | `ProjectsAreSafe` | `ProjectsHold` |
| same, `LifecycleAssumption` | `HistoryStaysOpen` | `HistoryIsShared` |
| `PricingProofs`, `PricingAssumption` | `EditsAreHeeded` | `EditsWin` |
| `ClientProofs`, `SubmissionAssumption` | `ReviewIsOneMoment` | `ReviewedIsTheMoment` |
| same, `FeedAssumption`, `AnalysesAssumption`, `StatesAssumption`, `QueriesAssumption` | `PagesAreCurrent` | `PagesAdvance` |

The assumptions say that the constants are of the kinds the code gives them (a
policy is a policy, `None` is not a value), that limits are numbers, and, where a
plan is an initial state, that it is one the program can be started in: what is
registered is a forest whose pages agree with their branch, a clone's marker names
what it holds, an account is in teams that exist.

No safety property of these is inductive.  What is added, and why:

* **Relay** (`CoreInvariant`, `RelayInvariant`).  The list mirrors the directory except for
  the file between its rename and its push, which is the newest (`WriterInv`), and the
  entry between its unlink and its splice, which is the one the drain holds (`DrainInv`);
  so the splice takes out that entry, and only it.  A post carries the
  right credential because the entry the drain holds was compared with the credential
  of the process, which changes only in a restart, when there is no drain.  An
  acknowledged entry is kept because a request is answered after its files are
  renamed, and an entry leaves the directory only delivered, or with a reason that
  was written with it.  `NetworkInv` bounds what a post on its way may still say.
  Under the refinement a rename enqueues, a post that arrives delivers, an unlink
  takes out a delivered entry or discards one, a restart discards damaged files, and
  every other step stutters.
* **Session table** (`TableInv`).  Every copy of the table, in memory, in the chain of
  writes and in the file, was told of the hooks answered and of those whose writes come
  up to it (`Told`).  Of these no one is newer than the entry of its session (`Newest`),
  and one that is still known is in the copy (`Keeps`), which a hook keeps because the
  entry that makes room is older than as many sessions as the table holds.
* **Setup.**  What a call has planned for a file is in the file, in a copy or is `hasty`: a
  call past the copy of a file that was there has its content of then in `backups`, and a
  file it found absent can hold only edits made since; so a replacement drops no other.
* **Memory** (`MemoryInv`).  The registrations form a forest (`TreeOf`), in which
  withdrawals stand; the worker, who reads and writes minutes apart, writes only
  where the policy version of its copy is the one of now; it and a recorder
  wait for the store once each, in either order (`ChainInv`); and a notice or a review
  that comes in between is in the queue, before the worker reads, or still with the
  recorder (`EventsInv`, `TextInv`).  Without the chain order the last two fail: a
  review saved between the worker's claim and its mark is read only because the job
  of that review is queued afterwards.
* **Agents.**  A handler differs from the saved run only by what it is about to save;
  the history is at most one event ahead of the marks of the outbox (`FeedInv`).
* **Notion.**  Which saves can still be on their way, and with whose tokens
  (`SerialInv`, `ValueInv`).
* **Memory graph** (`GraphInv`).  The graph that waits for the concepts shows every dataset
  it asked for (`Indexable`), since both were read at once; what is added keeps a closed
  graph closed (`AddedAreClosed`), and so does cutting it (`LimitedIsClosed`).
* **Storage.**  The lock lives as long as the session, so who can commit has the image
  of what is committed (`LockInv`, `TransactionInv`).  The clone cache: the queue is a
  sequence of callers of whom only the first works, and the marker is of the clone.
* **Cognee** (`CogneeInv`).  The client knows what the service has done only from where
  its call is (`Concludes`), and that lasts: a call done late undoes nothing, and
  datasets are deleted only while Brain is down (`RunsInv`).  Of the tokens Brain
  heard of, more than it was started may be valid only by one, while the calls know it
  (`TokenInv`); a token whose login was not answered is valid and in `lost`.  A refused call
  forgets a token only if it is the refused one.  A dataset that is gone and still recorded
  is in the hand of a prune or in `cut`, also when the source is current with it.
* **Migration** (`MigrationInv`).  A row is named by its namespace, and rows of today,
  upgraded rows and the older rows of each source never share one.  An import has its
  rows either in PostgreSQL or still before it, a source has the names of its upgrade
  when its import begins, and only rows of today lack a measured cost, so that every
  row a backfill may touch is stored, unmeasured and in the backup it has written
  (`ProgramInv`).  Each row brings its checkpoint in its own transaction, which only
  `AdvancedTo` may move.
* **Access, Registry.**  A token of a disabled account is revoked already, so that no
  later save revives it; every repository has its project from the
  import on, and a project that is fetched has the remote of one of its repositories: a save
  through an alias sets it to that of the alias.  No save moves a link, so the set of
  repositories of a project stays what the first start found.  A check in flight keeps the
  project it is about.
* **Pricing.**  Who reads a model remembers its revision, and every edit gives it
  another: what a lookup, a check or a proposal holds is of the present state if the
  revision is (`Held`).  An open transaction was computed from the committed catalogue
  and nobody else changes that (`ChangeHolds`), so a comparison stays true until the
  commit.
* **Lifecycle.**  The users are exactly the applications started and not released
  (`UsersInv`), those whose close was rejected before the release among them for good, and
  no acquire passes a release that runs (`RunningInv`).
* **Submission.**  A path that left a captured content does not have it again while no
  content comes back, so that what agrees before and after the second list held at it.
* **Feed** (`FeedInv`).  At most one connection is live: made for the token that is entered
  now and not known to be closed.  What it has under way continues what is shown, event by
  event from its snapshot on (`Continues`), which a loss that cuts the queue anywhere keeps;
  and while it is up it leads to the newest event (`Complete`), so the next one continues it.
* **Pages** (`AnalysesInv`, `StatesInv`, `QueriesInv`).  Of the requests whose answer may
  still be taken one is the newest, and it was sent, and so handled, after what is shown
  was answered.  A list that is taken was asked for after the last start was answered, and
  the server had that analysis by then.  A write of the prices is the newest request while
  it lasts, since the timer waits; after one of the memory the newest read follows it.

Only model-checked, because TLAPS cannot state or reach them: every liveness property
(`EverythingIsHandled`, `MemorySettles`, `WorkEnds`), since it rests on fairness and
ENABLED; `EvidenceIsExact`, `RecordsHold`, `ReportsAgree`, which say what folds and
recursive definitions compute.  Only model-checked so far: `BoardHolds`,
whose model folds over sequences with operators of the community modules that leave the
SMT solver out, and the properties of `Ingest`.  Their
exceptions (`overlooked`, `forgotten`, `Fresh`) follow what memory and database forget at
different times (`ingest_relapse` and `ingest_latched` are of that kind), and their totals
are folds.

## 7. Not modelled, and why

* *Hooks and relay supervision*: a hook forwards one event; `ensure-relay.mjs` starts
  a process and polls its port.  Their state is that of the operating system.
* *Brain interfaces* (MCP, access control of routes, configuration): stateless
  functions over services that are modelled.
* *Model calls and schemas*: one HTTP request each; `Agents` models answers and
  failures.
* *Captures and selection of evidence*: pure functions of texts; `MemorySync` models
  the identity of a capture, `CodeReader` that of an excerpt.
* *Jira lookup*: one request with a cache nobody depends on.
* *Views*: React views of the state the pages hold.
* In the *partly* modelled components: contents and layouts (settings, prompts,
  pages, tables), byte limits, invitations, the JSONL export, deployment.

## 8. Seen while reading

Without a run, since no text promises otherwise or the case needs what the models
leave out:

* `fleet/projects.mjs:33-107`: two `projects` commands at once: the later write
  wins.  A session whose removal from the file fails is known again after a restart.
* `fleet/setup.mjs:312-324`: settings edited between the second reading and the copy are
  overwritten, but survive in the backup.  Those edited after the copy do not, nor does a
  file somebody creates after it was found absent: it is overwritten and was not copied.
* `fleet/relay.mjs:26-31`, `otlp/parse.ts:68-93`: a record whose `session.id` is a number or
  a flag passes under another session attribute that is a text, and is counted under the
  text of the number.
* `otlp/parse.ts:323`: a record whose `timeUnixNano` is "0" gets another id at each
  reading.  Metric series that differ only in attributes outside the whitelist share
  a series.
* An event dated after midnight that arrives before it is stored, but missing from
  the totals that start at midnight.  TELEMETRY.md gives the retention default as 60
  days, the configuration has 190.
* `brain/memory/service.ts:86`: a failing write of the periodic reconciliation stops
  the worker for good.  `:319`: a job is reused although the worker has picked it
  with the registration of before, so an edit made then waits for the next
  reconciliation.  `:512`: a crash after a parent's job has succeeded and before its
  children are queued leaves them to the parent's next synchronization.
* `brain/memory/service.ts:240`: the proof of `BranchesAgree` failed for what TLC's
  instances were too small to show.  A page withdrawn by itself below a branch stays
  where it is while the branch gets other projects and moves below another one; it
  can then be approved for a project its branch does not serve.  The property now
  excepts such a page (`misplaced`).
* `brain/memory/prune.ts:45`: a prune that is interrupted between the DELETE and
  `removeDataset` leaves a binding to a deleted dataset.  When the content comes back before
  the next prune the binding is reused and the source counts as indexed, for good: the
  next prune takes the dataset for one in use.
* `brain/cognee/http.ts:79-88`: a login that times out after Cognee issued its token is
  repeated; the token nobody knows stays valid.
* `brain/project-registry.ts:100-106, 176-177`: several repositories may be aliases of one
  project.  A fetched project they share follows the remote of the alias saved last.
* `index.ts:216-223`: a rejected `pricing.close()` or `access.close()` leaves the
  application counted as a user and the history's pool open, and `resourcesReleased` stops a
  second try; the comment before the cleanup at `index.ts:608` says that shared history is
  released even when closing fails.
* `brain/analysis/github.ts:157`: a crash while the marker is written leaves a partial
  one, which no later request can parse; the comment above it calls an interrupted
  init recoverable, which holds from the complete marker on.
* `store.ts:694`, `db.ts:319`, `db.ts:1182`: the sweep forgets the ids of a request, while
  its row waits for the next prune; observed again it counts on the board and is ignored by
  the `ON CONFLICT` of the database.  `accounting.ts:171` (`seen.set(key, event.ts)`, without
  a maximum) makes it more likely: an observation that comes late shortens how long the ids
  are remembered.  What such an observation measured is acknowledged and not stored.
* `accounting.ts:154-168, 257-275`: observed under its request id, then under its response
  id, then under both, a request keeps two rows, although TELEMETRY.md:109-110 says
  that request aliases remain deduplicated within retention; which of them an alias
  updates after a restart depends on the order in which the rows are loaded.
* `accounting.ts:339-346`: a counter without a start time whose baseline expired is charged
  its total again.  TELEMETRY.md:113-118 asks clients to restart after such an absence.
* `migrate-history.ts`, `db.ts:457-480`: two sources upgraded locally share the ids
  `legacy-sqlite-local:...`, so that the rows of the second are dropped; an import repeated
  after the server estimated a cost restores the older one, or none.
* `useMemoryGraph.ts`: `openNode` notes the analysis before the document is open.
* `scripts/brain-submit.mjs`: a file created and added between the two Git commands of
  the second listing is missed, and a content that changes and comes back defeats the
  double read.
