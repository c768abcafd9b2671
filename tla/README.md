# A verification project for LuminAI

LuminAI ingests records from files and databases, cleans and deduplicates them,
resolves them into golden records, and serves these from a search index and a
graph. This directory holds TLA+ models of the parts whose correctness depends
on order, concurrency or failure, the TLC configurations that check them, and
proofs checked by TLAPS. Paths below are relative to the repository.

Contents: [the system](#the-system) · [the models](#the-models) ·
[the runs](#the-runs) · [the proofs](#the-proofs) ·
[what the models found](#what-the-models-found) ·
[what is not modelled](#what-is-not-modelled) · [the plan](#the-plan)

## The system

Three programs, and the stores between them:

| Program | Where | Processes and threads |
|---|---|---|
| Core Backend (Java, Spring) | `core-backend/` | request threads, Kafka listener threads (three per listener), a heartbeat scheduler |
| Data Engine (Python, FastAPI and Dagster) | `data-engine/` | one process (`replicaCount: 1`): an event loop, a thread pool for background tasks, one Kafka poll thread |
| Frontend (React) | `frontend/` | one JavaScript thread per tab: renders, effects, timers, and the answers of requests in any order |

```
 Core Backend --ingest.raw--> IngestRawConsumer --callback--> cleaning pipeline
   ^   ^  |                     |  ^                           |   |   |
   |   |  |          quarantine v  | replay          checkpoints   |   +--ingest.valid--> Core Backend
   |   |  +--HTTP trigger/status/retry--> run tracker <--status----+   v
   |   |                                      ^              staging_records
   |   |                                      |                    v
   |   +--er_candidates, golden_records <-- entity resolution pipeline
   +--entity.resolved <---------------------------+
```

### Inventory

Data Engine (`data-engine/app`):

| Component | State | Operations | What is hard, and what correct means |
|---|---|---|---|
| Run tracker and trigger: `processing/run_tracker.py`, `trigger.py`, endpoints of `api/processing.py` | records of runs in memory and in SQLite; queued background tasks | trigger, status, retry; start, step, complete, fail; chained ER run | the event loop, worker threads and the poll thread share records, partly without the lock; a crash forgets memory. One execution of a run at a time, a bounded number of them, a failure that explains itself, every run settles |
| Ingest consumer and quarantine: `kafka/consumers.py`, `kafka/quarantine.py` | committed and stored offsets, the batch at hand; quarantined messages | consume, dispatch, commit, stop; replay, discard | auto-commit beside the dispatch, eviction from the group during a long callback, stop in the middle of a batch. Every message handled or quarantined, redelivered only after a fault |
| Cleaning pipeline: `processing/pipelines/cleaning_pipeline.py`, `checkpoint.py`, `checks/quality_checks.py` | frames passed between assets, checkpoints, staging table, quarantined rows | five assets and their checks, retried by Dagster and by the API | side effects before the checkpoint, each of six stores failing on its own. The batch staged once, nothing synthetic in production, no row lost |
| Entity resolution: `processing/pipelines/er_pipeline.py`, `processing/er/` | frames, checkpoints, `er_candidates`, golden records, provenance, `entity.resolved` | load, block, compare, classify, cluster and merge, publish | the same, and a staging table that grows under it. Same entity exactly if matched, each record in one golden record |
| Producers: `kafka/producers.py` | none kept | publish with retries, dead letter | their outcome (sent or not) is a choice in the models |
| Golden record history: `processing/er/golden_record.py` | versions of golden records | read, history, rollback | rollback beside a merge |
| Reconciliation: `processing/reconciliation.py` | none | compare PostgreSQL, Neo4j and OpenSearch | three reads at three moments |
| Relational edges: `processing/er/relational_edges.py` | edges table, events | generate, persist, publish | insert, then publish |
| Rate limiter: `rate_limit.py` | a sliding window per key | check and record, prune | the clock is read before the lock |
| Database engines: `db/session.py` | lazily created engines | get, dispose | dispose beside get |
| Analytics, dashboard, health, metrics, schema detector, MinIO client, schedules, ingest assets, security | none, or another system's | queries, checks, HTTP | no state of their own |

Core Backend (`core-backend/src/main/java/com/luminai`):

| Component | State | Operations | What is hard, and what correct means |
|---|---|---|---|
| Run board: `connection/consumer/`, `PipelineMonitoringService`, `KafkaConfig` | `pipeline_runs` | on ingest.valid, on entity.resolved, list and metrics (which insert) | events name a connection, not a run; two topics without a common order; redelivery. A run gets its own events, once |
| Merge review: `MergeReviewService` | candidates, golden records | accept, reject, split | two reviewers, an optimistic lock on one of the two tables, an event before the commit. No merge and no split is lost |
| Progress streams: `PipelineSseService` | emitters | register, broadcast, complete, heartbeat | emitters complete while others broadcast |
| Graph and index consumers: `graph/`, `explorer/` | Neo4j nodes | merge on entity.resolved | redelivery, poison events |
| Credentials vault: `CredentialsVaultService` | cache and table | store, retrieve, rotate, delete | the cache before the commit, several replicas |
| Tenancy: `common/tenant/` | thread-bound tenant, cached resolution, schemas | resolve, provision | staleness, one transaction of many statements |
| Ontology: `ontology/service/` | entity types, relationship types, versions | create, update, delete, publish | check-then-insert, snapshots beside edits |
| Connections, mappings, cleaning rules, audit, auth, dashboards, explorer, engine client | one row per request | CRUD, forwarding | little |

Frontend (`frontend/src`), with the services of the backend that a page works
against:

| Component | State | Operations | What is hard, and what correct means |
|---|---|---|---|
| Browser session: `stores/authStore.ts`, `lib/api.ts`, `components/layout/ProtectedRoute.tsx`, `features/auth/` | the store, the OIDC session in `sessionStorage`, token and file list in `localStorage`, requests under way | check, login, callback, sandbox, logout; a request with its renewal after a 401 | several checks and renewals under way, a redirect half done, another user signing in. The user ends up on the page asked for, is told once that the session ended, and owns what the browser remembers |
| Pipeline page: `usePipelineStream.ts`, `PipelineMonitor.tsx`, `PipelineSseService` | event source, reconnection timer, list | open, error, reconnect, events, poll, leave | timers and mounts interleave. One stream, polling whenever it is down |
| Job panels: `ExecutionLogs.tsx`, `SyncJobDetails.tsx` | log lines, the latest run | poll, merge, trim, clear, pause | overlapping polls. Each line once, in order, never lost but by trimming |
| Upload wizard: `FileUploadWizard.tsx`, `DataPreviewTable.tsx` | step, file, mappings, ingestions under way, remembered files | read, map, page, ingest, retry, close | a window closed over a sequence of requests. What is finished is stored |
| Connections page and previews: `ConnectionsPage.tsx` | list, dialogs, previews, remembered files | load, tick, delete, preview, download | late answers change what is on the screen. Deletions are confirmed, rows belong to the file named |
| Database form: `DatabaseConnectorForm.tsx`, `TableSelector.tsx` | details, discovered tables, selection | discover, edit, select, register | edits after discovery. What is registered was discovered |
| Schema mapping: `SchemaMapPage.tsx`, `VisualSchemaMapper.tsx` | sources, types, rows, links, memory of the browser | choose, link, save, template | save row by row, mount anew per pair. One to one; listed is stored |
| Ontology: `OntologyPage.tsx`, `features/ontology/components/`, `ontology/service/` | types, relationships, versions; open windows | create, update, delete, import, publish, compare | answers for a window closed since, other users. Ends exist, versions replay |
| Merge review: `MergeReviewPage.tsx`, `MergeReviewService` | candidates, golden records; cached lists | list, accept, reject, split | two reviewers, a lock on one of two tables. Accepted is merged, no merge or split is lost |
| Explorer, record, graph: `pages/explorer/`, `pages/graph/` | text, types, page, URL; record and drawer; neighbourhoods | search, suggest, open, filter, expand | superseded requests. What is shown is what is asked for |
| Administration: `features/admin/`, `SettingsPage.tsx`, `UserProvisioningService`, `TenantProvisioningService`, `ApiKeyService` | users and Keycloak accounts, tenants, keys | create, rotate | a transaction beside an external system, two administrators. A row has its account, earlier keys are revoked |
| Dashboard: `DashboardPage.tsx`, `DataEngineTelemetryCard.tsx` | cached queries | poll, refresh, change the range | overtaken answers. Nothing goes back |
| Shell: `AppShell.tsx`, `Sidebar.tsx`, `ToastProvider.tsx` | notifications and timers, sidebar | show, dismiss, toggle | timers of what was pushed out. The newest stay |

The hazards this gives rise to are listed, each at its line, in `PROJECT.json`,
with the properties that watch them.

## The models

| Module | Models |
|---|---|
| `RunTracker` | the tracker, the trigger and the three endpoints |
| `MCRunTracker` | its small instances |
| `RunTrackerProofs` | theorems: one attempt at a time; what the records of runs say |
| `IngestConsumer` | the poll loop, with the Kafka client's offsets |
| `Quarantine` | the table of failed messages; `IngestConsumer` instantiates it |
| `Delivery` | abstract: what the consumer owes the topic |
| `MCIngestConsumer` | small instances |
| `ConsumerProofs` | theorems: what is skipped, what comes back, what replays publish |
| `CleaningPipeline` | the five cleaning assets |
| `StagingContract` | abstract: what a cleaning run owes the staging table and the topic |
| `MCCleaningPipeline` | small instance |
| `CleaningPipelineProofs` | theorems on the pipeline and its tables, and that it keeps the contract |
| `EntityResolution` | the five ER assets |
| `UnionFind` | the clustering; `EntityResolution` instantiates it |
| `MCEntityResolution` | small instance |
| `UnionFindProofs` | theorems: the clusters are the components of the matches |
| `ResolutionProofs` | theorems: what a run writes, how often, and what it announces; it instantiates `UnionFindProofs` |
| `Session` | the browser session |
| `Lists` | what `filter` and `sort` of an array return; four modules of the frontend extend it |
| `PipelineMonitor`, `JobPanels` | the pipeline page; the log and the job panel |
| `UploadWizard`, `Connections`, `DatasetPreview`, `DatabaseForm` | the connections page and its windows |
| `SchemaMapping` | the schema page and its mapper |
| `OntologyEditor`, `PropertyForm`, `OntologyImport`, `OntologyVersions` | the ontology page and its windows, with the backend's services |
| `MergeReview` | the review page and `MergeReviewService` |
| `Explorer`, `EntityDetail`, `GraphExplorer` | search, record with its drawer, graph |
| `Administration` | users, tenants and keys, pages and services |
| `Dashboard`, `Shell` | the dashboard; notifications and frame |
| `Workbench`, `MCWorkbench`, `MCAdministration` | the composition of the frontend and its instances |
| `PagesProofs` | theorems on the session, each other page and the import by itself |
| `EditorsProofs` | theorems on each panel, form, editor and wizard by itself, on the versions and on the explorer |
| `WorkbenchProofs` | theorems on the frontend as a whole |

Definitions named `Bug...` are plausible defects of the definition after them,
kept to show that each property notices one (`PROJECT.json`, "mutants").

**RunTracker.** `mem` and `db` are `PipelineRunTracker._runs` and its SQLite
table. A mutator of the tracker holds its lock throughout and is one step;
`get_status` is three (look in the cache, read SQLite, refill the cache) since
it releases the lock in between, and the status answer is read in two, field by
field from the shared record. The endpoints are `async def` without an `await`,
so `loop` serves one request at a time. `pending` is the queue of background
tasks, `pc`, `job` and `result` are the threads. `Crash` empties memory and
keeps SQLite. `LossyDisk` lets a write to SQLite fail silently, as
`_persist_to_db` does.

**IngestConsumer** and **Quarantine.** `position` is what the client has stored,
`committed` what the group has; a batch is dispatched message by message.
`AutoCommit` is the client's own thread, `Evict` a callback longer than
`max.poll.interval.ms`. A message is its kind (a batch-complete signal, a row,
one that `handle` refuses, one that is not JSON, one that is no object): the
kinds take different branches. The Kafka client is external and modelled by its
configuration in `_create_consumer`. A replay publishes and then updates SQLite,
in two steps: a crash or a refused update between them leaves a copy on the
topic that the table does not count.

**CleaningPipeline** and **EntityResolution.** `run[r]` is the execution of a
run: the asset it is at, where in that asset (`pc`), how often it was tried, the
frame it got (`data`) and the one it has built (`out`). Every side effect
(file, PostgreSQL, SQLite, Kafka, quarantine, checkpoint) is a step of its own,
in the order of the code, so a failure or a crash can come between any two. The
`faults` counters say which kinds of fault struck: a property that tolerates a
loss names it. Cleaning knows a frame by where its rows come from. Entity
resolution knows a record by its id; a *world* gives each record its blocking
key and each pair its score, so that blocking, the thresholds and the
union-find are the code's and only the string arithmetic is left out. The
staging tables get records while a run executes. A checkpoint that is there may
be unreadable when its asset starts (`Unreadable`): the code logs it and executes
the asset again, and a later attempt may read it after all. Whether synthetic
rows may stand in for a file or for staged records is `MayFallBack`: an explicit
`allow_synthetic_data` goes before the environment, as in
`synthetic_data_allowed`, so production with the override set is among the
initial states.

Deliberate choices of both: the checks of `cleaned_ingestion_data` depend on
that asset alone and may be executed anywhere after it; `materialize` raises on
the first step that failed for good; a retry of the run starts from the first
asset, with the checkpoints; the raw file, and staged records read from a
database, are never checkpointed; a crashed run stays "running" and nobody takes
it up; an ambiguous commit (committed, answer lost) is a failure to the code.

**The frontend.** A module holds one page or window: the React state as records,
one action per event (a click, a key, a timer, an answer), and a set of requests
under way. JavaScript runs each handler to its next `await`, so a handler is an
action up to there, and what follows the `await` is another, with whatever the
closure kept. Requests are served and answered in separate steps wherever that
lets answers overtake each other. An effect runs in the step that changes what it
depends on. A window that can be closed and opened again has a number (`inst`):
a closure knows the window it belongs to, and an answer that the code applies to
whatever window is open is applied so in the model. React Query is modelled by
what the pages configure (`lib/queryClient.ts`): one request per key, a retry,
an invalidated entry is fetched again when it is shown. An invalidation drops
only the request of a list that is shown and has rows; a first load, or a list
of another filter, goes on and counts as fresh when it arrives (`LeftAlone`). Rows, names and texts are members of
small sets; where two of them may be equal (`connName`, `datasetName`), the code
compares them, and the instances have an equal pair.

The services behind a page are in its module: `MergeReview` has the three
operations of `MergeReviewService` as transactions that read the candidate, read
the golden record and commit, with the `@Version` of the golden record alone; `OntologyVersions`
checks a tag and inserts the version in two; `OntologyEditor` creates and deletes
types, but has no update, since the editors send the schema of a listed type back
as the string they got and the request takes a map: the body is refused before
the service is called (`RefuseSave`), and only a new type stores its properties
(`SaveFields`); `GraphExplorer` has the query of `Neo4jGraphRepository`, whose two
sub-queries read the nodes and then the edges on paths within the depth
(`HoodRead`), while links are merged (`LinkMerged`); `Administration` has a user's transaction with
Keycloak outside of it, and rotations of keys that see the keys committed before
their statement. "Another reviewer", "another administrator" and
`ChangedElsewhere` are the same services called by somebody else.

*Composition.* The router mounts one page at a time, and pages share nothing but
the services. `MCWorkbench` conjoins the next-state relations of all nineteen
modules under the variable `inUse` of `Workbench`: the part in use moves, the
others stay as they are. A behaviour follows one part from its initial states, so
the state spaces add up instead of multiplying, and one configuration checks all
of them. What a page leaves in the browser for another one (the session, the
remembered files and mappings) is in the module of the page that depends on it.

## The runs

| Run | Question | Bounds, and why they are enough |
|---|---|---|
| `tracker_api` | Can polling, retrying, two workers and a crash bring a run to two attempts, past its retry limit, or out of completion? | one API run and its chained ER run: runs meet only in threads, and two workers with one run are what it takes for two attempts of it; the code's limit of three retries; one crash; two steps reported over a total of one, so that the cap on the percentage matters (the code reports eight over five) |
| `tracker_hooks` | Is a failure explained, the history kept, and does every run settle, whatever starts it? | an ER run and a Kafka run, one worker, one retry, one crash |
| `tracker_chain` | Does a completed cleaning run go on to resolution? **Violated**: not after a retry | one run, one retry |
| `ingest_steady` | Undisturbed, is every message handled or quarantined, once, in order, at last? | four messages of four kinds, batches of one or two, one replay |
| `ingest_faults` | What can stops, crashes and evictions lose or repeat? | three faults in any mix, a refused update of a replayed entry among them, two messages of three kinds, publication and quarantine failing: a fault can strike before, during and after a batch of two, and between the two steps of a replay |
| `ingest_stop` | Is nothing skipped at a shutdown? **Violated** | one stop, two messages |
| `cleaning` | What do failures at any point of a run do to the staged batch, the quarantine and the topic? | one run (runs share nothing but the stores, which keep them apart by run id), two tries and one retry, each of twelve kinds of fault once, one invalid row; production and not, synthetic data allowed, forbidden or not configured |
| `cleaning_quarantine` | Is every invalid row kept? **Violated** | two invalid rows, one refusal |
| `er` | Do records end in one entity exactly if matched, each in one golden record, proposed and resolved once, announced in order? | three staged records and a fourth that may arrive, in PostgreSQL or SQLite: enough for a chain of three matches that a union of the wrong roots tears apart; two worlds with scores on both sides of both thresholds; two tries, one retry, three faults of ten kinds in any mix; production and the override as in `cleaning` |
| `workbench` | With answers late, lost, refused or overtaken, windows closed and opened again and other users at work: is what is shown what was asked for, and what is saved, merged, deleted or revoked what was decided? | two of whatever may be confused (users, runs, files, connections of one name, reads, sources, types, versions, entities), three pairs of which two share a golden record, one link in the graph and one that is merged later, and two to five steps of the user with one fault: each property has a mutant that these bounds tell apart |
| `workbench_waits` | Does every wait end, and does a page that is looked at show in the end what the server has? | the same with one step less on most pages, and the failures `workbench` leaves to this run: a page load, a poll that fails, a refresh that is missed |
| `user_mail` | Does a failure to mail undo the creation of a user? **Violated** | one user, one request |

**Fairness.** Three specifications have any. `RunTracker!FairSpec`: a thread
that has a task goes on with it, a queued task finds a thread of the pool, and
the event loop finishes the request it serves: each is a thread the operating
system schedules. Clients and Kafka owe nothing. `IngestConsumer!FairSpec`: the
poll loop goes on, and a process that went down is started again, as the
deployment does. `WorkbenchFairSpec`: for the part in use, the server answers or
refuses what it was asked, the browser goes on with an answer that came, and a
timer that is set fires; the user owes nothing, and a request that is lost counts
as refused, since `fetch` rejects (a poll of the job panels is owed that much: its
answer is taken or it fails). All are weak but one: `FetchArrives` of the
pipeline page is strongly fair, for a poll that fails is followed by another, and
only a network that fails for ever fails them all. The pipelines state no liveness: that a run
settles is `RunSettles`, in the tracker.

**Deadlock** is checked for the tracker. The other systems may stop: a topic
that has reached its bound, a run that completed, a user who does nothing more.

## The proofs

TLAPS proves these for every value of the constants the modules' assumptions
allow (any number of runs, threads, steps, retries, crashes, kinds of fault):

| Theorem | States |
|---|---|
| `RunTrackerProofs!TypeCorrect` | `TypeOK` |
| `RunTrackerProofs!OneAttemptAtATime` | `AtMostOneAttempt`, with failing writes to SQLite as well |
| `RunTrackerProofs!FailuresExplained` | `FailureExplained`, with failing writes to SQLite as well |
| `RunTrackerProofs!HistoryGrows` | `HistoryOnlyGrows`, if no write to SQLite fails |
| `RunTrackerProofs!CompletedStays` | `CompletedIsFinal`, if no write to SQLite fails |
| `RunTrackerProofs!AttemptsAreCounted` | `AttemptsCounted`, if no write to SQLite fails |
| `ConsumerProofs!TypeCorrect` | `TypeOK` |
| `ConsumerProofs!NothingElseSkipped` | `OnlyInterruptedSkipped` |
| `ConsumerProofs!ReplaysAreCounted` | `ReplayMeansPublished`, with failing publications as well |
| `ConsumerProofs!RedeliveriesAreBounded` | `RedeliveryBounded` |
| `CleaningPipelineProofs!TypeCorrect` | `TypeOK` |
| `CleaningPipelineProofs!BatchStagedOnce` | `StagedOnce` |
| `CleaningPipelineProofs!RetrySkipsWork` | `WorkNotRepeated` |
| `CleaningPipelineProofs!NoSynthetic` | `ProductionSafe` |
| `CleaningPipelineProofs!CompletedRunsAreStaged` | `CompletedIsStaged` |
| `CleaningPipelineProofs!RejectedRowsAreKept` | `RejectedKeptUnlessRefused` |
| `CleaningPipelineProofs!OneSourceOfRows` | `OneOrigin` |
| `ResolutionProofs!TypeCorrect` | `TypeOK` |
| `ResolutionProofs!GoldenPartitioned` | `GoldenPartition` |
| `ResolutionProofs!ReviewsProposed` | `ReviewProposed` |
| `ResolutionProofs!ProposedCounted` | `ProposedOnce` |
| `ResolutionProofs!ResolvedCounted` | `ResolvedOnce` |
| `ResolutionProofs!CompletedAnnounced` | `CompletedIsAnnounced` |
| `ResolutionProofs!CompletionLast` | `CompletionIsLast` |
| `ResolutionProofs!ProductionIsSafe` | `ProductionSafe` |
| `ResolutionProofs!ProvenanceBeside` | `TracedBeside` |
| `ResolutionProofs!EntitiesAreLinked` | `SameEntity` |
| `UnionFindProofs!ClustersAreComponents` | for any list of pairs in any order, two records share a cluster exactly if a chain of pairs leads from one to the other |
| `UnionFindProofs!CompressionKeepsRoots` | path compression changes the root of no record, so the model may leave it out |
| `CleaningPipelineProofs!KeepsTheContract` | `KeepsContract`, a refinement of `StagingContract` as long as nothing is lost |
| `PagesProofs!SessionTyped` | `SessionTypeOK` |
| `PagesProofs!ToldOnce` | `OneNotice` |
| `PagesProofs!FilesAreTheirs` | `FilesOwned` |
| `PagesProofs!ReturnsToTheirPage` | `ReturnsToPage` |
| `PagesProofs!DecisionsAlwaysHold` | `DecisionsHold`, of `MergeReview` |
| `WorkbenchProofs!WorkbenchTyped` | `WorkbenchTypeOK` |
| `WorkbenchProofs!ShownIsAskedFor` | `ShownIsAsked` |
| `WorkbenchProofs!OwnersAlwaysHold` | `OwnersHold` |
| `WorkbenchProofs!PresentIsKept` | `KeptPresent` |
| `WorkbenchProofs!NothingIsTwice` | `NothingTwice` |
| `WorkbenchProofs!SavedStaysStored` | `SavedIsStored` |
| `WorkbenchProofs!StepsAreKept` | `StepsKeep` |

*One attempt at a time* is not inductive by itself: the retry endpoint reads a
shared record without the lock and `retry_run` checks nothing. `IInv` adds what
makes it safe: whoever holds a task of a run finds that run queued or running in
memory (`TasksLive`, `ThreadsCoherent`), a request about to retry finds it
failed (`LoopCoherent`), a run nobody drew an id for is unknown
(`FreshUnknown`). A retry needs "failed", a task needs "queued" or "running",
hence no retry while there is a task. The exception is a run the Kafka thread or
a chained call has just drawn and not yet recorded (`Unborn`); nobody knows its
id by then.

*A batch is staged once* rests on counting: `Counts` bounds the executions of an
asset by the checkpoints lost or not readable, separately for an asset that has a
checkpoint and one that has none, and the insertions by the executions and the answers lost.
Each step changes one of the counters, or pays with a fault.

*No synthetic rows* follows from an invariant on frames: where synthetic rows are
not allowed, every frame, checkpoint and row comes from the file.

*What a cleaning run leaves.* To the tables a step of a run is one of thirteen
(`Moves`: restarts, frames built, a row rejected, rows inserted, ...), whatever
asset it belongs to, so that each invariant is proved over these. `Landed`: a run
at or past the announcement has rows. `Sorted`: a run past its validation, by its
place or by a checkpoint a retry may start from, has every invalid row in
quarantine, and one among the rows has those before it. `OneSource`: until
`cleaned_ingestion_data` has a checkpoint nothing depends on where its frame came
from, and from then on every frame, checkpoint and row of the run comes from
there. A fault of the kind the property names is where each may end: a
checkpoint lost or not readable lets a later attempt build its frames from other
rows.

*The contract* maps the number of insertions of a run and the set of completed
runs to the abstract variables. Its invariant says how far a run that has lost
nothing is: not inserted before it is past its insertion, inserted and not
announced between the two, both from then on.

*The records of runs.* To the stores every action is one of four things: it
leaves them alone, saves a record that a mutator made of the current one, loads
the cache from SQLite, or loses the cache (`StoreSteps`). That a failure is
explained is then a matter of the mutators. The other three need `Mirrored`, that
the cache repeats SQLite and that what a poll has read from SQLite is still there
when the poll puts it into the cache; `_persist_to_db` swallows errors, hence the
assumption `~LossyDisk`. A completed record is never saved over, because by `IInv`
whoever saves finds the run queued, running or failed. `Counted` relates starts to
retries by where the attempt is: as many before it, one more during and after.

*What the consumer skips and repeats.* Whatever was fetched has been disposed of,
is in the batch at hand, or was left by a stop or a crash (`Accounted`), and no
commit is ahead of what was fetched; the auto-commit may well be ahead of the
dispatch. A message comes back because a fault sent the consumer back: `Due`
counts how often it would still be disposed of if no more faults came, from the
batch and from where the consumer goes on, and together with the times it was
disposed of that is at most one more than the faults. For replays, the copies on
the topic belong to entries the table holds, and each is counted there, or is the
one being replayed, or was published by a replay that was cut short.

*What a resolution run writes.* The invariant is one of each run, `Inv(r)`; the
steps of other runs, staging and a crash do not disturb it (`Staying`). A frame an
asset returned may be in its checkpoint, on its way out, or the input of the next
asset (`Has`), and is `Right` wherever it is: where synthetic records are not
allowed it comes from staged records, and after blocking its pairs are the candidate pairs of its records.
`Counted` allows an insertion more than the losses only while a checkpoint is held
or about to be saved, so that an asset that executes again has paid with a fault.
`Asking` looks ahead: it speaks of every set of records that led to golden records
or still may, because a retry may load others than the run before it did.
`Announcing` and `Completing` follow a batch through its events: what is not
published yet is still in `clusters`, and a completion is counted only for a
batch that has left `publish` and `finish`. That union-find yields a partition
holds for every list of matches; that its groups are the chains of matches is
`UnionFindProofs`.

*Clusters.* `find` is recursive, and a TLA+ function with that recursion is some
function that satisfies it. `Rooted` says that exactly one does, which is to say
that every find ends, and `RootPutUnder` that a root put under another root keeps
it so. Then the rows are taken one after the other: what `union` did to the first
k is a function of k, by induction over the natural numbers
(`WellFoundedInduction`), and after k rows the two ids of each have one root,
while a set that no row leaves holds an id exactly if it holds its root
(`Joins`). For a resolution run, the rows are the matches in some order, and the
set that no match leaves is the chain.

*Decisions on pairs.* `Counted` allots two acceptances to a pair, the first and
the one of a reviewer who read it as pending beside the first; whoever is past
that reading holds a claim. `CopyTrue` is the optimistic lock: a copy of the
version that is stored is a copy of what is stored, so a commit that is not
refused builds on all earlier ones. For the lists, a request that was read before a
decision is dropped by it, or is one of those the cache lets arrive (`spared`),
whose list is then `overtaken` until it is fetched again.

*The session.* Every step of the browser is one of five things to the user in it
(`Moves`): nobody new, a file kept, a session resumed or renewed, a request that
takes the user to renew, or a sign-in (`EveryStep`). Nothing is under way while
the user is at the provider or at the callback (`Outside`), so that whoever signs
in meets no renewal of somebody else. The invariant `Owned` is that there is one
user to whom store, stored session and renewals belong, and the files as well
while any of these is of an account; without the renewals it would not be
inductive, since a renewal may end after the session was cleared. `WayBack`
follows the page refused through what keeps it: the state of the login page and
the path stored for the redirect agree with it as long as they may be read.

*The frontend as a whole.* A part that is not in use stands still, so a step of
`MCWorkbench` is a step or a stutter of each part, and a behaviour of it is one of
each part's specification (`PartsBehave`). What is proved of a part by itself then
holds of it in the whole. The invariants of the parts say what the code relies on:

| Part | What its invariant says |
|---|---|
| administration | how far a request is says what the services have done for it: an account before its row, the keys a rotation asked about among those it saw |
| pipeline page | the stream that is open is the one the hook remembers, and whether the list is polled is what the last effect saw |
| notifications | they stand in ascending order, and each on the screen has its timer |
| previews | the file and the rows of the raw preview are one record |
| versions | a comparison answers the visit it was asked in, and visits of one number are of one version; lists, answers and the comparison know released versions only, and there is room for each being published |
| record, explorer | whatever can still be heard was asked for the entity of the route; only the last search can be answered |
| graph | an entry of the cache answers its own key, and the edges it shows were read no earlier than its nodes |
| connections | what is being deleted was confirmed, whatever the dialog shows by now |
| dashboard | what a query was served is no older than its card |
| log | lines are in the order of their times, and no longer than allowed |
| property form | an added property has a number no other has, and a loaded one none |
| mapper | every mapping, on the screen, remembered or on its way, is one to one; the rows of a save that are no longer to be posted are on the server; the template being added is the one the page says |
| database form | at most one request to register bears the number of the form that is open; what is selected, under way or registered was discovered at its own host |
| ontology editors | types differ by their numbers: on the server, in every list under way, and on the page; lists, answers and editors know numbers that were given |
| import | what an import has gone by is on the server unless a request of it failed, first type by type, then relationship by relationship; a window runs one import |
| upload wizard | the wizard that is open waits for exactly one live attempt or for none; what is remembered was stored first, each connection and each file once |

Lists are sorted and filtered with `Lists`: an operator that says which positions
of a list are left and in what order can be reasoned about, where `SelectSeq` and
`SortSeq` cannot. `KeptOfList` and `InTimeSorts` give what the proofs need of it:
which entries are left, how often, and in which order.

*What is saved.* `SavedIsStored` and `WorkbenchTypeOK` need invariants of their own
beside these (`SchemaStores`, `FormStores`, `ImportStores`, `OntoStores`,
`VersionsStores`, and one `...Typed` for each remaining part). Most say of every
request under way what its answer will bring. Counters are bounded
through what uses them up: a poll, a save or a window has a number below the next
one, and the versions that are being published count against the bound together
with those that are released (`VersionsRoom`). That the comparisons, replayed one
after the other, give the types of each version is proved by induction over the
versions, for any function that satisfies the recursion (`ReplayedTypes`).

*Assumptions on constants* are those the code justifies, and TLC evaluates them on
the instances: lists of names are finite, the marker of a missing identifier is no
number, the types a template or a connection names are types, and a relationship
of a template joins two types of that template, as in each of the four in
`domainTemplates.ts`; the dashboard has a range; suggestions are lists of texts
that are not empty; a property form has room for the properties stored; the
bounds are natural numbers.

Only model-checked: liveness (`RunSettles`, `Delivers`, `WaitsEnd`, `CatchesUp`),
which is beyond TLAPS as used here, and what a run shows to be violated
(`CompletionChains` among them). Every invariant and every action property of a
passing run is a theorem.

## What the models found

Disagreements between the code and a text of the repository that a run shows
(`PROJECT.json`, "findings"):

- `tracker_chain`: a cleaning run triggered over the API carries `auto_er`, its
  retry does not, so a run that completes at the second attempt is never
  followed by entity resolution.
- `ingest_stop`: stopping in the middle of a batch commits the offsets of the
  whole batch; the rest of it is skipped.
- `cleaning_quarantine`: the first invalid row that cannot be recorded ends the
  loop, and the others are lost as well.
- `user_mail`: the mail that asks a new user to set a password is "best-effort",
  but the token for it is fetched before the `try`, inside the transaction. If
  Keycloak cannot be reached just then, the row is rolled back and the account
  stays, so that every later attempt is refused as a conflict.

Seen while modelling, without a run of their own; the models have the behaviour:

- A run that was executing when the process died stays "running" for ever, and
  the retry endpoint refuses it (`Crash`). A run started by the Kafka callback
  is recorded under a pipeline name the retry does not know, so its retry counts
  and executes nothing (`RetryPipeline`). A status answer may say running and
  100 percent (`ReadStatus`, `ReadProgress`). With `LossyDisk` and a crash, a
  run may forget retries.
- A Kafka message that is JSON but not an object is only logged. Auto-commit may
  commit a message before it is processed. A redelivered batch-complete message
  triggers a second pipeline. An entry is marked replayed although its
  publication failed, and a discarded one can be replayed.
- A cleaning or resolution run completes although both databases refused its
  rows or candidates. The provenance of a golden record may be in another
  database than the record. Every resolution run resolves all staged records
  again under new ids, and proposes again the pairs that reviewers rejected.
- Nothing in the backend calls the emitters of `PipelineSseService`: while the
  stream of the pipeline page is up, the list is not polled, and a run that ended
  is not shown (`Emits`, `PollsWhileBlind`).
- A reviewer who rejects a pair while another accepts it may leave it REJECTED
  although its records were merged (`CommitReject`): candidates have no version.
  For the same reason two reviewers who both find a pair pending may both merge
  it, the second from the golden record that the first left (`ReadGolden`); after
  a split between the two, the record is in two golden records. `HeldOnce` says
  what the version of the golden record does exclude.
- The clean preview and the download may show rows of another file, or raw rows
  as clean ones (`CleanArrives`, `Fallback`); a deletion that fails puts back a
  list from before (`EndDelete`).
- A save that is answered late closes another editor of the ontology page
  (`SavedArrives`), the timer of an import another window (`TimerFires`), the
  registration of a database another form.
- Properties that come from the backend have no identifier: an edit of one is an
  edit of all of them (`UpdateField`).
- The editors cannot save a type that is listed: they send `propertiesSchema` as
  the string they read, where `UpdateRequest` takes a map, and the answer is 400
  (`RefuseSave`). The docs ask for the editing of types
  (`docs/04-feature-backlog.md:90`, `docs/tasks/sprint-3/E4-frontend.md:25`).
- The filter of entity types leaves edges without their nodes, and so does a link
  merged between the two sub-queries of a neighbourhood; the canvas throws
  (`DrawnWhole`).
- A list of pairs that was under way at a decision, as a first load or under
  another filter, may arrive after it, count as fresh and offer the decided pair
  again (`LeftAlone`, `overtaken`).
- A replay that dies, or whose update SQLite refuses, after the publication leaves
  a copy on the topic and an entry that does not know of it (`Interrupt`).
- A checkpoint that cannot be read makes a retry insert, propose and announce
  again (`Unreadable`), and may set synthetic rows beside rows of the file.
- A search that fails late hides newer results; a record page may show the record
  left before (`RecordRead`).
- Two rotations of the API key leave both new keys active (`LeftActive`).

## What is not modelled

Every component is listed in `PROJECT.json` with its status and the reason. In
short: what rules compute on a row or a name (cleaning, similarity, schema
detection, parsing of uploaded files, merging of attributes), since no order or
failure enters it; reads without state (analytics, search, health, the charts
and cards of the frontend); layout and wording; HTTP, request signing and the
validation of tokens; deployment files, of which the one replica of the Data
Engine is an assumption. In the browser, the contents of a file are a name, and
an aborted request is one whose answer nobody reads; that an abort during a
renewal ends the session is therefore not in the model. The run board, the
vault, the resolution of tenants and the rate limiter of the backend have state
worth a model of their own, and have none.

## The plan

Done, in this order: tracker, ingest, cleaning and entity resolution, in the
order in which a record meets them; then the frontend, page by page, with the
services of the backend that pages write through. What is left:

1. `RunBoard`: the listeners of `ingest.valid` and `entity.resolved` over
   `pipeline_runs`, with redelivery, dead letters and the monitoring service,
   composed with the events the pipelines publish and with `PipelineMonitor`.
2. `Vault` and `Tenancy`: a cache in front of a transactional table, twice.
