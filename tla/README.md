# TLA+ models of doktok-ng

doktok-ng ingests documents into a PostgreSQL database and a folder tree, enriches
them in the background and answers questions about them. The TLA+ modules here
model the part of it that is concurrent and has to survive crashes: intake,
extraction, the feature ledger with its workers, the recovery code of each, the
entity graph that stages, a maintenance pass and users change at once, the embedding
map and its queue, conversations and their generation slots, the export and restore
slots with the import script, and the rate limiter.

## The system

| Component | State | Operations | Interacts with |
|---|---|---|---|
| Intake pipeline `core/.../ingestion/pipeline.py` | `ingestion_jobs`, folders `ingest`, `in.process/<job>`, `docs.active/<doc>`, `docs.failed`, `duplicates`, `quarantine` | `process_file` (add, move, hash, dedup, policy, staged hand-off or inline activation), `_fail`, `_handle_duplicate`, `_quarantine` | documents table, ledger, extract stage (through the staged file) |
| Job and document recovery (same file) | as above | `recover_stale_jobs`, `fail_interrupted_processing`, crash strikes, quarantine | runs on the intake thread between two scans |
| Extract stage `ingestion/extract_stage.py` | document status, staged file, active folder | `process`, `_resolve_source`, activation, clean-up of a loser | driven by the reconciler; races the sweep, deletes, its own second run |
| Feature ledger `PostgresFeatureRepository` (ADR-0009) | `document_features` rows: status, attempts, backoff, lease, version | `seed_for_document`, `ensure_for_active`, `claim_next`, `mark_done`, `mark_failed`, `reset`, `requeue_running`, `record_done` | reconciler, intake, API |
| Reconciler `features/reconciler.py` | per pass: pool, budget, drained flag | `reconcile`, `_drain_concurrent`, `_process`, `recover_running` | ledger, processors |
| Feature processors `features/processors.py` | chunks, entities, graph, records, thumbnails | delete or replace a document's output | each other, through the outputs they read |
| Worker `apps/worker/.../worker.py` | threads ingest, reconcile, projection; quiesce flag | start-up recovery, loops, sweep schedule | all of the above |
| Documents API `routers/documents.py`, `routers/ingestion.py` | none of its own | retry, reprocess, delete, reingest, rotate, upload, job retry | ledger, documents, folders, knowledge graph |
| Documents table | status, content hash, storage path | add, activate, fail, delete; unique active content per tenant | everything |
| Knowledge graph `knowledge_graph/`, `PostgresKnowledgeGraphRepository` | nodes, mentions, aliases, edges with provenance | upsert, replace, prune, purge, fold, merge, split | processors, API, post-reconcile pass |
| Projections `visualizations/service.py`, ADR-0016 | request queue, cached projections with their points | request, claim, recompute (two reads, a fit, two stores), complete, read of a map | projection thread of each worker, API; chunks that the index stage and deletes change |
| Chat `routers/chat.py`, `chat/` | generation slots; threads with messages, title, summary and watermark | acquire, load, store the question, title, compact, stream, store the answer, release; rename, truncate, delete | request threads of the API, the model, clients that go away |
| Export `backup/export.py` | lock file, status files, archives | check, sweep, claim, build in the background, release, download | requests and background tasks of one backend, which may die |
| Restore `backup/restore.py`, `deploy/restore-import.sh` | preview lock, staged trees, `restore.json`, request file, `maintenance.flag` | preview, sweep, validate, apply; the script's five steps and its rollback | backend, root helper, worker, database, files root |
| Rate limiter `ratelimit.py` | map of token buckets, count of calls | `allow`, sweep | request threads, login |
| Others | settings, users, tokens, tags, categories, audit log, UI, MCP, scripts | | see `PROJECT.json`, components |

What is hard in it: a worker process runs intake and dozens of reconciler threads
at once; nothing spans a file move and a database statement, so a crash may fall
between any two; leases, retries, start-up re-queues and user requests all rewrite
the same rows; a sweep judges documents while a stage works on them. What makes it
correct: concurrency limits are kept; work is done and not done twice at once; a
result never overwrites a newer state; no row, job or document is stuck for ever;
an active document has its original; no accepted file is lost; every file ends
with a visible outcome; crash loops are bounded; references in the graph hold, its
pointers are flat, its counts match the evidence, and it comes to rest; a slot or lock is
neither leaked nor taken twice; what passes for fresh is current; a model is shown the
whole conversation; a half restored system is parked. `PROJECT.json` lists each hazard at
its line with the properties that cover it.

## Modules

| Module | Models |
|---|---|
| `DocumentLifecycle` | the abstract specification: statuses of the documents of a tenant |
| `FeatureLedger` | the ledger, the reconciler's passes and threads, worker starts and crashes, the requests that re-queue rows |
| `Intake` | jobs, files, the staged hand-off, the inline pipeline, the extract stage, the recovery sweep, crashes |
| `KnowledgeGraph` | nodes, mentions, aliases, edges and evidence; the `entity_graph` and `relations` stages, the alias pass, users' requests, purge and prune |
| `Projections` | the queue of recompute requests, the recompute, the read of a map, the chunks beneath |
| `Chat` | slots, turns, threads with their summaries and titles |
| `Export` | the export's lock, its statuses, the background build, crashes and ages |
| `Restore` | previews, apply, the request file, the import script, the maintenance flag |
| `TokenBucket` | the abstract specification: one bucket per key |
| `RateLimit` | the bounded, swept map of buckets and callers whose clocks are read before the lock |
| `MC...`, one for each module with runs | the constants of the instances TLC checks |
| `...Proofs` of `FeatureLedger`, `Intake`, `KnowledgeGraph`, `Projections`, `Chat`, `Export`, `Restore`, `RateLimit` | theorems about the module with their proofs |

**FeatureLedger.** `row` is the table; `output` says for each row whether the
processor's output is missing, current or stale against its prerequisites; `thread`
is the program counter of `worker()` in `_drain_concurrent`, `worker` that of the
reconcile loop with the shared `budget` and `drained`. `Claim` is the whole of
`claim_next` in one step, because the advisory lock makes it one: the crash bound,
the due query with lane, budget and dependency gates, the mark. `ProcessReturns`
and `ProcessRaises` are a processor's run, `MarkDone` and `MarkFailed` the updates by
row id, `DatabaseError` an error in one of these statements. `BeginPass` is
`ensure_for_active` and the start of a pool, `RequeueRunning` is `recover_running`.
Timestamps are two flags of a row, `due` and `stale`. `AddProcessing` and
`SeedForDocument` are the staged hand-off as the ledger sees it, `AddActive` and
`RecordDone` the inline one.

**Intake.** A file is its content and the folder it lies in. `intake` is the
position in `process_file` with one step per statement that changes a table or a
folder, `runner` that in `ExtractStage.process`, `sweep` that in `recover_stale`. A job makes at most
one document, named by the job. `terminal` holds the failed, duplicate and
quarantined rows, which are documents of their own. Of the ledger only the extract
row is kept; its claims follow `FeatureLedger` without lanes. Intake and sweep
exclude each other because they share a thread. `AddJob` lets a file start while
another one of an earlier scan is still at work, which allows more than the scan does.
`request` is the position of a reingest in the API process: it reads the bytes, removes
rows and folder, and writes the bytes into the ingest folder as a file of their own.
`DeleteTerminal` and `RetryJob` are a delete and a job retry beside it. A document that
a user deletes is `"deleted"`, one the program removes is `"gone"`.

**KnowledgeGraph.** `label`, `canon`, `alias`, `mention`, `edge` and `prov` are the tables
of the graph, `text` is `document_entities`. A database transaction is one step, so
`DeleteNodes` is a delete with all its cascades, and anomalies of read committed between
two transactions are below the model's grain (a hazard in `PROJECT.json` names one). What
happens between two transactions is kept: `graph` and `relate` hold what a stage has
read and not yet written, `fold` the folds computed and not yet applied, `decompose` the ids
of a request of four transactions, `purge` the position of a delete. The `entity_graph`
lane is 1 in the composition, so one graph run is at work at a time; runs are not tied
to a worker, so the alias pass of one worker meets runs of another. Simplified: one
entity type and one predicate; one decomposition at a time; the reads and the write of
`confirm_family` in one step; a failed stage is retried without a bound on attempts (the
bound is `FeatureLedger`'s). `ner` stands for the stages `entities` and `ner`, each of which
deletes its rows of `document_entities`, and the mentions with them, in one transaction and
inserts the new ones in another (`DeleteRows`, `AddRows`). `Reprocess` is the retry of a
stage, which may be that one alone, or of a group; the resets of a group are one step, since
with steps of a worker in between they are single retries.
A split of a node and the confirmation of a pair use node ids; suggestions, dismissals
and names that only decorate a node are left out.

**Projections.** `chunks` holds for each tenant the chunks of its documents; those a
document gets in one transaction are one element with one `created_at`. `queue` and
`running` are the rows of `projection_requests`, `runner` the position in
`run_pending` with what it has read. The embeddings and the fingerprint are read in two
statements, the two dimensions are stored in two transactions, and `reader` reads the
header and the points in two, so chunks and projections change in between. A failure at
any step leads to `complete`, which may itself be lost; a worker may die anywhere.
Transactions that add chunks overlap: `adding` holds those that have begun and not ended, and
`created_at` is their start, which need not be the order of their commits. `of`, `behind` and
`raced` of a projection are auxiliary.

**Chat.** `free` is the count of `chat_semaphore`, `turn` the position of a request in
`chat` or `chat_stream` with the history, summary and watermark it has read. A message is
its number, a summary the set of messages its text was made from. `Fold` is the model
call with the write that follows it; it may fail and moves the watermark all the same.
`Abandon` is a client that goes away while the generator is blocked in a read, `Collect`
the end of that read, `Unstarted` a client that goes away before the response iterates
the generator, `Fail` everything that ends in an `except` or `finally` block. `intact` is
auxiliary. The answer itself, the agent's tools and recalled memories are left out.

**Export.** A request is `look`, `unlink`, `scan`, twice, then `create`: the two calls of
`is_build_in_progress` and the exclusive creation of the lock. `build` holds the status
file and the background task of each export id. A file turns `stale` when its age passes
the time to live. `Crash` ends requests and tasks and keeps files. A status that cannot be
written is left as it was, also the `failed` of the except branch, and a handler that fails
after its claim leaves a lock without a task (`Claim`). The one-minute interval
between exports is left out, since it only delays them; archives are their status.

**Restore.** `preview` and `applier` are requests of the backend, `helper` is the position
in `restore-import.sh`, which the path unit starts for a request file. `db` and `files`
say of which archive the database and the files root are, `safety` what the snapshot holds;
after an import that has gone through, what it leaves counts as `"before"`. `Bare` are the
archives without a `files/` tree (an export of an installation that has no files root),
which `MixedIsParked` takes to go with any files: the script leaves the old ones in place.
Each step of the script may fail, which is `FailRestore`: the status is written if it can
be, the database is rolled back if that works, the files are not, the flag stays. A second
request, accepted before the flag went up, imports over what the first has left. `Repair`
is the human the script's log asks for. The middleware's check of the flag is the guard of
`Receive` and `Apply`. `claim_preview` is one step: the handler is a coroutine and calls it
without giving up the event loop.

**RateLimit.** A bucket has its tokens and its age, a caller the time since it read the
clock, so that a later caller may enter with an earlier time. One request is worth
`Window` units, which makes levels integers. `Allow` is the whole of `allow` under its
lock, with the sweep that is due. `MaxLag` bounds the time between clock and lock.

**Abstract specifications.** `DocumentLifecycle` is what the tables promise whoever
writes: `processing` is left for good, a failed or removed document never comes back, an
active one is never failed, a content has one active document. `FeatureLedger!Implements`
and `Intake!Implements` are `Lifecycle!Spec` under the mapping each states. `TokenBucket`
is a bucket per key that is never dropped; `RateLimit!Implements` maps a bucket that is not
in the map to a full one. It allows for the callers' lag: a bucket that would be full but
for `MaxLag` may count as full.

## Runs

| Run | Asks | Bounds, and why they are enough |
|---|---|---|
| `LedgerSafety` | types, lanes, budgets, no double run, done means built, finished stays finished, life cycle | 1 worker, 2 threads, 2 documents, 2 stages, a crash, a database error, a retry, 2 attempts: two rows compete for one lane while a third actor re-queues |
| `LedgerLiveness` | no row is stuck | 3 chained stages, a crash, a database error, an upgrade, a group reprocess |
| `LedgerFleet` | budget and progress with two workers | 2 workers, inline mode, 2 stages on one budget, slow runs |
| `IntakeSafety` | types and attempts of an extraction, original present, tripwire, outcome recorded, no upload vanishes, life cycle | 2 files of one content, 2 jobs, 2 intake threads, 1 extract thread, both modes, 2 attempts, a crash of worker or API, one of reingest, job retry or delete of a terminal row (`MAX_STALE_RECOVERIES` is 1 here): the copy a reingest writes back is taken in while another thread holds the same content |
| `IntakeLiveness` | documents and jobs are resolved | 1 file, 2 jobs, a crash, an error at any statement, a manual retry |
| `GraphSafety` | references, flat pointers, counts, resolved documents, kept evidence | 2 documents that share a name, 3 names of which one extends another and one is an ordinal variant, 1 possible relation, 2 requests, a crash: a request meets the graph left by another in the middle of a stage, a fold or a purge |
| `GraphLiveness` | the graph comes to rest | the same with texts that are equal or share no name and 1 request, which may be a decomposition, and a crash of worker or API |
| `ProjectionRuns` | one recompute at a time, fresh means current, maps are whole, requests are served | 1 tenant, 2 workers, 2 documents of which a map shows one, 2 transactions that add chunks and may overlap, 1 reader, a crash, a lost completion: a second request is claimed while the first one's worker is dead, and a document is re-indexed between the two reads |
| `ChatTurns` | slots, complete context, kept titles, slots come back | 2 slots, 2 turns of 1 thread, 5 messages with 2 kept recent, a truncation, an unstarted stream: both turns read summary and watermark before either writes |
| `ExportBuilds` | one build, exports recover | 2 requests, 2 export ids, 2 deaths of the backend or claims without a task, builds that may outlast the time to live: both requests find the lock of a dead build, or of a slow one that still runs |
| `RestoreApply` | mixed is parked | 2 previews, 3 staged trees of which one has no files, compose, 2 deaths of the backend: a preview writes `restore.json` under an import, and a second apply imports over what a failed one has left |
| `RateLimits` | bounded map, one bucket per key | 3 keys in a map of 2, 2 requests per window of 5, a sweep every second call, 2 callers whose clocks differ by up to 1: a full bucket is worth 10, one that may be refused less than 7, one that may be overloaded or rounded at least 8, so that a limiter that refuses too much fails as one that admits too much does |

The state spaces are finite and explored completely. Crashes, errors, retries and
requests are bounded by counters in their guards (`Max...` constants); everything
else is unbounded. Symmetry is used only in safety runs and only over sets whose
members the configuration treats alike. `CHECK_DEADLOCK FALSE` is set in the `Intake`
runs, where the worker idles once the pool of job identifiers is used up, in the
`KnowledgeGraph` runs, where the graph rests once users stop asking, and in
`ProjectionRuns` and `ChatTurns`, where workers and clients rest when the bounds on
chunks and messages are spent.

Limits of what these runs show.

* `ActiveHasOriginal` is checked with runs that end within their lease and without
  database errors. It is not claimed for slow runs, nor when the delete that undoes a failed
  inline indexing fails itself (`pipeline.py:628`).
* `TripwireBound` counts the jobs of a content that had stored their hash. One whose worker dies
  before that is re-queued, and its tombstone gets no hash, so it is no strike for the next job:
  nothing bounds how often this happens.
* `TypeOK` of `Intake` lets an extraction be run beyond its attempts once for each death of a
  process, since a start re-queues what was running and keeps the attempts.
* `NothingVanishes` excepts what a user has deleted, the content of a failed document (the
  sweep may fail one whose stage has just moved the file, and the stage then drops the only
  copy: `pipeline.py:828`, `extract_stage.py:143`), a job tombstoned before its file was
  hashed, and a reingest whose API process died holding the bytes
  (`documents.py:686`).
* `NoStuckRow` needs lanes of at least two and one release at a time. `NoDoubleRun` is about
  one worker: a second one re-queues the running rows of the first when it starts.
* `DoneMeansResolved` excepts a document whose own entity rows were replaced since its last
  graph run was claimed (`stale`), until that stage is run again. A retry or reprocess-all of
  `ner` or `entities` alone does it (`documents.py:540-586`): the mentions go with the rows, and
  `entity_graph` stays done. So does the reprocess of a group while the graph stage runs, since
  `reset` skips a running row. A mention may stay on a node merged into another until the
  document is processed again, when the merge falls between a run's read of the alias map
  and its write.
* `FreshMeansCurrent` excepts a projection whose chunks changed between its two reads
  (`raced`): it carries the newer fingerprint and passes for fresh. It also excepts one that was
  overtaken (`behind`): a transaction was open at the read, had begun before that of a chunk that
  was read, and has committed since; with the deletion of an older chunk it restores count and
  latest time. That takes three documents and transactions, more than `ProjectionRuns` has; the
  proof covers it. With one worker, no reader, no crash or loss, `MaxClock` 3 and three documents
  TLC finds it when the exception is left out (1.7 million states with it, and no error).
* `RequestsServed` excepts a request whose worker died or whose completion failed
  (`Stranded`): no code takes it up again, and the unique row of its tenant drops every
  later request.
* `ContextComplete` excepts threads with a failed fold or a deleted folded message
  (`intact`); `SlotsComeBack` holds because fewer streams than slots are dropped unstarted.
* `OneBuild` excepts runs in which a stale lock was removed (`swept`): two requests that
  both saw it may remove each other's new one, and a release removes whatever lock is there.
  A build that outlasts the time to live is swept under its feet; what happens after that the
  property does not say.
* `MixedIsParked` is checked with trees that are applied within their time to live (six
  hours, `restore.py:61`); with `LateApply` a preview may sweep the tree under an import,
  which would then end with a new database, the old files, and the flag lifted. It is about
  requests and the status. The worker is not stopped by the script outside of compose, and
  there a stop that fails is ignored (line 104): it may change the database beside the
  import. Files of the old state stay under an imported archive that has none of its own.

## Where code and comments part

Each of these was met while modelling. No run of the project claims the comment's side. Where
it is a definition of a module, the last column says how to see the counterexample: the
definition as INVARIANT or PROPERTY of a copy of the named configuration in place of its own,
with the constants that are changed. The other rows are exceptions stated in a property above.

| Place | Comment | Code | To see it |
|---|---|---|---|
| `features/reconciler.py:5` | "Crashes are recovered via lease reclamation" | in a lane of one (`entity_graph`, `thumbnail`) a row left running by a failed status update is counted against its own lane (`repositories.py:2632`) and waits for a restart of the worker | `NoStuckRow`, `LedgerLiveness` with `LaneLimit <- Narrow` |
| `ingestion/pipeline.py:299-302` | "move the stranded file back to the ingest folder" | the job learns the path of the moved file only after hashing, so a recovery in between moves nothing and removes the workdir with the only copy (line 359) | `NothingLost`, `IntakeSafety` |
| `ingestion/pipeline.py:315-316` | "keyed by content hash, so a file that keeps killing the worker accumulates strikes" | a worker that dies before the hash is stored leaves a tombstone without one; `_crash_strikes` computes the hash (line 381) and does not store it | |
| `ingestion/pipeline.py:819` | "a pending/running extract row means the work is legitimately in flight -> never reap" | the staged file is looked at first (line 828), and a running extract stage has just moved it; the stage finds the document failed and removes its folder, the original with it | `ReapedOnlyIfGone`, `IntakeSafety` |
| `ingestion/extract_stage.py:58-59` | "a successful rerun writes it straight back to the same place" | a second run removes the folder of the document that the first one activated (line 143) | `ActiveHasOriginal`, `IntakeSafety` with `SlowRuns = TRUE`, `Extractors = {x1, x2}` |
| `ports.py:1075` | "Remove a deleted document's KG footprint" | a relations run that is underway stores the evidence after the purge; `replace_edges_for_document` (`repositories.py:1461`) checks the nodes and not the document | `NoGhostEvidence`, `GraphSafety` |
| `repositories.py:2596` | "Crash-bound the reclaim loop" | `requeue_running` keeps the attempts, and the claim of a pending row does not look at them | `AttemptsBounded`, `LedgerSafety` with `MaxCrashes = 2` |
| `routers/documents.py:607` | "resets ... the reconciler then runs them in dependency order automatically" | `reset` skips a graph stage that is running, which finishes on the old entities | `Rebuilt`, `LedgerLiveness` with `SPECIFICATION Spec` |
| `routers/chat.py:367-368` | the slot is "released in the generator's finally" | that block does not run when the client goes before the generator starts (`Unstarted`) | |
| `chat/summary.py:5-7` | "a summarization failure leaves the prior summary in place" | it does, and the watermark moves all the same (lines 75-77): the turns not folded are shown neither in the summary nor verbatim | |
| `restore-import.sh:19` | "restore from the safety snapshot (files + pg)" | `fail_restore` (lines 65-79) restores the database alone | |
| `routers/settings.py:1471` | "refuse if ... a restore is currently applying" | a preview writes `validating` and `idle` into `restore.json` meanwhile (lines 1383, 1400) | |


## Fairness

`FeatureLedger!Fairness`: every worker's loop and every thread's steps are weakly
fair (the process is supervised by a restart policy, the loops catch every
exception, and external calls have timeouts, so a run ends), and backoffs and leases
elapse. `Intake!Fairness`: restart, sweep, scan and the steps of the threads, and
time. Nothing is assumed of users, crashes and errors, nor that a
processor ever succeeds: a row that fails until its attempts are spent counts as
settled. Maintenance mode is taken to be off. `KnowledgeGraph!Fairness`: the stages of each
document, the alias pass (it follows every reconcile pass), and a purge or a
decomposition that has begun, unless the API dies.

`Projections!FairSpec`: each worker's projection loop, which goes on after an exception
and after a restart. `Chat!FairSpec`: the steps of each request; a read from the model
ends with the provider's timeout, so an abandoned generator is collected. Nothing is
assumed of clients. `Export!FairSpec`: requests, tasks and time; that somebody keeps
asking for exports is an assumption of `ExportRecovers`, which says that they are not
refused for ever. `Restore` and `RateLimit` have safety properties alone: a failed
restore waits for a human by design.

## Proofs

All theorems hold for every value of the constants that meets the named assumptions of
the module: any numbers of workers, threads, documents, keys, requests and bounds.

`FeatureLedgerProofs`:

* `TypeCorrect`: `Spec => []TypeOK`. `TypeOK` is inductive by itself.
* `LimitsHold`: `Spec => [](LaneCap /\ GroupCap)`; `GroupsHold` is its second half. With `TypeOK` the two are
  inductive. The argument is in three lemmas: a step that makes no row running keeps
  the limits (`NoNewRunKeepsCaps`, fewer elements have a smaller cardinality); only a
  claim makes a row running (`OnlyClaimRuns`, one step per action); and a claim adds
  one row to a lane and a budget that it has just found open
  (`ClaimKeepsCaps`, `OneMoreRun`). This is the argument for the advisory lock: it
  needs count and mark to be one step.
* `RefinesLifecycle`: `Spec => Implements`. Each step that changes the status of a document
  changes it once and along an edge of `DocumentLifecycle`.
* `RunsAreSingle` (`NoDoubleRun`), `FinishedStays` (`FinishedStaysFinished`) and `DoneIsBuilt`
  (`DoneMeansBuilt`) under `OneWorker`: no run outlives the stale window, and one process,
  without the inline mode, claims rows. The hypothesis is needed, since the lease of a row is no
  lock between processes: each of the three has a counterexample in a copy of `LedgerSafety` with
  `Workers = {w1, w2}`, `Owner <- TwoOwners` and no symmetry, which is not a run of the project. That no run outlives the window is what the proof uses against the rows that a
  reconcile pass puts back in the queue while their thread is at work. `HeldInv` says that a row a thread has runs within its lease or was deleted, and that
  threads have different rows; `FreshInv` that until a document is extracted no stage of it
  but the extraction runs or is done; `BuiltInv` that an active document has its extraction
  stored, and a run that returned its output. `DoneIsBuilt` also assumes `Rooted`: `Extract`
  is registered and every other feature has a prerequisite, which is true of the processors
  in `catalog.py`.

`IntakeProofs`:

* `TypesHold`: `Types` is inductive by itself; it ties what a thread, the sweep and a
  reingest hold to their positions. The bound on attempts needs `RunsInTime`: a row that
  waits, or that a dead process has left running, has had fewer attempts than the bound. The claim
  of a failed or expired row looks at its attempts; a pending one is new, was reset, or was
  re-queued after a death, which has raised the bound by one (`UsedGrows`).
* `OutcomesAreRecorded`: `Spec => []OutcomeRecorded`. A job closes with the outcome its
  thread has recorded, so the invariant `IInv` says what each position has made
  (`IntakeInv`), that no two threads have one job, that ledger rows, runs and reingests are of
  documents that have been made (`MadeInv`), and that the sweep writes a quarantine tombstone
  after the quarantined row (`SweepInv`). `JobWriters`, `DocWriters` and `PositionWriters` name
  the actions that write each variable; the steps have one case for each.
* `RefinesLifecycle`: `Spec => Implements`. A document is made in one of two actions,
  `CreateDocument` and the inline `Publish`, which is guarded by `IInv`: a position before them
  has no document. Each other writer of `doc` is one step of the life cycle.
* `TripwireHolds`: `Spec => []TripwireBound`. The sweep counts the tombstones of a content
  when it takes up a job and writes one more several steps later. `TripInv` says that the room
  it found is still there: only the sweep writes tombstones, one job at a time, and no thread
  has a job meanwhile. It is the argument for one thread of intake and recovery. Only jobs that
  had stored their hash are strikes, and no others are bounded.

* `OriginalsAreKept`: `Spec => []ActiveHasOriginal` under `InTime`, in both modes: extractions end
  within their lease, and where uploads are inline the database raises no error. Both are needed:
  with `SlowRuns` two runs of one document take turns with its original, and when indexing or a
  later step of an inline upload raises, the clean-up takes the original back before it removes
  the active row. Staged ingestion may meet any number of errors. `StageInv` says which positions
  a mode has. `RunsInv` says that runs are of different documents, that the row of a run is marked
  running or went with its document, and that no run at work has an active document.
  `OriginalInv` says that what a run has written is still in the document's folder when it
  activates the document, and `InlineInv` that the file of an inline upload is where its thread
  has put it: `OriginalStays` and `InlineStill` go through everyone who moves a file
  (`FileWriters`) and leave a request that removes the document, or the run or thread itself.
* `NothingIsLost`: `Spec => []NothingVanishes` under `InTime` and `MaxStale > 0`
  (`MAX_STALE_RECOVERIES` is 2, `ingestion/pipeline.py:86`; with 0 the sweep would quarantine the
  first time and count no tombstone). That a copy exists is not inductive: it may be the one that
  a duplicate or the sweep is about to remove. `SecureInv` says that an accepted content has a copy
  that no step underway removes (`Secure`), or that its loss is excused (`Excused`). Excuses are
  permanent (`ExcuseKept`); therefore a failure of a document that a run is dropping as a
  duplicate excuses nothing, since the run removes that row (`Dropping`). A duplicate that is
  dropped leaves the original of the active document (`ActiveHasOriginal`), a reingest that
  removes its original holds the bytes (`ReadInv`, `HeldStays`), and the sweep empties a working
  folder only after the file has left it, or when the job is given up before its hash was stored
  (`SweepOpen`, `SweepFile`). `PlaceInv` and `HashInv` tie folders to jobs and the stored path to
  the stored hash, `RunDocs` what a run may find of its document.
* `NoneIsStranded`: `Spec => []WayOn`, the safety half of `ProcessingResolves`, with slow runs and
  errors too: the extract row of a document in processing is never `done`, so it is offered, is
  claimed, or is missing or spent, and then `fail_interrupted_processing` fails the document.
  `ReturnInv` adds that a run that returns, and an inline upload that has published, leave no
  document in processing; a processed document never goes back (`ProcessedStays`). That the
  step is then taken stays with TLC.

`KnowledgeGraphProofs` (names are sequences of tokens, an id belongs to each name; the sets
that evidence is made of are finite, so that it can be counted):

* `ChainsFlat`: `Spec => []CanonFlat`. The inductive invariant adds to `CanonFlat` that `canon`
  maps nodes to nodes or to nothing. Three lemmas say that the primed assignments of a
  delete, a merge and a fold keep it (`DeleteKeepsFlat`, `MergeKeepsFlat`,
  `FoldKeepsFlat`); a merge does because it takes the root of its target and re-points the
  children of the node it folds. It fails with `Root_Self`, the mutant.
* `FoldTargetsStay`: the target of a fold is not folded by the same pass. A longer name that
  extends the target would extend the folded one as well (`ExtendsTransitive`), and the
  target is the longest. The model applies the folds of a pass together because of it.
* `TypesHold` (`Spec => []TypeOK`, with the foreign keys) and `EvidenceIsCounted`
  (`Spec => []EvidenceCounted`) from `IInv`: the tables (`TablesOK`), the positions of the
  processors (`RestOK`) and `CanonFlat`. There is a lemma for each piece a transaction is
  made of: a delete with its cascades, an exchange of evidence, a rename of nodes, an added edge
  (`DeleteTables`, `ReplaceTables`, `RepointTables`, `AddTables`). `RepointTables` asks that the rename
  takes nodes to nodes that stay: a merge takes the root, a fold relies on `FoldTargetsStay`.
* `DoneIsResolved`: `Spec => []DoneMeansResolved`. `ResolvedInv` adds what a run has read
  to what it has written. A prune takes only nodes without mentions and a rename drops no link
  (`PruneKeepsLinks`, `RepointKeepsLinks`), so no step but the document's own run, the
  replacement of its rows or its deletion can unlink it. The second is excepted (`stale`) from the
  claim of a graph run on; a run that has read the old rows fails on their foreign keys.

* `EvidenceStays`: `Spec => EvidenceKept`, the action property. `Carried` says that a row of
  evidence goes on, at its edge or at the one that edge is repointed to; `GivenUp` names the
  three ways to lose it. There is a lemma for each piece of a transaction, as for the tables:
  a merge or a fold repoints both ends to nodes that stay (`RepointEvidence`), a document's own
  rewrite exchanges its evidence only (`ReplaceEvidence`), a prune cascades to edges of
  the nodes it removes (`PruneEvidence`).

`ProjectionsProofs`:

* `TypesHold`, which includes the bound on points, and `OneRecomputeHolds`, inductive with
  the types: a request is appended only if its tenant is neither queued nor running, and a
  claim moves a tenant from one to the other.
* `FreshIsCurrent`: `Spec => []FreshMeansCurrent`. A fingerprint is a count and a latest time
  and says nothing of the chunks by itself. The invariant `Fresh` says that each chunk which is
  there, or is on its way, is of the snapshot, was behind it, or is later than all of it
  (`Snapshot`). If nothing that was behind has come and the latest times agree nothing was added,
  and if the counts agree too nothing was removed.
* `MapsAreWhole`: `Spec => []MapIsWhole`. A projection's points carry its id: a reader that
  holds an id which was replaced finds nothing.

`ChatProofs`:

* `TypesHold`, which includes that a user's title is not overwritten, and
  `SlotsAreAccounted`, from one invariant, `Basic`: types, slots, and the lengths of
  histories, which index the messages stored so far.
* `ContextIsComplete`: `Spec => []ContextComplete`. A thread whose summary was made from
  all messages below its watermark keeps that (`ThreadInv`), and each turn's history is a
  prefix of its thread with a summary and watermark that fit it (`TurnInv`), as long as
  the thread is `intact`. Of two turns that fold, the later write may move the watermark
  back; the summary written with it belongs to it, which is why both are one update.

`ExportProofs`: `TypesHold`; `OneBuildHolds`, from `LockNamesTask`: until a lock was swept,
every live task is the one the lock names. Creation needs the absence of the lock, and
only the task it names removes it.

`RestoreProofs`:

* `TypesHold`.
* `MixedStaysParked`: `~LateApply => (Spec => []MixedIsParked)`. `TreesInv` says that the
  tree of a request, of an apply and of the helper is valid and not stale, so that no sweep
  takes it; `HostInv` ties `db`, `files`, `flag` and the status to the position in the script.
  The flag is set before the database is touched and lifted at the one place where database
  and files are of one archive, or the archive has no files.

`RateLimitProofs`: `TypesHold`, with the bound on the map, and `RefinesBuckets`:
`Spec => Implements`, the refinement for every instance. The step lemmas compare the level of a
bucket before and after for each of tick, clock and call; the sweep is sound since a bucket
as old as a window is full within the lag.

Every invariant and every action property of the runs is stated by a theorem above. Only
model-checked are the liveness properties under fairness (`NoStuckRow`, `ProcessingResolves`,
`JobsClose`, `Settles`, `RequestsServed`, `SlotsComeBack`, `ExportRecovers`), which are out of the
prover's reach together with `ENABLED` and induction over data (none of the modules has a
recursive definition), and the states beyond the hypotheses of the theorems that have one.

## Not modelled, and why

* The rotation of a document, which is the reingest with other bytes; the enhanced-OCR
  folder; the dismissal of a job, which removes a tombstone and with it the strike it
  counts as. A delete during processing leaves the staged file, since the row has no
  storage path yet (`documents.py:1061`); the model has the file in `work` and no property
  that asks for its removal. A job retry seldom finds a file: `_fail` and `_quarantine` move
  it and do not store where (`routers/ingestion.py:146`), which is a hazard no property
  states.
* The quiesce switch, which stops the start of passes and only removes behaviours; two worker
  releases or two OCR bundles over one table; chunks and entities of a document that the
  inline mode has made active and not yet indexed.
* The recount of edges at the grain of single statements under read committed; merge
  suggestions and their adjudication, which call a model and end in the merge that is
  modelled; long-term memories, tags, categories, settings, users: rows of one request each.
* Agent, retrieval, search, extraction and OCR, chunking, enrichment: functions of their
  input without state that outlives them. Access control is out of scope.
* The MCP server, the web and mobile clients, logging and metrics; the scripts that drive
  external backup tools, whose state lies outside of the program.

Most of the lines of the repository are of these kinds: read-only queries, schemas, port
definitions, routers that validate and format, clients of models, and wiring. The map in
`PROJECT.json` names the lines that change shared state, and leaves those out.
