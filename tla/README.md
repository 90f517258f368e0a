# TLA+ verification of the Vin-PipeLine document service

The repository is a service that finds documents in S3, parses them, splits
them into sections, embeds and indexes the sections, and answers searches. The
code is small; what is hard in it is that many ingests run at once on one event
loop and share a queue, a semaphore, an embedding batcher and three stores that
have no common transaction, while pods crash, files are overwritten and scans
repeat. This directory models that part in TLA+, from the start of a container
to the sections of a document, checks it with TLC on small instances and proves
with TLAPS, for every instance, the safety properties of all of them: the
dispatcher, the batch embedder, the ingest run, the captioner, the search, the
file store, the way from a file to its sections and the choice of stores at
startup. Liveness is checked by TLC only.

Contents: 1 inventory, 2 modules and how they correspond to the code, 3 runs,
4 fairness, 5 proofs, 6 what the runs found, 7 what is not modelled, 8 plan.

## 1. Inventory of the system

| Part | State | Operations | Correct when |
|---|---|---|---|
| Job dispatcher, `api/main.py` `_JobDispatcher` | bounded `asyncio.Queue`, FIFO semaphore, `_queued_doc_ids`, `_running_doc_ids`, consumer task, `_run_job` tasks | `enqueue_jobs`, `_consumer_loop`, `_run_job`, `start`, `stop` | a document has one live job; the tracking sets are exact; at most `SCAN_MAX_WORKERS` ingests run and no permit is lost; accepted jobs start in order |
| Scanners, `api/main.py` `_scanner_loop`, `POST /scan` | `_scan_lock` | try-acquire, scan in a thread, release, enqueue | one scan at a time; the lock is always given back |
| Batch embedder, `utils/batch_embedder.py` | `_pending`, `_flush_task`, `_lock`, LRU `_cache`, futures | `embed_one`, `_delayed_flush`, `_flush`, `flush_and_close` | every future is resolved; nobody is cancelled by another task; batches and cache keep their sizes; close drains |
| Ingest run, `run_ingest_job.py` and `index_sections.py` | none of its own; writes the three stores | claim, read, parse, save, split, caption, embed, index, error path | a row that says `indexed` vouches for the index and the markdown; crashes and failures are repaired |
| S3 scanner, `adapters/s3_adapter.py` | none; reads listing and rows | list, look up, decide | new, changed, failed and abandoned documents are found |
| Metadata store, SQL / file / memory | one row per document, a job log | `try_claim_ingest`, `update_status`, `upsert`, `update_processed`, `record_job` | a claim is exclusive; a row moves as the run says |
| Vector store, Qdrant / memory | points by document and section index | `delete_document`, `upsert_sections`, `search` | the sections of one version of a document, ranked |
| Document storage, `utils/storage.py` | one markdown artifact per document | read, save | the artifact is that of the indexed version |
| Section splitter, `heading_splitter.py` | none, pure | `split` | every line of text ends up in one section under its heading path |
| Search, `search_sections.py` | query cache shared by threads | `search` | ranked, thresholded and cut; the cache keeps its size |
| AI provider, captioner, embedder | caption semaphore, HTTP clients | embed, caption, retries | bounded concurrency, errors reach the caller |
| Startup, `entrypoint.sh`, `container.py`, `utils/stores.py` | which stores a pod uses, `degraded_reasons` | migrate, build, fall back to memory or files | whichever replica answers, it answers from the shared stores; a pod that fell back comes back to them |
| Health and probes, `GET /health`, `k8s/base/api-deployment.yaml` | whether the Service sends requests | readiness, liveness | as above |
| Parsers, `pipeline/parsers`, OCR in `ai_provider.py` | none; the attempt of an OCR request | convert, OCR of sparse pages with retries | nothing readable is left out of a document that is indexed |
| Status query, local file source, migrations, legacy wrappers | none | | |

How they interact. Scanners call the S3 scanner in a thread and hand its jobs
to the dispatcher, on the event loop. A `_run_job` task calls `execute()` of the
ingest run, which claims the row, reads the object, and at the end writes the
stores one after the other. All runs of a process share one batch embedder. At
shutdown `lifespan` cancels the scanner, waits for `flush_and_close`, stops the
dispatcher, and the loop cancels whatever task is left. The Kubernetes manifest
runs two replicas against one database, one bucket and one Qdrant collection.

A pod chooses its stores once, when it starts. The Service sends requests to pods
whose `/health` is not degraded, and the liveness probe, which asks the same
question, replaces the others; the background scanner runs in all of them.

What is hard: a handler runs alone only from one `await` to the next; state read
before an `await` is used after it; a cancellation may hit any suspended task;
each write to a store may fail or be the last before a crash; the listing, the
row and the bytes are read at three different times; the claim is two SQL
statements; an outage at startup leaves a pod with stores of its own. `PROJECT.json` lists
these hazards at their lines, each with the properties that would catch it going
wrong.

## 2. Modules

Two conventions hold in all of them. An action is a stretch of one task between
two awaits (or one call to a store), so the interleaving of actions is that of
the code. An operator marked `\* Slip:` is a plausible mistake in the operator
that follows it (a dropped guard, a missing reset, an off-by-one); nothing in
the specification uses it. It is kept to show that the properties would notice:
each property fails for one of the slips put in place of the correct operator.

### JobService, JobDispatcher

`JobService` is the promise: one line of accepted jobs, `MaxWorkers` servers,
first come first served, never two jobs of a document. `JobDispatcher` is the
machinery of `api/main.py`.

| TLA+ | Code |
|---|---|
| `queue`, `permits` and `waiters`, `queuedDocs`, `runningDocs`, `consumer`, `scanLock` | `_queue`, `_semaphore` and its FIFO of waiters, `_queued_doc_ids`, `_running_doc_ids`, `_consumer_task`, `_scan_lock` |
| `ready` | `_run_job` tasks created and not begun, in the order of the loop's ready queue |
| `task[j]` | where the `IngestJob` object `j` is; a document has several (`Copies`), one per scan that finds it |
| `StartScan`, `EndScan`, `FailScan` | `_scan_and_enqueue_once` and `POST /scan`: acquire, thread, `finally` release, `enqueue_jobs` |
| `ConsumerTake`, `ConsumerStop` | one turn of `_consumer_loop`; its end |
| `BeginJob`, `AcquirePermit`, `FinishJob` | `_run_job` up to the semaphore, past it, its end with or without an exception |
| `BeginShutdown`, `StopDispatcher`, `ProcessExit`, `Restart` | the steps of `lifespan`; a crash is `ProcessExit` at any time |

`EndScan` enqueues the whole list in one step because `enqueue_jobs` has no
`await`. A job of a tracked document changes nothing there, so the list is given
by its untracked jobs. `JobService`
accepts at most `QueueCapacity` jobs at a time, which is what the queue takes
from one list.

### BatchEmbedder

One identity per concurrent `embed_one` call, per `_delayed_flush` task and for
`flush_and_close`. The lock is owned across an `await` only inside `_flush`, so
`flusher` is its owner; `lockQueue` is its FIFO. `cancelled` holds the timers
whose `CancelledError` was requested and has not arrived: a timer can be
cancelled by a flush, expire first, or be awaited by `flush_and_close`.

| TLA+ | Code |
|---|---|
| `CacheHit`, `CacheMiss`, `CallLocks` | `embed_one`: the cache lookup, the lock, the append and its trigger |
| `TimerFires`, `TimerLocks` | `_delayed_flush` after its sleep, after the lock |
| `StartFlush`, then `ProviderReturns`, `ProviderFails` | `_flush` before and after `to_thread(provider.embed)` |
| `TimerCancelled`, `CancelCall`, `CancelTimer` | delivery of a `CancelledError`: from a flush or a close, from the teardown of the loop |
| `Close`, `CloserJoins`, `CloserLocks` | `flush_and_close`: cancel and join the timer, lock, last flush |
| `BeginTeardown`, `Terminated` | the loop after `lifespan` |

`Timers` bounds how many timer tasks exist at once. A cancellation that has not
arrived keeps its timer busy; if all were busy the model would wait before it
creates another one, where the code would go on; `EveryCallEnds` shows that this
wait ends.

### DocumentView, IngestLifecycle

`DocumentView` is what readers are promised: a document shows nothing, or the
sections of one version whole, and versions do not go back. `IngestLifecycle`
is one document (documents share none of this state), the pods that may ingest
it, its row, its markdown and its points.

| TLA+ | Code |
|---|---|
| `Upload`, `Age` | the object is overwritten; `STALE_INDEXING_SECONDS` pass |
| `ScanList`, `ScanDecide`, `ScanEnqueue` | `S3Scanner.scan` (listing; rows and decision), `enqueue_jobs` |
| `ClaimSelect`, `ClaimInsert`, `ClaimUpdate` | `try_claim_ingest`: the SELECT, then the INSERT or the UPDATE |
| `Read`, `Save` | `binary_reader.read`; parse and save the markdown |
| `DeletePoints`, `MarkIndexing`, `UpsertRow`, `UpsertPoints`, `MarkIndexed`, `UpdateProcessed`, `LogIndexed` | the calls of `index_sections`, in order |
| `Fail`, `LogFailed`, `MarkFailed`, `FailAgain` | an exception at any step; the error path, which may raise too |
| `Crash` | the pod dies, or a `CancelledError` skips the error path |

`slowRuns` is chosen at the start and says whether a row may count as abandoned
while its run goes on. Stages that touch nothing shared (split, caption, embed)
are one step with the next that does. A pod has at most one run of the document: that is
`OneLiveJobPerDoc` of `JobDispatcher`, proved there. `ExclusiveIngest`, at most one
run past the claim, is not promised by the code: it is the condition under which
the properties of the ingest run are stated.

### SearchSections

Searches run in threads of the pool. What they share is `_query_cache`.

| TLA+ | Code |
|---|---|
| `Start` | `POST /search` reaches `search()` |
| `CacheHit`, `CacheMiss` | `_embed_query` under the lock; a hit is `move_to_end` |
| `Embed` | the provider answers; the assignment and the eviction, under the lock again |
| `Answer` | the store is asked for `FetchK` sections; threshold, cut to `top_k` |
| `Fail` | the provider or the store raises |
| `IndexChanges` | ingest runs delete and upsert points |

A query stands for its vector. The store is read in one step, ranks exactly and may
order equal scores in any way (the in-memory store does; the index of Qdrant is
approximate and may miss a candidate, which no property here speaks of); a dict that
an ingest changes while `InMemoryVectorStore` iterates over it makes the search raise,
which is `Fail`. `Mapped` is the loop over the candidates. `SearchRecency` adds a
history variable, `since`: which queries were used since which others were.

### MetadataStore, FileMetadataStore

`MetadataStore` is what a run expects, and what the in-memory store does: an
operation changes one row, or appends to the log, in one step.
`FileMetadataStore` is the store that keeps both in two JSON files, under the
runs of one process.

| TLA+ | Code |
|---|---|
| `Load`, `LoadOnly`, `LoadFails` | `_read`: a file that can be read, one that cannot |
| `Truncate`, `Write` | `_write`: `open("w")`, then the text |
| `Start`, `Goto`, `Return`, `Raise`, `End` | the course of `execute()` and `index_sections` over the calls of the store, and its `except` |
| `ClaimRefused`, `StageFails` | a row that is `indexing`; an exception of a stage, of `delete_document` or of `upsert_sections` |
| `Crash` | the process dies between two file operations |

An `outcome` per document and the list `finished` record how runs ended, and are
read by no action. Two overlapping writes leave the later text, or its beginning
followed by the end of the longer one (`Garbage`): which one depends on lengths
that the model does not have, so both are possible. The age of a row that stays
`indexing` is left open: a claim of it may be refused or may take it over.

### SectionSplitter

One step per line. A line is a kind: a heading of some level, plain or blank.
`strip()` is modelled by what it does to a list of lines, so `first` and `last`
are the extent of `current_lines` without blank edges.

| TLA+ | Code |
|---|---|
| `HeadingLine`, `OtherLine`, `Finish` | the loop of `_split_markdown`, its end |
| `Flushed`, `PathWith` | `flush()`; `current_path[: level - 1] + [heading]` |

`_fallback_sections` is not modelled: `NonEmptyTextHasSections` of `DocumentText`
says that a text with a line that is not blank has a section, so it is never
called. The code and `docs/TESTS.md:122` disagree here: see section 6.

### DocumentText

The stages of `execute()` that turn bytes into sections, on top of
`SectionSplitter`, which it extends: its variables and its actions are used as
they are. A file is chosen at the start, with what MarkItDown and fitz find in it.

| TLA+ | Code |
|---|---|
| `ConvertFile`, `ConvertFails` | `parsers.run` for a text format, `_parse_mixed` for a PDF with enough text; a converter that raises |
| `StartOcr` | `_parse_image`, or `_parse_mixed` with fewer than 50 characters of a PDF |
| `SkipPage`, `OcrAnswers`, `OcrEnds` | the loop of `_ocr_sparse_pdf_pages` over pages, and `_join` |
| `OcrRaises` | `OpenAIProvider.ocr`: repeated up to `OCR_MAX_RETRIES` times, then raised through the loop |
| `PageRaises` | fitz cannot load a page or take its text, which nothing catches |
| `Deliver` | the check for an empty text |
| `SplitLine`, `SplitEnds` | `split`, and the check for an empty list |

All formats that neither are images nor need OCR are alike here. A line carries
the page that OCR read it from, which only the properties use. A page that
cannot be rendered, a page with text that MarkItDown did not find, and a PDF
that fitz cannot open (one without pages) contribute nothing, as in the code.

### Deployment

The replicas, from container start to serving, with the stores they end up with.

| TLA+ | Code |
|---|---|
| `Migrate` | `docker/entrypoint.sh`: `alembic upgrade head` until the database answers |
| `ListCollections`, `CreateCollection`, `CreatePayloadIndex` | the three requests of `QdrantStore.__init__`; `FallBack` is the `except` of `build_vector_store` |
| `BuildMetadata` | `build_metadata_store`: SQL, or the local file when its connection raises |
| `Degraded`, `ReadinessProbe`, `LivenessProbe` | `GET /health` answers 503 with a degraded reason; both probes of the manifest ask it |
| `Claim`, `DeleteSections`, `UpsertSections`, `MarkIndexed`, `StepFails`, `MarkFailed` | an ingest run by the background scanner, kept to the writes that tell stores apart |
| `Crash`, `Stop` | the container ends; its memory and its local file (in the container's own file system) go with it |
| `Outage`, `Recover` | Qdrant or the database does not answer, and answers again |

`split` is a history variable: the documents at which a pod with exactly one
shared store has been at work and that no run on both shared stores has indexed
since. A container is replaced when its liveness probe fails; the counts of
failures and the delays of the probes are left out, so a probe may come at any
time. `Deployment` assumes what the other modules are about: a claim is one step
(`claim_race` shows that it is not), a row left `indexing` is due once its run
has ended, objects do not change. It also assumes the configuration in which the
stores matter: `USE_S3` on, as `docs/OPERATIONS.md` describes (the configmap in
the repository has it off), Qdrant and a database configured, and an AI key. The
code is the reference where the documents disagree with it. `docs/RISKS.md` and
`STATUS.md` still list the 503 of a degraded `/health` as missing, and `api/main.py`
returns it. `docs/RISKS.md:70` and `STATUS.md:35` say that the data of Qdrant is
lost when its pod crashes; `k8s/base/qdrant-statefulset.yaml:40` claims a volume
that outlives the pod, so `Recover` finds the points as `Outage` left them.

### SectionCaptioner

| TLA+ | Code |
|---|---|
| `CaptionSections` | `caption_sections` creates its tasks with `gather` |
| `BeginTask`, `AcquirePermit` | `_caption_one` up to the semaphore and past it |
| `CaptionReturns`, `CaptionFails` | the provider's answer; `gather` ends with the last answer or the first exception |
| `Forget` | the run and its last task are gone |

Ready tasks begin in any order here. Cancellation by the teardown of the loop,
which ends every task alike, is left out.

## 3. Runs

| Run | Instance | What it shows |
|---|---|---|
| `dispatcher` | 3 documents with 2 job objects, 2 workers, queue of 2, one `POST /scan` and the loop, fair | `OneLiveJobPerDoc`, `TrackingExact`, `WorkerBound`, `ScanLockExact`, `TypeOK`, `FirstComeFirstServed` (refines `JobService`), `AcceptedJobStarts` |
| `embedder` | 2 texts with 2 calls each, batch of 2, cache of 1, 2 timers, fair | `NoFutureLost`, `PendingWillBeFlushed`, `NoForeignCancel`, `SizesKept`, `CloseDrains`, `EveryCallEnds`, `TypeOK` |
| `ingest` | 2 pods, 2 versions, 2 faults, runs of any length, fair; up to the first overlap of two runs | `IndexedMeansWhole`, `ReadersSeeOneVersion` (refines `DocumentView`), `EventuallyCurrent`, `TypeOK` |
| `claim_race` | 2 pods, 1 version, 1 fault, runs end within the stale limit | violates `ClaimIsAtomic` |
| `same_second` | 1 pod, 2 versions with one `LastModified`, no fault | violates `ChangedFileIsReindexed` |
| `search` | 2 threads, 3 queries, cache of 2, up to 4 sections, `top_k` 1 or 2, threshold 50 | `CacheBound`, `EvictionExact`, `LeastRecentlyUsed`, `ResultsAreBest`, `TypeOK` |
| `file_store` | 2 workers, 2 documents with 2 runs each, 1 crash; operations on one file do not overlap | `KeptWhileReadable`, `AtomicStore`, `TypeOK` |
| `file_store_race` | 2 workers, 2 documents with 1 run each | violates `StatusAndHistoryKept` |
| `document_text` | every text of up to 6 lines with 3 heading levels, images, PDFs of up to 3 pages of every kind, 2 attempts | `LinesKept`, `HeadingsStartSections`, `NestedPathIsOutline`, `ScannedPagesKept`, `NonEmptyTextHasSections`, `StagesTypeOK` |
| `captioner` | 2 runs of 3 sections, 2 permits, fair | `PermitsExact`, `CaptionedWhole`, `CaptioningEnds`, `TypeOK` |
| `deployment` | 2 pods, 1 document, 3 faults, fair | `ServiceAnswersAlike`, `OnlySplitRunsSeparate`, `EventuallyServed`, `TypeOK` |
| `fallback` | 2 pods, 1 document, no fault but the outages of the start | violates `IndexedIsSearchable` |

Why the bounds are enough.

- Dispatcher: with two workers and a queue of two, three documents fill the
  queue, leave a task waiting at the semaphore and drop the rest of a list; two
  job objects per document let a later scan offer a document that is still live.
  The proofs lift the bounds.
- Embedder: four calls and batches of two give a flush in progress, a full batch
  behind it and a timer, with equal texts in one batch; a cache of one evicts at
  every insert; two timers are the cancelled one and the one that replaces it,
  which `flush_and_close` joins.
- Ingest: two versions allow an overwrite between the listing and the read, or
  during the run; two faults allow a crash or a failure and a failure of the error
  path; versions 1 and 2 have different numbers of sections so that a leftover
  section would show. Two pods add what one does not have: a run that owns
  nothing and still sets the row to failed, a scan that decides on rows another
  pod has changed, and a retry in the other pod. The state constraint
  `ExclusiveIngest` of its cfg ends a behaviour where two runs are past the claim:
  from there on the properties do not hold. Two things lead there: the claim race,
  and a run that outlasts the stale limit and is taken over (`slowRuns`), which an
  atomic claim would not prevent. What lies before is explored whole. With one pod
  the constraint is never false, and the same properties hold with three versions
  and three faults.
- Claim race: `slowRuns` is false, so that no takeover can be mistaken for the race.
  The fault makes a first run fail; both pods then read the row that says "failed",
  and both update it.
- Search: two threads can miss one query together while a third query evicts;
  four sections hold a tie, a score at the threshold and scores below it for both
  queries, and one more than the three candidates asked for with `top_k` 1.
- File store: two documents, so that one worker can disturb the other's row; a
  second run starts from what the first, or the crash, has left. The state
  constraint `Serial` of its cfg ends a behaviour where two workers are inside an
  operation on the same file: from there on nothing holds, and `file_store_race`
  exhibits it. Runs still interleave between their operations.
- Document text: six lines hold a heading of each of three levels with text and blank
  lines between and around, or a return from the deepest to the first level. Three
  pages give a page between two others, of any kind, and two attempts a request
  that is repeated, answered after a failure, or given up.
- Captioner: three sections on two permits leave a waiter when the first call
  fails, and the second run stands in line behind it.
- Deployment: two pods race for the collection, or one serves from the shared
  stores while the other has fallen back; three faults allow an outage, an
  exception and the crash that the split document needs. Documents share
  nothing but the choice of stores; the proofs lift the bounds. `fallback` needs
  no fault after the start: an outage there makes a pod fall back, and the liveness
  probe replaces it.

Deadlock is checked except in the runs that really stop: those of the file
store, whose number of runs is bounded, that of documents, which reaches the end
of the text, and those of the deployment, which rest when every document is
indexed, all pods serve and no fault is left. `Terminated` is the one intended
end of the embedder.

`TypeOK` of the dispatcher also says that the queue never exceeds its capacity,
`StagesTypeOK` that a path is no longer than there are levels, `TypeOK` of the
deployment that a container has its stores, its contents and a run only in the
state of its life that goes with them (`Coherent`).

## 4. Fairness

Weak fairness only, and only for what the event loop owes: a ready task runs
(`ConsumerTake`, `BeginJob`, `AcquirePermit`, `CallLocks`, `TimerLocks`,
`TimerCancelled`, the closer, `BeginTask`), a semaphore wakes its first waiter
(`AcquirePermit`), a sleep ends (`TimerFires`, `Age`), a call to a provider or a
store ends or raises (`ProviderReturns \/ ProviderFails`, `CaptionReturns \/
CaptionFails`, `FinishJob`, `Run`), because each is an HTTP request or a query
with a timeout.
`IngestLifecycle` adds that the scanner loop goes on. Nothing is assumed of
uploads, callers, shutdowns, faults or crashes.

`Deployment` takes weak fairness of container starts, both probes (the kubelet
repeats them), the scanner with its runs, and `Recover`: an outage ends. Crashes,
outages and exceptions are bounded by `MaxFaults`, so `EventuallyServed` is about
what happens after the last one.

`EventuallyCurrent` is stated for behaviours in which a run ends before its row
counts as abandoned (`slowRuns` false), as the defaults have it (a job's deadline
of 900 s against 3600 s). With slow runs a document could look abandoned each
time and be ingested again for ever. The safety properties of the same run do not
make this assumption.

## 5. Proofs

`JobDispatcher_proofs`, for any finite
`Docs` and `Copies`, any positive `MaxWorkers` and `QueueCapacity`, any
`Handlers` and `Loop` (the four named assumptions of `JobDispatcher`).

The five invariants are proved together. Their conjunction is not inductive: a
step moves the head of a line, and nothing in it says where that job's `task`
is. `IInv` adds `LinesMatchTasks`: every job in `queue`, `ready` or `waiters` is
at the place of that line, and stands there once. The argument in the main cases:

- `EndScan` (`EndScanIInv`): by `TrackingExact` an untracked document has no
  live job, so the batch adds the only one. `TakenJobs` says what part of the
  list is taken and that it fits.
- `BeginJob`, `FinishJob`: a document leaves a tracking set when its job leaves
  the place; the set stays exact only because, by `OneLiveJobPerDoc`, no other
  job of the document is there.
- the semaphore: `WorkerBound` counts a finite set, one more or one less.

`Refinement` proves `Spec => FirstComeFirstServed`: with
`pending <- waiters \o ready \o queue` a job that changes place without getting
a permit does not move in the line (`MoveAlong`), a job that gets one is its
head (`ConcatHeadTail`; a newcomer gets one only if no task waits), and a scan
adds at its end a batch whose documents are not being served.

`SearchSections_proofs`, for any threads, queries and cache size. `CacheInv` is
`CacheBound` with the types it needs; it is inductive because `move_to_end`
permutes the entries (`MoveToEndPermutes`) and because an insertion either
leaves the keys alone or evicts the first of a full cache, which is not the key
just put last (`PutEvictsOldest`). `Eviction` follows step by step from the same
lemmas.

A miss of a query that another thread has cached meanwhile is not a use, and with
that `LeastRecentlyUsed` holds: `CacheInOrder` says that the cache lists its
queries by their last use, `MoveToEndPermutes` and `PutKeepsOrder` that both
operations on it keep the order of what they do not move. `BestResults` rests on
two facts: in a ranking the sections that reach the threshold come first
(`RelevantFirst`), so the loop over the candidates keeps a prefix of them
(`MappedIsPrefix`), and the cut of that prefix is the same whether `3 * top_k` or
all sections were asked for (`ResultsAre`). It needs finitely many sections and
scores that are integers, on any scale.

`DocumentText_proofs`, for files of any number of lines and pages, any number of
attempts and of heading levels. The theorems about splitting (`NothingLost`,
`Filing`, `Outlines`) are stated of the splitter alone and of the splitter in the
course of a file. `LinesKept` speaks of the end of the text and
`HeadingsStartSections` of sections that have been flushed. `IInv` adds what they
mean half way (`CollectedInv`): every line read is blank, in a section, or among the
collected lines, which come after every section and are filed under the current
path. `HeadingLineIInv`, `OtherLineIInv` and `FinishIInv` are its three steps;
`FlushKeeps` is what two of them share. `Outlines` follows the path instead:
`PathInv` says that in a text that skips no level the path is that of the last
heading read, as long as its level. `FileInv` carries the stages: `StageInv` which
of them have left what behind, `PagesInv` that the lines so far are those of the
pages read so far; from it `PagesKept` (no page that was read is lost) and
`SectionsFound` (a text that is not blank has a section, so the fallback of
`split` is never reached, headings or not).

`FileMetadataStore_proofs`, for any workers, documents, runs and crashes, as long
as operations on one file do not overlap (`Serial`; `OneWorker` says that one
worker never breaks it). `OperationsInv` says that a document has one run, and that
the file a worker is about to rewrite is still the one it has read, or empty because
of its own `Truncate`. `StoreInv` says the rest of what is true between writes, of
`Settled`, which is what a file holds or held before the write in progress: a run
past "indexed" has left that status, one that has ended has left its outcome, and
the log is complete. `SettledHolds` and `WriteChanges` compute `Settled` before and
after. `Refinement` then maps each `Write` to a step of `MetadataStore` and every
other step, `Truncate` included, to a stutter; only the step in which the process
dies is excepted.

`Deployment_proofs`, for any replicas, documents and number of faults.
`OneAnswer` needs `ReadyInv`: a container that is ready has both shared stores,
since `/health` is asked only when both have been built and neither changes
until the container stops. `OnlySplitRunsSeparate` is not inductive: a run may be
about to write "indexed", or to delete, and nothing in it says what that run
knows. `RunInv` adds that two runs on the shared rows have different documents,
that a row stays "indexing" while such a run is at work, that a split run has put
its document in `split`, and that a run about to mark its document has written
its sections or works on a split one. `RunsKept` settles every action that leaves
the shared stores alone; `ClaimKeeps`, `DeleteKeeps`, `UpsertKeeps` and `EndKeeps`
are the four kinds of steps that do not.

`BatchEmbedder_proofs`, for any texts, callers, timers and sizes. Each property
alone leaves out what the next step needs, so `OpenInv` ties together who holds the
lock, who stands in its line and where every future is: a batch exists only under
the lock and with an empty queue (`FuturesInv`); nobody who owns the lock is
cancelled, and each owner is where it says (`OwnerInv`); the line holds each of its
tasks once (`LineInv`); the known timer is cancelled only by `flush_and_close`,
which waits for it (`TimerInv`). `NoForeignCancel` rests on `OwnerInv`: a flush
forgets `_flush_task` before it gives up the loop, and does not cancel itself.
`AppendKeeps`, `TimerFlushKeeps` and `CloseFlushKeeps` are what the three kinds of
flushing tasks do once they have the lock, whether they waited for it or not. The
teardown drops futures on purpose, so `OpenInv` speaks of the running process.
`Typing` and `Sizes` hold through the teardown. They rest on `StoreInv`, which adds
to them that `_pending` stays below `max_batch_size`, so that the call which fills
it takes no more than a batch, and on `BatchCached`: however long the batch, putting
its texts into the cache one after the other keeps the size and repeats no key.

`SectionCaptioner_proofs`, for any finite sets of runs and sections and any limit.
`IInv` adds to the three invariants that the line holds only waiting tasks, each
once, and that a run that is not at work has no task. `MoveCounts` says what one
task that changes place does to the counts that `PermitsExact` compares, and
`SameCounts` that `gather` and its end do nothing to them. `PermitsExact` is about
counts: a permit may be free while a task stands in line, between a release and the
next turn of the loop; that the task gets it is `CaptioningEnds`, which TLC checks.

`IngestLifecycle_proofs`, for any pods, versions, sections and faults. `Typing` holds
of every behaviour. `Vouching` and `Refinement` hold of the behaviours in which one
run at a time is past the claim, which is what `ExclusiveIngest` says and what the
claim race and the takeover of a slow run break; `SinglePod` says that one pod needs
no such condition. They need `ReadInv` (a run has read nothing older than its job
says) and `OwnInv`, which follows a run through its writes: after `delete` the index
is empty until the run writes its own version whole, the markdown is the version it
has read, and the row cannot say "indexed" before the points are there. Pods that do
not own the document may still set its row to "failed", in the middle of a run:
`RowFails` shows that this costs nothing that the run relies on. `PublishView` is the
step of the refinement.

Some operators are loops: the texts of a batch put into the cache (`CacheAfter`),
the candidates filtered (`Mapped`). They are recursive functions on the naturals.
`CacheAfterUnfolds` and the last steps of `MappedIsPrefix` show that such a function
exists, and `SetInduction` is induction as a fact about a set of numbers, derived
from the well-foundedness of `<`; the library states both with an operator as a
parameter.

Only model-checked: liveness (`AcceptedJobStarts`, `EveryCallEnds`,
`EventuallyCurrent`, `CaptioningEnds`, `EventuallyServed`), which the prover does not
reach. Every other property of a passing run is proved.

## 6. What the runs found

- `ClaimIsAtomic`: the claim port says "atomically"; two pods that read the
  same claimable row both update it, the second one when the row says "indexing"
  for the first, and both ingest.
- `ChangedFileIsReindexed`: a file overwritten in the second of its recorded
  `LastModified` is never found changed. The run takes two versions with one
  `LastModified`; for distinct seconds `EventuallyCurrent` holds.
- `StatusAndHistoryKept`: with two workers the file store loses updates or leaves
  a file that no reader can parse. As long as operations on one file do not overlap,
  and so with one worker, `AtomicStore` holds.
- `IndexedIsSearchable`: a pod that has fallen back is never ready, and it ingests
  all the same. If its index is its own it marks shared rows indexed whose sections
  are in its memory; when its liveness probe replaces it they are gone, the rows still
  say indexed, and no scan finds them due. That is the trace of `fallback`, and an
  outage at a start is enough, or two first starts that race for the collection. If
  its rows are its own it finds every document new, deletes the shared sections, and
  may be replaced before it writes them again: with the further constraint
  `\A p \in Pods : vector[p] # "memory"` and one fault TLC finds that trace, in which
  a healthy replica has indexed the document before. `OnlySplitRunsSeparate` says that
  nothing else separates rows and index: no outage, crash or exception of a run on the
  shared stores.

Notes on behaviour that the properties tolerate. The dispatcher's consumer
moves every item at once to a task that waits at the semaphore, so the capacity of
the queue does not bound the jobs a process holds; one job per document does. Two
searches that miss one query together do not both refresh its place in the cache
(`LeastRecentlyUsed` says which uses count), and two embedding calls that miss one
text together both send it.

Two statements of the documents on the splitter do not hold, and no run is about
them. `docs/ARCHITECTURE.md:157` says that `heading_path` lists the headings from the
root to the section (`PathIsOutline`): `current_path[: level - 1]` takes the position
in the path for the level, so `## A` followed by `## B` files B under the path [A, B].
Where no level is skipped `NestedPathIsOutline` holds, and is proved.
`docs/TESTS.md:122` lists a test that a text without headings goes to the fallback and
becomes sections called `Untitled`. `_split_markdown` makes one section with
`heading_path` [] of such a text, of any size; `_fallback_sections`
(`heading_splitter.py:63`) is dead code and the settings `SECTION_FALLBACK_*` have no
effect (`NonEmptyTextHasSections`, `SectionsFound`). Only the `title` of a section
without a path reads `Untitled`.

Of scanned documents the properties promise the pages that a vision model reads: a
page that cannot be rendered, or one whose text MarkItDown does not find, is missing
without a word, and without an AI key each page reads as the sentence of the mock
provider.

## 7. Not modelled

The conversions themselves (MarkItDown, fitz, the lean extractors of
`_text.py`) and the temporary files they use, logging and counters, what a migration does to a
schema, the local file source and the legacy wrappers (no state). Of the S3
scanner, paging and filters; of the SQL store, columns that no property reads; of
the configuration, its validation, whose bounds are the assumptions on constants;
of the document storage, path and size checks. `PROJECT.json` gives the reason
for each part.

## 8. Plan

In order.

1. An `IngestLifecycle` with an atomic claim, to separate what a slow run breaks
   from what the claim race breaks.
2. The order of shutdown that composes `JobDispatcher` and `BatchEmbedder` (jobs
   go on embedding after the close).
3. The retries of embedding requests against the deadlines of jobs.
