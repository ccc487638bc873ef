# A formal model of nada-ai

nada-ai indexes a NADA catalog (studies, citations, variables) into OpenSearch
or Qdrant, keeps the index in sync with the catalog, searches it and serves it
to language models. The TLA+ modules in this directory model the parts of it
that several actors share: what runs in the background, what survives a crash,
and what NADA is told. TLC checks small instances of them, and TLAPS proves the
most important properties for every value of the constants.

Paths below are relative to `src/nada_ai/` in the repository.

## 1. The system

One process: an asyncio event loop with a FastAPI application, a thread pool
for blocking work (indexing, requests to NADA), and no database of its own.
What lasts is outside (the search backend, NADA's tables) or in small JSON
files (checkpoints, API keys, facets, the scheduler's control file).

| Part | State it keeps | Operations | Modelled |
|---|---|---|---|
| Background jobs: `app/jobs.py`, `app/_ingest.py` | `_jobs`, `_key_to_id`, one task per job, the ingest semaphore, cancel tokens | submit, cancel, run, shutdown, eviction | `JobRegistry` |
| Catalog ingest: `ingest/service.py`, `pipeline.py`, `progress.py`, the writers | the checkpoint file; in memory the tracker and the writer's buffers | index a whole catalog type (fresh, resumed, recreating), prune, sync variables, report | `CatalogIngest` |
| Search-index scheduler: `app/reconcile_scheduler.py`, `ingest/search_index_sync.py` | `SchedulerState` (pause, unsent acks, breaker), `_wake`, the control file, the lock | the loop, pages, items, acks, pause, resume, wake, stop, watchdog | `ReconcileScheduler` |
| Content of studies: `app/webhooks.py`, `app/catalog_admin.py`, `index_ids_op`, `delete_by_idnos_op`, `process_item` | a study's chunks, document and variables in the index; NADA's `search_index_state` | upsert, delete, index, options, report | `Content` |
| Diff run: `reconcile_diff_once` | paging position, what it has seen | walk NADA's "missing" and "stale" lists | `Content` |
| Walks and import: `ingest/citations_index.py`, `ingest/variables_index.py`, `import_index_state` | the cursor and the page in hand | index all citations or variables, sync some, tell NADA what an index holds | `Walks` |
| Filters of a study: `filters/sync.py` | rows and facets in chunks, the study document | put, merge, clear, batch, backfill | `Filters` |
| Facets registry: `app/facets_admin.py`, `filters/facets_service.py`, `search/dynamic_filters.py` | one JSON file, `facets_config_lock` | set, add, remove, automatic registration | `Facets` |
| Request gate: `nada/gate.py` | the lock, last request, `not_before`, the slow-down, the last trouble | one request at a time, gaps, retries | `Gate` |
| Generation cache: `search/backend/opensearch/generation.py` | the cached generation, its age | read, refresh, forget | `Generation` |
| API keys: `app/keys_store.py`, `app/auth.py` | one JSON file, `api_keys_lock` | create, revoke, check | `KeyStore` |
| Study search: `app/studies_search.py`, `search/backend/opensearch/studies_*.py` | none | modes, sorts, tabs, fusion, pages | `StudySearch` |
| Chunk search on Qdrant: `search/backend/qdrant/search_backend.py` | none | keyword, vector, hybrid, collapsing, totals, pages | `QdrantSearch` |
| MCP analytics: `mcp_server/tools.py`, `analytics.py`, `nada/api.py` | none | twelve tools, and how they fetch their rows | `Timeseries`, `Analytics` |
| Audit log, rate limiter; the other searches; models, metrics, logging, demo page | none that matters here | | no (see 7) |

**How they interact.** An admin route or a webhook submits a job under a
single-flight key; the job waits for the embedding model and the semaphore and
then runs a blocking ingest on a thread. The ingest pulls documents through a
generator, writes them in bulk requests, and marks studies in a checkpoint file
as the backend answers. The scheduler is a coroutine beside the jobs: it lists
NADA's change queue, indexes row by row, and acks what it did. Scheduler and
jobs share the index and the semaphore, not the single-flight keys. Two
processes share the control file, the lock, the checkpoints and the index.

**What is hard.** Cancelling a task does not stop its thread. A checkpoint is
written between bulk requests that mix studies. Failures of one study come from
four places (loading, chunks, the study document, variables) and must add up to
one report. A row can change at any await between its listing and its ack. An
ack's answer can be lost. Operators pause, resume and wake the loop wherever it
is. The process dies anywhere. A study is spread over three indexes and several
places in each, written one request at a time by jobs under different keys. A
page is answered from several requests between which the index changes. Files
are read, changed and replaced in separate threads. `PROJECT.json` lists each of
these under `hazards`, at its line.

## 2. The modules

| Module | What it is |
|---|---|
| `SingleFlight` | abstract: at most one job in flight per key, ids never reused |
| `JobRegistry` | the registry, the coroutines, the threads, the semaphore; refines `SingleFlight` |
| `JobRegistryProofs` | its theorems |
| `CatalogIngest` | one catalog type's runs, both backends, the checkpoint, the reports |
| `CatalogIngestProofs` | its theorems |
| `IndexSync` | abstract: an index entry only moves forward, a row is settled only when the entry is current |
| `ReconcileScheduler` | the loop, NADA's queue, operators, crashes, other writers; refines `IndexSync` |
| `ReconcileSchedulerProofs` | its theorems |
| `Content` | everything that writes or removes one study on OpenSearch, NADA's belief, the diff run |
| `ContentProofs` | its theorems |
| `Walks` | the walks over citations and variables, their jobs, the scheduler's items, the import |
| `Filters` | the filters of one study on either backend |
| `Facets` | the registry of facet keys |
| `KeyStore` | the keys file and the guarded routes |
| `Gate` | every request to NADA |
| `Generation` | the cached index generation and who changes the index |
| `StudySearch` | one client's pages of a study search |
| `QdrantSearch` | one client's pages of a chunk search |
| `Services` | the eight modules from `Walks` to here, one at a time (see 3) |
| `ServicesProofs` | theorems about the gate, the facets, the keys, the generation, the filters and the walks |
| `SearchProofs` | theorems about the study search and the chunk search, and the types of all eight |
| `Analytics` | the tools' functions on rows, as operators |
| `Timeseries` | a tool call: schema, pages of rows, the function, the response |
| `TimeseriesProofs` | theorems about the fetches, the filters left to NADA and the answers |
| `Lists` | choosing and ordering the elements of sequences and sets |
| `ListsProofs` | lemmas about them, and about pages cut from a sequence |
| `MC*` and `MC*_*.cfg` | the instances TLC checks |

Definitions called mutants are bugs the code could have. No action uses them;
each one, put in the place of the definition after it, breaks a property of a
run, which shows that the property looks at that code.

### JobRegistry

A job's coroutine runs from one await to the next without interruption. `pc[j]`
is the await it is at: `start` (the task has not run), `warm` (loading the
embedding model), `slot` (the semaphore), `thread` (`asyncio.to_thread`), `end`.
`thread[j]` is the call in the pool, which lives on when the coroutine that
awaits it is cancelled. `Task.cancel()` is a request (`cancelled`), and
`DeliverCancel` is the moment the event loop raises it. `Submit` is `submit`
with the eviction at its end, `Finish` is the `finally` of `_run`. Left out:
progress, timestamps, results, and the read-only `get` and `list`.

### CatalogIngest

`run[r]` is the memory of one run: the tracker's `done`, `failed`, `processed`
and `since`, the documents announced but not sent (`pending`), those answered
and not confirmed (`answered`), those the backend rejected. `file` is the
checkpoint, `index` the documents in the backend, `old` the studies whose chunks
of earlier content are still there, `reported` what NADA was last told. One
action per step: take a row (`Load`), a bulk request (`Send`), one
`progress.confirm` (`Confirm`), the pruning, `finalize`, the variables, the
report; and an exception (`Abort`), which the two writers treat differently: the
OpenSearch run keeps its checkpoint and raises, the Qdrant writer returns.
A second run starts when the first one is over, or cancelled and winding down:
that is when its key is free in `JobRegistry`.

`backend` is chosen in the initial state. Studies' content does not change during the
runs, the file system does not fail, and variables are one fact per study. `recreated`
is a history variable: once the index has been dropped, what the checkpoint and the
reports say about it is stale, and the code does not guard against that (see 6), so
three properties are stated for as long as it has not been dropped.

### ReconcileScheduler

`pc` is where the coroutine is suspended: `top` of the loop, `wait`, `resend`
(acks kept from before a pause), `list`, `fetch`, `item`, `write` (process_item
in its thread), `acks`, `crashed` (until the watchdog), `off`. `pass` holds the
local variables of `_drain`, `_process_page` and `_process_items`. NADA is
external and is modelled by what the code relies on: one row per object,
re-stamped by each change, so the stamp is the version; an ack with the present
stamp settles the row, any other is answered with an error code and changes
nothing. A request and the probe of NADA's status after it are one step. A lost
answer is `AcksStopped` or `AcksFail` with any part of the request recorded.
`enabled` is the setting that makes the process run the loop; where it is off,
Process pending starts a single pass, with whatever state the last one left.
`strays` are writes by threads that are not the scheduler's: other jobs, and
items left behind by a graceful stop.

Left out: how long waits last (a wait may always be over), the lock between
processes (a new one starts when the old one is gone), status reports, and
splitting acks into requests of 100 (the assumption on `Flush` makes one
enough). The write of an item is one step.

### Content

`docs[i]` are the parts of study i that are indexed (chunks, study document,
variables), `belief[i]` is NADA's `search_index_state`, which a report changes
and which the loss of a report leaves behind. `op[a]` is what a worker is at: a
job under its key (`content:{type}:{idno}`, `delete:{idno}`, or the one of
`/admin/variables/sync`), a route that waits for its thread, an item of the
scheduler (of every change class: the whole study, its options, its variables, its
removal), or the study the diff run is at. An item of options rewrites the chunks
and the study document and then, like one of variables, replaces the study's
variables (`Resync` removes them, `Refill` writes them again): that may fail between
the two, and no report says so; an item is acked, or not.
Each request to OpenSearch is a step, so a deletion (chunks of this idno, chunks
of the sids it finds, variables, the study document last) can stop half-way and
can be crossed by an upsert. `run` is `reconcile_diff_once`: its pages, its
offset and what it has seen. `SameIdno` are the studies whose record has NADA's
idno: of the others the chunks carry another, and only their sid finds them,
which is why the study document has to go last. `mark` is a history variable: it
says of a study what happened to it that no key guards against, and the
properties are about the studies of which it says nothing, or only (`"unfilled"`)
that their variables were removed and not all written again.

### Walks

A walk holds a page between its reading from NADA and its bulk write; a job for
some citations and an item hold one object. The variables are those of one study, with
one row: an item of theirs reads the first page, removes them all, and then writes
and reads page by page (`FirstPage`, `RemoveAll`, `WriteVariables`, `NextPage`), so
that a failure leaves the study half indexed, and its row in the queue. `stale` is
what of its hand another operation has written since; a write of something stale is
remembered in `overtaken`. `bare` are studies with a document and no chunks, which an import
must not report. NADA is external: a change queues a row, `Trigger` queues what
differs between its catalog and its belief.

### Filters

`rows` and `facets` are what the chunks have of the study's filters, `study` what
the study document has. On Qdrant a sync writes both in one payload; on
OpenSearch it writes the chunks, and where there is a study document, options are
applied from NADA's record: the study document first, then its chunks. `serial`
is what was asked for last: what the filters would be if each job of a request read
and wrote at once, and re-indexing took NADA's.

### Facets and KeyStore

Two small stores in one JSON file each, replaced atomically. Every read and
replacement of the file is a step, since each runs in a thread. `Facets!serial`
is the registry as the admin requests make it one after the other, `removed` the
keys an admin was told are gone, `overtaken` that a sync was under way together
with a request and wrote, or that the file could not be read once. Each reading may
fail (`Reads`): the code then takes the defaults with an empty deny list for the
file, and a writer saves that.
`KeyStore!valid[r]` are the keys that were in force at some time since request r
arrived. The keys file may become unreadable and be repaired. The setting that
turns authentication off is left out.

### Gate

`th[t].pc` says where thread t is in `send`: at the lock, pacing, with a request
in flight, or backing off; it holds the lock in all but the first. Time is a
counter, a thread may wake late, NADA answers what it likes, also a Retry-After that
is neither a number nor a date, whose ValueError leaves `send` with nothing recorded
(`Unreadable`). `asked` is the time
before which NADA asked for quiet, as a history.

### Generation

The reading of the mapping is under the cache's lock, the dropping of the index
is not: a reader may be between its answer and the cache when the route forgets
(and has to wait for the lock). `settled` says that the index did not change
since a route or an ingest was through with it, `calm` that it did not since the
request started.

### StudySearch and QdrantSearch

Each is one client that pages through one search. A query is abstracted to what
it matches: the keyword scores, the vector search's ranking, the titles that name
all its words, the study whose idno it is. A page's requests to the engine are
steps, in the order the code sends them (in `QdrantSearch` those that run under
`gather` in any order), and studies come and go between them. The fusion of
rankings is exact: reciprocal ranks over a common denominator.

### Analytics and Timeseries

`Analytics` has one operator for each tool, over the rows in the order NADA sent them;
statistics are exact fractions, and thresholds the caller's or the method's own.
`Timeseries` is a call: the schema, the pages (`get_all_timeseries_data`), the
function, the response; or a code list (`MaxEntries` at most). NADA may cap a page,
leave out the total, ignore a filter, fail. The properties compare an answer with the
table NADA holds, which the tool sees through its pages only.

## 3. The runs

| Run | Instance | What it shows |
|---|---|---|
| `jobs_all` | 3 jobs of 2 kinds, 2 keys, 1 slot, history of 2 | one unfinished job per key; `_jobs`, `_key_to_id` and statuses agree; uncancelled jobs stay within the semaphore; a cancelled job never ends as succeeded; eviction takes the oldest finished jobs and no other; the registry implements `SingleFlight`; every started job ends if work does; cancelling a job with a token stops its work |
| `jobs_compute` | the same | finding: more threads compute than there are slots |
| `ingest_both` | 2 studies (one without text), 2 runs, fresh, resumed or recreating, on OpenSearch or Qdrant | the checkpoint names only studies that are completely written; old chunks outlive the writing of the new ones; NADA hears "indexed" only of studies that are there; on OpenSearch a run that removes its checkpoint has accounted for every study |
| `ingest_variables` | OpenSearch | finding: "indexed" is reported of a study without its variables |
| `sched_loop` | a study and a citation that change twice (the second time by deletion), 2 troubles, the loop on or off | a row leaves the queue only when the index is current; where the loop is on, acks go before work; nothing is done twice in a pass; the scheduler implements `IndexSync` |
| `sched_fair` | the same objects, one change, pages of one row, one trouble, other writers and graceful stops | the loop works off every row once nobody pauses it |
| `sched_samekey` | one content job of a study beside the loop | finding: the study's index goes back to older content |
| `mcp_tools` | all tools over tables of up to 3 rows of 6 kinds, and some of 4 to 6 rows; pages of 2, at most 5 rows and 4 pages; servers with and without cap, totals and filters; thresholds below, at and above the methods' own | the pages join up to the table or a prefix of it; where NADA tells totals and no page fails, a fetch within the limits has every row, and so has a code list that says so and whose page NADA did not cap; a filter that NADA ignores, or applies, changes no answer; answers are those of the cells' values, one row for a cell, in any order; values beyond an outlier are outliers |
| `content_sync` | 2 studies (one with variables; one whose record has another idno), 2 workers and a run, pages of 1, one change, one fault | a deletion that ends well leaves nothing; NADA's belief is so, but for variables that were replaced by themselves and not to the end; a run that was not cut short has tried all that is left; a run ends |
| `services_filters` | `Filters` in the instance below | finding: on OpenSearch, a request's filters are overwritten by NADA's in the job that writes them |
| `services_titles` | `StudySearch` in the instance below; a title past the keyword head names the whole query | finding: it is not promoted |
| `services_all` | eight parts, each on its own | see below |

`services_all` checks `Services`, eight modules that share no state, one at a
time: `part` says which, and the variables of the others are `None`. Where two
modules have a constant of one name, `Services` has a name of its own for one of
them (`Asking` are `KeyStore`'s requests, `NadaRecords` the `Records` of
`Filters`, `Titled` the `Studies` of `StudySearch`). Each property is about one of the
modules:

| Property | Module and instance | What it shows |
|---|---|---|
| `GatePolite` | `Gate`: 2 threads, 1 retry, times up to 5 | no request leaves before the time a busy NADA asked for; a call that met the firewall sends nothing more; requests keep their distance across threads; who asks for the trouble behind its failed call finds one, unless its Retry-After could not be read |
| `RegistryHolds` | `Facets`: 2 keys, 2 admins, 1 sync | requests under the lock lose no update; a removed key stays removed though NADA sends it again; but for syncs that overlap a request and for a file that could not be read |
| `KeysHold` | `KeyStore`: 2 keys, 2 writers, 1 request | what was answered stays, whoever writes the file; who is let in had a key in force |
| `GenerationIsNew` | `Generation`: 2 callers, 1 admin, 1 ingest, 3 generations | no request carries the generation of an index that is gone |
| `StudyPagesHold` | `StudySearch`: 4 studies of 2 types, 3 scorings and rankings, windows of 2 | the hits of a response are distinct, in the tab and within the limit, its counts add up to its total, and hits end at the total or before; the pages of an index at rest join up to what one page of all would answer |
| `QdrantPagesHold` | `QdrantSearch`: 5 chunks of 3 idnos, batches of 2, a cap of 3 | totals keep their cap and count; pages made of the same lists join up |
| `FiltersHold` | `Filters`: 2 keys, 2 jobs, 3 requests or changes | on Qdrant, a merge loses no field of another request, and facets follow the rows; on OpenSearch, chunks and study document agree |
| `WalksHold` | `Walks`: a citation, a study, 2 variables, 2 jobs and the scheduler | what was written is what the catalog has, once all is quiet; an import leaves nothing undone; nothing is dropped because NADA could not be read, but variables that are being replaced, after their first page was read |
| `ServicesTypeOK` | all | types, and the locks: who writes a file or the cache holds its lock |

**Bounds, and why they are enough.** Three jobs on two keys are the least with
which a key is reused while an older job is still winding down and eviction has
an active job to spare. In the ingest, two studies are enough for a bulk
request that mixes studies and for a save that falls between them; two runs for
a resume and for an overlap; the study without text is the one a run finishes
without sending anything (Qdrant) or with a study document alone. In the
scheduler two changes suffice for a change before and after each await, and two
troubles for one that happens while the first is being dealt with (acks kept,
then lost again). Two objects fill a page of two, or two pages of one; the
limits are chosen so that both the flush in mid-page and the breaker happen.
`MaxJobs`, `MaxRuns`, `MaxVersion` and `MaxTroubles` are the only bounds in
these modules that the code does not have; the theorems hold for all their values.

In `Content`, two studies are needed for a page to move past one that stays in the
list, and one fault or change at each point of two operations for every half-way
state; a run counts for two operations (`RunCost`): it is explored with changes,
faults and crashes beside it, and any two operations with each other. In `Walks`
and `Filters`, two jobs and three requests or changes are the least in which a job
reads, a second writes, and the catalog changes between them. In `StudySearch`,
windows of two over four studies put the end of the fused head inside a page and
leave matches outside both windows; in `QdrantSearch`, batches of two and a cap of
three make each loop turn twice and the cap fall inside a batch. `Gate`'s clock of
five covers the longest wait there (the slow-down of three, then a Retry-After).
The tables of `mcp_tools` have a row without a value, one without a geography, two
values for one cell, and ties. `MaxWork`, `MaxChanges`, `MaxFaults`, `MaxOps`,
`MaxTime`, `MaxSends`, `MaxGenerations`, `MaxCalls`, `MaxFrom` are bounds of the
models only. `mcp_tools` asks for thresholds of -1/2, 3/2 and 9/2, where the methods'
own are 0 (quartiles) and 7/2 (modified z-score). In `QdrantSearch` a keyword page
that is grouped wants three matches for each group, and five at most, so that the
limit on the scan cuts the second page short.

**Deadlock** is checked for the scheduler. The other instances stop when all
their jobs, runs, calls or pages are over, so it is off there.

**Fairness.** `JobRegistry!FairSpec`: the event loop runs every ready coroutine
and the pool starts queued calls (asyncio and the executor do). It is *not*
assumed that a thread's work ends: `EveryJobEnds` has that as its premise, and
`CancelStopsWork` assumes only that an ingest loop looks at its token between
rows, as `iter_langdoc_records` does. `ReconcileScheduler!FairSpec`: the loop's
next step happens (requests and waits all have timeouts) and a stopped process
is started again. Nothing is assumed of operators: `CatchesUp` has "nobody
pauses it any more" as its premise. Troubles are bounded by `MaxTroubles`, so it
says that the loop recovers, not that it copes with a NADA that never does.
`Content!Spec` has weak fairness of the diff run's steps and of each operation's
next step: they are straight code in threads, their requests have timeouts, and
a failure is a step too. Nothing is assumed of requests, changes or NADA's
reports; `RunEnds` says that the run comes to an end even if no study ever leaves
its lists.

## 4. What is proved

All theorems hold for every value of the constants that satisfies the modules'
assumptions: any number of jobs, studies, runs, objects, changes and troubles.

**JobRegistry.** `TypeCorrect`, `TablesAgree`, `SingleFlightHolds`,
`ImplementsSingleFlight`. That `submit` finds no job in flight speaks of the
key's *owner* only, so `OnePerKey` is not inductive. The invariant adds that the
owner table, the registry and the unfinished jobs agree (`KeysMatchJobs`), and
for that which status goes with which await (`Lifecycle`); the delicate cases
are `Finish`, which must release its own key and no other, and an eviction
inside `Submit`, which must not take the owner of a key in flight.

`SlotsHold` and `CancelWins` are about threads, which the
semaphore does not count: it counts coroutines. The invariant (`AtWork`) ties the
two: a thread at work for a job nobody asked to cancel has its coroutine waiting
for it, so those threads are among the semaphore's holders. Of the cancelled
jobs' threads it says nothing, and `jobs_compute` shows why.

`OldestGoFirst` (`EvictionPolicy`) is about numbers: those evicted are the finished
jobs with fewer than `excess` finished ones before them (`FirstOf`), which are never
more than the excess (`FirstAtMost`) and, when they are fewer, all the finished ones
(`FirstOrAll`).

**CatalogIngest.** `TypeCorrect`, `CheckpointSound`, `PruningSound`,
`ReportSoundness`, for either backend and any number of overlapping, cancelled,
crashed and aborted runs, as long as the index was not recreated. The invariant
(`SoundRun`) says of every run's memory that what is marked done is written,
that a document on its way belongs to a study the run has loaded, and that each
document of a loaded study is in the index, on its way or rejected; so when the
last one is confirmed and none was rejected, the study is written.

`EveryStudyMet` (`EveryStudyAccounted`) is proved for OpenSearch, without a word on
the index: in its loop a run has each study marked, still to take up, or with a
document pending or answered (`Accounted`); when all is drained, each is marked. On
Qdrant an aborted run returns as if it were through, so that there the property
does not hold.

**ReconcileScheduler.** `TypeCorrect` in every setting; `NoUpdateLost` and
`ImplementsIndexSync` for a scheduler that is the index's only writer
(`OnlyWriter`: no other jobs, no thread left behind by a graceful stop); the run
`sched_samekey` shows that the assumption is needed. The invariant says that
every ack under way or kept names a version the index has reached, and that no
version yet to be written (of a row, its record, the item at work) is behind the
index or ahead of the catalog. Since an ack settles a row only under the row's
present stamp, and a true ack's version has been reached, a settled row is
current.

`NoWorkUnrecorded` and `NothingTwice` need no such
assumption: they hold in every setting, other writers and graceful stops
included. For the first, `AcksFirst` says that the breaker trips only with acks
kept, and that none are kept wherever the loop works. For the second, `Tidy` says
what became of each row a pass has processed (`Handled`): it is skipped from there
on, settled, about to be acked or at work, or its object changed since, or the
pass takes up nothing more.

**Content.** `DeletionLeavesNothing`, `BeliefIsTrue`, `RunSkipsNothing`, for any
studies, workers, page sizes, faults and changes. The invariant of the first two
(`IInv`) is local to a study. Two operations at work on it at once have a key that
keeps them apart, or the study is marked as raced (`Apart`); so of an unmarked
study one operation alone changes the entry, and what its earlier requests did
still stands (`Sound`). That a deletion finds the chunks whose idno is not NADA's
takes one fact more: no chunks without the study document (`Entry`), which is why
the document goes last. `BeliefHolds` is not inductive where an operation only
rewrites what is there (options, variables by themselves): it is true all along then
(`Known`), but for the variables from their removal on, of which no report speaks.

The run's invariant (`RInv`) is about ranks in NADA's two lists, which shrink as
the run reports. Before a page, what the list has up to the offset was tried
(`PageOK`). In a page, what is left of the list up to the end of the page is as
much as the next offset counts on, `offset + size - succeeded` (`ItemOK`): a study
is counted as done when its item ends well, but leaves the list only if its report
arrives, so that the offset may be too small and never too large. The proof needs
that a run works on one item at a time and that nothing else works on the lists
(`AloneOK`, the premise `alone` of the property).

**Gate.** `OneHolder`, `Polite` (`RetryAfterKept`, `FirewallEndsCall`,
`FailureIsSeen`) and `GapHolds`, for any threads, intervals, retries and answers
of NADA, and however late a thread wakes up; `GatePolite` is their conjunction on
a small instance. What a busy NADA asked for is kept in three places, and the
invariant says which (`AskedIsKept`): the wait of the thread that backs off in the
lock, `not_before` once the lock is free, and then it is over for whoever paces or
sends. The distance holds since a pace computed under one interval is long enough
later (`PaceIsEnough`): as time passes the interval shrinks, and nobody but the
holder of the lock ends a request or slows the gate down. A Retry-After that cannot be
read ends a call too, with nothing recorded, and is the one case `FailureIsSeen` leaves
out.

**KeyStore.** `KeysTyped`, `KeysStay` (`AnsweredStays`) and `LetInOnlyByKey`
(`LetInByKey`), for any keys, roles, writers and requests, through failed writes
and times the file cannot be read; `KeysHold` is the last two on a small
instance. The theorems state their assumption on the constants,
`KeysAssumption`: roles are numbers, and None is no record, writer or answer. A
record once in the file keeps its role and its revocation: who saves has the lock
and loaded what the file still holds (`WritersOK`), and nobody makes a record for
a key that has one. A request reads the file twice without the lock; what carries
it is that the keys in force are noted for it from its arrival on (`RoutesOK`), and
that a record's role cannot change between the two.

**Generation.** `GenerationTyped` and `NewGenerationSent` (`NewOneSent`), for any
callers, routes, ingests and waits (`GenerationAssumption`: times and generations
are numbers, None is no caller). `settled` alone does not carry it: a route that
finds nothing to drop takes it back without a change. The invariant (`Fresh`)
speaks of the cache and of what a reader is about to put there: both are of the
index as it is (`Current`) from the forgetting on, which waits for a reader, and
as long as a request that found it so has met no change.

**Facets.** `RegistryIsSerial` (`RegistryHolds`), for any keys, requests and syncs
(`FacetsAssumption`: None is no request and no file). The requests' lock does not bind
syncs, so the invariant (`FacetsInv`) has two parts, each with its history as its
premise. Where no sync and no failure wrote, what the holder of the lock has read is
in the file, and what it made of it is half or all of what the request would make at
once (`FacetsHolderMakes`). As long as no sync overlapped a request and the file could
be read, a removed key is in neither the list nor what a sync has read of it, and the
deny list has it, which is what keeps a later sync from adding it
(`FacetsUndisturbed`). Each reading of the file has two cases; in the one where it
cannot be read both histories end, and with them what is to be shown.

**Filters.** `FiltersAgree` (`FiltersHold`), on either backend, for any keys, jobs
and batches (`FiltersAssumption`: a batch's key is none of the others). Each part of
the invariant (`FiltersInv`) stands until its history says that two jobs crossed:
on Qdrant what a merge is about to write is made of what the chunks have, and what a
backfill is about to write is what the rows have; on OpenSearch at most one job is
between the chunks and the study document, and with none there the two agree. What
requests ask for is not kept on OpenSearch at all: `services_filters` shows that.

**Walks.** `WalksAreTrue` (`WalksHold`), for any objects, page sizes and workers
(`WalksAssumption`). What is written need not be current, so the invariant (`WalksInv`)
speaks of rows: what a job holds or an operation wrote is what the catalog has, or the
scheduler has yet to bring the object up to date (`WalksPending`), unless an older write
came last. An item that replaces the variables writes to them from the removal on, so
those it has still to write count as pending by its own row, which is settled only when
every page was read and written; and when it removes them it holds a page NADA answered
(`NeverDropped`). For the import, `WalksImportTrue` says of each of its steps which of
the objects that are gone but indexed (`WalksLost`) it still has before it: those it has
not listed, then those it has not reported. When it triggers, there are none, and what
NADA queues is all that is left (`WalksImported`).

**Study search.** `StudyPagesAreOneResult` (`StudyPagesHold`), for any studies,
scores, rankings, windows, sorts, tabs and page sizes (`StudiesAssumption`: studies
are numbers, since ties are broken by the idno, and a ranking names no study twice). A
page is made of up to five requests that may each meet another index, so it need not
be a page of any result the index ever had; the invariant (`StudiesInv`,
`StudiesGood`) says that it is still a part of *some* list without repetitions, all in
the tab, that the total is that list's length, and that the counts are those of a set
of which the list has what the tab shows. That a response adds up (`AddsUp`) follows
from that alone; it is what `invariant_violations` (`app/studies_schemas.py:313`)
asks, but for an empty page behind the end, whose offset is more than `found`. While
nothing changes that list is the one the search would answer in one piece (`Whole`,
with the promotion as the code has it: `services_titles` shows where the documentation
has another), which takes from each step of a page what it found out on its way
(`StudiesWay`): the block, the fused head. The delicate page is hybrid's
(`StudiesHybridPage`): the head, then the keyword matches outside it, or these first
and the head reversed, whichever part the offset falls into. Then the pages join up
since their offsets do, and the last one reaches the total.

**Chunk search.** `ChunkPagesAreOneResult` (`QdrantPagesHold`), for any chunks, rankings,
batches, caps and page sizes (`QdrantAssumption`: chunks are numbers, since a scroll goes
by their ids, and a ranking names no chunk twice). While nothing changes, each answer is a
part, from where it was asked, of one list (`ChunkWhole`), provided that the matches are
enough for the scroll and the page is within the prefetch (`ChunkEnough`); with fewer, the
scroll starts again (see 6), and deeper, the lists are others. The invariant (`ChunkInv`)
says what the three requests of a page have come to, in whatever order they run
(`ChunkKnows`): the count stands below the cap until it is over, the neighbours are all
there, and a scroll has the first matches, with its cursor at the next. Collapsing a
beginning of a list gives a beginning of the list collapsed (`ChunkLeadersFirst`), and the
fusion names each chunk once, whatever the weights; so parts of the list with offsets that
follow each other repeat nothing.

**Timeseries.** `NoRowTwice` (`PagesJoinUp`) and `NoRowMissed` (`CompleteWithTotals`),
for any table, limits and way NADA cuts its pages. The offset is the number of rows a
fetch has, so what comes next continues its prefix (`Onward`, `Received`). With
totals, every page but the last brought as many rows as page size and cap allow
(`Advanced`); so a fetch that ends by itself ran out of rows, or met a limit.
`LeavingItToNadaIsSound` (`PushdownSound`) says of each of the twelve tools that what
it computes from the rows a filter leaves is what it computes from all of them. A tool
leaves to NADA some of the dimensions it filters by itself, so its own filter, applied
to what NADA kept, gives the same rows in the same order (`Where` of a `Where`); where
NADA ignores the filters, there is nothing to show. What is compared is a fetch that
is complete.

`CellsDecideAnswers` (`CellsDecide`) and `OutliersLieOutside` (`OutliersAreOutside`) are
about the answers themselves, for any rows whose values are integers or None and any
arguments (`ValuesAssumption`). Where no geography has two rows of one time (`OneRow`),
removing duplicates, taking the first or the last and picking by period all leave the
same rows (`EachOnce`), whatever order they came in, and so each answer is one of the
cells' values: a rank is more than the number of better ones (`RankIs`), a percentile
counts those below and those not above (`BenchmarkIs`), what two indicators have in
common is joined cell by cell (`JoinOfGeosIs`). Only `compare` also answers of rows
without a time, of which no cell speaks. `OutliersAreOutside` needs no such premise. A
value is judged by its distance from the median, in deviations, or from the quartiles,
and either grows outwards (`FlaggedByZIsOutside`, `FlaggedByIqrIsOutside`), whatever the
threshold; the value in the middle is not flagged as long as the threshold is the
method's own or more. The deviation, where most values are one, is a sum, and a
sum is a fold: that one of integers is an integer is shown without induction, from the
function the fold chooses, which is a difference of two cardinalities (`SumIsInt`).

**Lists.** `SelectSeq` and `SetToSortSeq` are defined by recursion or as a choice among
all sequences, and the provers can do neither. `Lists` has operators of its own in their
place, by counting: the n-th of the chosen elements is the one with n - 1 chosen before
it. `ListsProofs` has what is needed of them (an order that is total lists each element
of a set once, in order; a selection keeps order and repeats nothing; the parts that
consecutive pages cut from a list join up to it), each proved by its least
counterexample, since the induction rules take an operator as a parameter.

**Services.** The theorems of `Facets`, `Filters` and `Walks`, and `GateIsPolite`,
`KeysAreKept` and `GenerationIsSent`, are stated of `ServicesSpec`: of a behaviour in
which a part runs, the variables are one of the part's own specification, and one in
which it does not leaves them alone (`PartRuns`, `PartsInv`, `WalksRun`, `StudiesRun`,
`ChunksRun`). `ServicesAreTyped` (`ServicesTypeOK`) is made of `PartsTyped`,
`WalksAreTyped`, `StudiesAreTyped` and `ChunksAreTyped`.

**Model-checked only.**

- Liveness (`EveryJobEnds`, `CancelStopsWork`, `RunEnds`, `CatchesUp`): fairness and
  ENABLED are beyond the prover.

## 5. Findings

Each is a run that ends in a counterexample, and a `findings` entry with the
line it contradicts.

1. **Compute beyond the semaphore** (`jobs_compute`): cancelling an ingest job
   releases its slot at once, its thread embeds on to its next token check.
2. **Variables forgotten by a resume** (`ingest_variables`): a run that is cut
   off, then resumed, syncs the variables of its own segment, and reports all
   studies of the checkpoint as indexed.
3. **Scheduler and content jobs race** (`sched_samekey`): of a study's content every
   writer, the scheduler named among them, is to submit under one key
   (`app/_ingest.py:35`); the scheduler's loop uses no key, and a content job that read
   the study before it writes over the scheduler's newer content.
4. **A request's filters do not stand** (`services_filters`): on OpenSearch a PUT or
   PATCH of a study's filters writes the chunks and then, in the same job, applies the
   study's options: NADA's filters are written over those of the request
   (`filters/sync.py:209`), where the routes say "Replace all filter_fields" and "Merge
   new filter_fields into existing ones" (`catalog_admin.py:151`, `175`). The test of
   the sync mocks that call.
5. **Titles are promoted from the fused head only** (`services_titles`): the
   documentation has any keyword match whose title names the whole query first, in
   keyword rank order (`docs/studies-search-contract.md`, 6.1); the code looks for them
   among the fused studies alone, and keeps the order of the fusion
   (`studies_search.py:742`).

## 6. What the model shows beside its runs

These follow from the actions as they stand and were met while writing them. No
run checks them.

- After an index was recreated, a resume skips studies the new index does not
  have, since nothing ties the checkpoint to an index (`RecreateIndex`, then
  `Start` with `"resume"`).
- Failed studies are counted as processed when a run resumes and once more when
  they are retried, so `processed` may exceed the total (`Start`, `Mark`).
- Acks are still sent after a firewall block, and if they fail as "unavailable"
  the shorter pause replaces the firewall's (`ItemTrouble`, `AcksStopped`).
- Where the loop is off, a pass starts without sending the acks the last one
  left, and with a tripped breaker (`Wake`, `List`).
- After a graceful stop the item in hand goes on in its thread while the next
  process has the lock (`Stop`, `Land`).
- A cancelled job is reported as cancelled while its thread still runs, not, as
  the module's docstring has it, when the thread completes (`DeliverCancel`).

Jobs, ingest and scheduler:

- A cancelled run winding down saves or removes the checkpoint file under the run
  that replaced it (`progress.py:200`, where line 21 has no "concurrent-writer
  problem to solve").
- The Qdrant writer returns after an exception ended its loop
  (`qdrant_writer.py:270`); the caller takes the run for complete and removes the
  checkpoint that a resume would need (`service.py:817`).
- A resume that comes while the pass that saw the pause is sending its last acks
  is dropped: `_wait` clears `_wake` (`reconcile_scheduler.py:314`), and the loop
  waits a whole interval.

`Content`:

- Variables that are replaced by themselves, or with a study's options, are removed
  before they are written again; a failure between leaves the study without some of
  them, nothing reports it, and NADA goes on believing that it is indexed (the property
  leaves the variables out then; a scheduler's item of theirs stays in the queue).
- The deletion of a study whose study document is missing leaves the chunks that
  carry another idno than NADA's: only the document knows their sid.
- A rewrite of options that read the study document before a deletion brings the
  document back.
- A deletion that stops half-way reports nothing: NADA goes on believing.
- A webhook's deletion and an upsert have different keys; what is left when they
  cross depends on their steps, and so does what NADA believes.
- A diff run beside other work may skip studies that move in the lists; a lost
  report does not make it skip.

`Filters`:

- A facet backfill on Qdrant may overwrite newer facets by those it scanned.
- `sync_filters_for_idno_from_nada` is called by nothing in the source.

`Facets`: a filter sync, which takes no lock, may lose the update of an admin request
that it overlaps, or bring back what it removed; a file that is there and cannot be
read counts as a missing one (`dynamic_filters.py:84`), so that the next save replaces
the registry by the defaults and empties the deny list. The properties except both.
`Gate`: after a restart, the wait that NADA asked for is forgotten; `trouble_since`
may report the trouble of another thread's request; a Retry-After that cannot be read
fails the call with nothing recorded, so that the scheduler cannot tell that NADA is
busy.

`Generation`: `DELETE /admin/index` that fails after the study index is gone
forgets nothing, so the old generation is sent for up to a minute; a bulk write
after a drop creates the index without a generation, where `admin.py:736` speaks
of one with "a generation of its own"; a failed reading is cached like an answer;
another process's cache is as old as its TTL allows.

`Walks`:

- The variables of a study are gone from their removal to their last page; if NADA
  cannot be read in between they stay away until the row is worked off
  (`variables_index.py:106` says so).
- A page read before a citation was deleted is written after it: the citation is
  back, and nothing removes it.
- `import_index_state` reports no study without chunks: the documents of those that
  are gone from NADA stay in the study index.
- An index that the command line drops between an item's write and its ack lacks
  that object for good.

`StudySearch`: an exact idno whose study another tab hides falls through to a scored
search, so that a tab changes the result and not only its view, where the contract has
"Choosing a tab never changes which studies are in the result" (6.1); an empty page
behind the end has offset + hits > found, which `invariant_violations`
(`studies_schemas.py:320`) rejects; the automatic mode may change between pages when
the embedding service fails. `QdrantSearch`: with the sparse index off, a scroll for
keywords starts again from the beginning after Qdrant's last batch, and returns the
same chunks again until it has enough, which raises their rank in hybrid; hybrid's
prefetch grows with the page, so a deep page may be cut from another order; the
keyword total counts text matches while the hits are the sparse vectors'.

`Timeseries`: a later page that fails ends the fetch as if it were the last
(`nada/api.py:415`), and no tool's response says so; a server whose cap is below the
page size and that tells no total is read one page; two tools treat a duplicate of a
cell differently (rank takes the first, compare the last); a threshold below the
method's own may flag every value; `join` does not apply `ref_areas` to what came; the
outliers' description has a threshold of 2.0 where the code's is 3.5.

## 7. Not modelled

- *Audit log*: appends only. *Rate limiter*: one counter, in one step of the event
  loop. *Metrics, logging, request context*: nothing reads them.
- *Citation and variable search, chunk search on OpenSearch*: one request, whose
  answer is passed on; what matters is the query, which the engine interprets.
- *Models of NADA's data, request headers, string validation, static resources, demo
  page*: no state, no control.
- *The embedding model*: loading is a wait in `JobRegistry`, vectors are rankings.
- Of modelled parts: the content of one study on Qdrant (one request for each of
  a deletion and an upsert), citations in the diff run, payload indexes for new
  facet keys, facet counts, highlighting, the residuals of a LOWESS fit.
- In `Timeseries`, `from_year` and `to_year`: they are given to NADA and applied by no
  tool to what comes, so the answer is of whatever years NADA sends. In `Content`, that
  a refused document whose error names no record is reported neither as indexed nor as
  failed (the model reports the study as failed). In `StudySearch`, two studies of one
  idno; the exact match counts those it fetched. What a graceful stop leaves behind
  (`Graceful`) is in `sched_fair` only.
- Time, but for `Gate` and `Generation`: a wait may always be over.

What could be added: a composition of `Content` with `ReconcileScheduler`, in which
the scheduler's item is `Content`'s and not one step. It is beyond TLC at the present
sizes.

## 8. Running it

    tlc -workers 2 -config MCJobRegistry_all.cfg MCJobRegistry
    tlapm ReconcileSchedulerProofs.tla

Most runs take from a second to a minute and a half, `jobs_all` about two minutes. The
proofs of `ServicesProofs` and `SearchProofs` take about twenty minutes each from
nothing, the others from one to five.
