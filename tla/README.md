# LATRACE in TLA+

LATRACE (the repository beside this directory) is a memory service.  Clients
post the turns of a dialog; the service turns them into facts, events and
states with an LLM, keeps those in a vector store and a graph store, and answers
questions about them.  The HTTP server, the background executor and the stores
are in `src/modules/memory`.

This directory holds TLA+ modules of the parts of the service whose correctness
depends on order, interleaving and failure, the TLC configurations that check
them on small instances, and TLAPS proofs of the properties that matter most
for every value of the constants.  `PROJECT.json` lists the runs, the lines of
source behind every definition (`map`), a mutation of the code for every
property, the hazards of the code and the disagreements found.

## 1. The system

### Life of a dialog

1. `POST /ingest/dialog/v1` (`ingest_dialog_v1`) stores a job (`create_job`) and
   offers it to the executor's queue.  `commit_id` makes it idempotent.
2. `IngestExecutor` runs jobs: workers take ids from an `asyncio.Queue`, take a
   global and a tenant semaphore, and call the runner under `wait_for`.
3. `_run_ingest_job` claims the job by compare-and-set, marks turns with an LLM
   (stage 2), then calls `session_write` (stage 3), and records every step in the
   job store.  Timeouts are retried with a delay; a start recovers what the last
   process left.
4. `session_write` is a saga: marker, extraction, graph, state updates, vectors,
   publication, deletion of stale facts, marker.
5. `apply_state_update` puts each extracted state on the timeline of its property.
6. Reads (`search`, `get`, state and graph queries) see what was published.

`POST /memory/clear` wipes a tenant at any moment: vectors, jobs, graph, in this
order, with an error of one store reported and the next one tried.

### Components

| Component | State | Operations | What is hard |
|---|---|---|---|
| Ingest job store | `ingest_jobs`, `ingest_commit_index_v2`, `ingest_session_state`; SQLite or PostgreSQL | `create_job`, `try_transition_status`, `update_status`, `update_stage2`, `clear_by_tenant`, reads | read-patch-write without a lock; cancelled callers whose statement goes on; many processes |
| Ingest executor | queue, delayed tasks, workers, semaphores, running set | `enqueue`, worker loop, `_execute_one`, timeout and retry, `start` with recovery, `stop` | timeouts against late writes, crash between claim and write, full queue, stop against blocked puts |
| Runner and handlers | none of their own | `_run_ingest_job`, `ingest_dialog_v1`, `ingest_job_execute`, the clear | check-then-claim, refusal after creation |
| Session write saga | marker, facts, events, the service's cache | `session_write` and the service calls it makes | five writes without a transaction; swallowed failures; cancellation between any two |
| Dialog graph | turns, utterances, segments, events and facts of a session | marking, numbering, extraction, the builder, the upsert and the purge of an overwrite | ids that are ranks: a call merges into what the one before left |
| State timeline | State, StateKey, PendingState nodes | `apply_state_update`, approve, reject, `purge_tenant`, `get_state_at_time` | updates out of order, approvals in three calls, purge in batches |
| State tools | vocabulary of the server's process, cached vocabulary of each runtime | `entity_status`, `status_changes`, `state_time_since`, also run by the agentic endpoints | a name mapped with one vocabulary and asked of another; several awaits in one answer |
| Memory entries | points, nodes, log of versions, the service's cache | write with dedup, update, soft and hard delete, rollback, publish, link | three stores without a transaction, stale caches, two calls at one entry |
| Memory search | search cache, breaker of the vector store, loaded weights | `search` with its attempts, retries, cache, corpus | answers from before a change, outages remembered, weights shared by all |
| Usage WAL | table of events not yet delivered | `append`, `flush_once`, loop, stop | crash between delivery and delete, refused head of a batch, shutdown order |
| Admission gates | token buckets, breakers, clear locks | allow, record, the nine steps of a clear | concurrent outcomes against cooldowns; half-done clears |
| Semantic queries | none that outlives a call | time-since, quotes, entity-profile, topic-timeline, relations, walks through pages | several graph queries with the ingest in between; refusals that look like emptiness |
| Event graph | nodes and edges of events, explanations in each pod's cache | `upsert`, the two purges, `build_first_meetings`, explain | one transaction per statement, purges between them, open breakers |
| Graph upkeep | derived edges, time slices, life and visibility of nodes | the builds of `/graph/v0/admin`, publish, touch, cleanup, export, the reads | builds that read once and write later; each read with a filter of its own |
| Retrieval | none that outlives a call | merge of five routes, rerank, select, explain, answer | ids that alias, scores of different scales |
| Equivalence store | pending and confirmed pairs | add, confirm, remove | concurrent confirmation |
| TTL jobs | none | soft-delete of what expired | a job against a write of the same entry |
| BYOK registry and resolver | credentials, bindings, cached resolution | create, rotate, revoke, resolve | revocation against a cached key |
| Vector and graph stores | external databases | clients | their errors, swallowed or raised |
| Adapters, legacy job store, clients, configuration | none that outlives a call | — | — |

They interact by calls inside a process, by the job store between processes, and
by the vector and graph store between everything that writes a session.  The only
callbacks are the coroutines and delayed tasks of the executor.

### What makes each part correct

* Job store: one job per `commit_id`; a claim is exclusive; what is deleted stays
  deleted.
* Executor and runner: no job, and no commit, has two runners; an accepted job
  is always in somebody's hands and reaches a final status; COMPLETED is final;
  a stop ends.
* Session write: a completed marker is backed by published facts; a failed
  overwrite deletes nothing; ok means visible; a session is stored once; stale
  facts go.
* Dialog graph: what the graph and the index hold of a session is what was found in
  it, under the right turns and for as long as the marks say; an overwrite leaves
  only what its own extraction found.
* State timeline: one open state, no gap or overlap beyond the known
  millisecond, no past answer changes, no update vanishes.
* State tools: the three readings of a timeline agree; a call asks for what its
  words mean; who asks again is not told of something older.
* Memory entries: the graph says what the vectors say; a duplicate is merged, never
  dropped; a rollback puts back what was there.
* Memory search: what is answered matches its filter, is no older than the cache
  allows, is empty for a reason, and its blend of scores is one in force.
* Usage WAL: every appended event is delivered, in spite of crashes, until an error of
  its table ends the loop.
* Gates: no tenant is over its rate; an open breaker follows as many failures as
  its threshold; one clear at a time, and a clear that says so has wiped.
* Semantic queries: an answer is what its queries should have found, up to their
  limits; a walk through pages lists what was there all along.
* Event graph: a purge can be repeated, a clean upsert writes all it did not drop,
  answers from caches and edges agree with the graph.
* Graph upkeep: derived edges go forward in time, a slice covers what begins in it,
  an export misses nothing its cursor does not cut, the reads agree on what is
  visible.
* Retrieval: no hit is lost in a merge, the answer goes by the reranker.

## 2. Modules

| Module | Models | Used by |
|---|---|---|
| `IngestJobStore` | the three tables, one action per store call | extended by `IngestPipeline` |
| `IngestPipeline` | handlers, executor, runner, pods, crashes; the composition of all of them over the job store | `MCIngestPipeline`, `MCIngestLive`, proofs |
| `IngestCommits` | what the ingest promises of a commit, abstractly | instantiated by `IngestPipeline` |
| `IngestPipelineProofs` | `TypeCorrect`, `DeletedForGood`, `OneRunner`, `OneRunACommit`, `CompletedStays`, `AcceptedIsKept`, `PromiseIsKept` | |
| `SessionWrite` | one session's saga and what can happen around it | `MCSessionWrite`, proofs |
| `SessionWriteProofs` | `SessionTypes`, `CompletedBacked`, `OverwriteKeeps`, `SessionStaysCurrent`, `OkShowsAll` | |
| `DialogGraph` | what becomes of the turns of one session | `MCRetrieval`, proofs |
| `StateTimeline` | one property's timeline, reviews, purge | `MCKnowledgeGraph`, extended by `StateTools`, proofs |
| `StateTools` | the calls of the state tools over that timeline, and the vocabulary | `MCRetrieval`, proofs |
| `MemoryEntries` | the entries of one scope in three stores | `MCMemoryEntries`, proofs |
| `MemoryEntriesProofs` | of the entries `MemoryTypes`, `EntriesStayTogether`, `RollbacksRestore`; of the graph's upkeep `UpkeepKeepsTypes`, `ExportIsComplete`, `SlicesCoverBegin`, `LinksFollowTime`, `ReadsAlwaysAgree` | |
| `MemorySearch` | searches over a changing store, with the cache | `MCMemorySearch`, `MCApiGates`, proofs |
| `MemorySearchProofs` | `SearchKeepsTypes`, `AnswersMatch`, `RankedRight`, `CacheStaysHonest` | |
| `UsageOutbox` | what the usage log promises, abstractly | instantiated by `UsageWal` |
| `UsageWal` | the log, its loop, the sink, the process | `MCIngestLive`, proofs |
| `UsageWalProofs` | `KeptUsage`, `ConfirmedOnce`, `LogIsAnOutbox` | |
| `ApiGates` | rate limiter, breaker, clear of a tenant | `MCApiGates`, proofs |
| `ApiGatesProofs` | of the gates `RateIsBounded`, `BreakerIsRight`, `OneClear`, `WipesAll`, `GatesTypes`; of the queries `QueryKeepsTypes`, `AnswersAreWhole`, `WalksMissNothing` | |
| `SemanticQueries` | one call of a semantic endpoint over a changing graph | `MCApiGates`, proofs |
| `KnowledgeGraph` | upserts and purges of the event graph by two pods, explanations | `MCKnowledgeGraph`, proofs |
| `KnowledgeGraphProofs` | `GraphTypes`, `PurgeIsResumable`, `CleanUpsertIsWhole`, `ExplanationsStayTrue` | |
| `GraphUpkeep` | derived edges, time slices, aging, reads and export | `MCMemoryEntries`, proofs |
| `Retrieval` | one retrieval request | `MCRetrieval`, proofs |
| `RetrievalProofs` | of the timeline `TimelineTypes`, `OneTimeline`, `PastIsKept`, `UpdatesKept`; of the tools `ToolsTypes`, `ReadsOfStatesAgree`, `CallsAskAsMeant`, `NobodyGoesBack`; of the dialogs `DialogTypes`, `ASessionIsFaithful`, `AnOverwriteReplaces`; of a retrieval `RetrievalTypes`, `AnAnswerIsSupported` | |

`MC*` modules only give TLC values, bounds and symmetries.  Where one of them
extends several components, each behaviour looks at one of these (`focus`, chosen at
the start): they share no state, and their product would say no more.  Operators
named `Mutant*` stand before the definition they mutate and are used by no
specification: each is a plausible bug, and shows that the property named with it in
`PROJECT.json` can fail.

### IngestJobStore, IngestPipeline and IngestCommits

A job id is a fresh uuid in the code and here the pair of its commit and its rank
among the jobs of that commit, so that "the same commit" and "an earlier job of
it" can be said.  `create_job`, `try_transition_status` and `clear_by_tenant` are
one transaction each and one action each.  `update_status` and `update_stage2`
read the row, patch the copy in Python and write it back, so they are two steps:
`Read` puts the patched copy in `writes`, `Land` puts it in the table.  `Landed`
keeps the difference of the backends: SQLite replaces the whole row whether it is
there or not; PostgreSQL updates the columns of that statement where the row
exists.

A pod is one process.  Its queue, delayed tasks, workers and semaphores are
variables indexed by pod; the places where a worker can await are the values of
`wpc` (`fetch`, `global`, `tenant`, `load`, `claim`, then the stages).  Code
between two awaits is one action.  `Expire` is `wait_for` giving up at one of
`TimeoutPoints`: it cancels the coroutine but not the thread of a statement that
is already running, so a write that was read stays in `writes` with `live` false
and lands later (`LandOrphan`), possibly after the timeout handler's own write.
`Start`, `Recover`, `BeginStale`, `EndStale`, `Serve` are `start()`: workers run
before and during recovery.  `Stop`, `PutPoison`, `StopEnds`, `Exit` are `stop()`
and the end of the process; `Crash` may come anywhere.  `session_write` is one
step here (`SessionWrite(w)`) that ends in ok, in a rejection or in a failure;
what it does inside is the next module.

`IngestCommits` has nothing of this: the phase of a commit (none, waiting, running,
completed, failed) and who is on it.  A waiting commit that nobody is on is claimed by a
runner that is on nothing; while somebody is, only its conclusion moves it, which lets go
of it; a commit that is waiting may be failed as overdue; completed and failed are ends,
and runners may be gone at any moment.  The refinement mapping takes the phase from the
status of the job that the index names (`CommitPhase`), and the runs from the workers
between the claim and the moment they let go, the handling of a timeout included
(`CommitRuns`).  Queues, delays, semaphores, recoveries and all writes on the way are
stutters; a claim is `Claim`, the write of an outcome or of a retry, also a late one of a
process that stopped, and recovery's reset of a running job are `Conclude`, recovery's
`stale_job` is `Overdue`, a stop, a crash or a worker that gives up is `Abandon`.

### SessionWrite

One module instance is one session.  A fact is its index in the extraction, which
is what its id is derived from, and carries the call whose text it has and its
published flag: two calls that extract a first fact write the same id.  The
actions of `CallStep` are the awaited calls in the order of the code, each with
what it may do: succeed, raise (`Raises`, counted by `MaxFaults`), or fail and
report nothing (`FailsSilently`, counted by `MaxSilent`; a deletion too: `delete_ids`
looks at no answer).  `Cut` is the job
timeout: `CancelledError` is not an `Exception`, so neither handler of the code
sees it.  `Restart` loses the cache, `ClearVectors` and `ClearGraph` are the two
stores of a tenant clear.  `clean`, `intact`, `last` and `stored` are history
variables; they are only read by properties.

Abstractions: the new facts of a call are the ids 1..n; utterance entries are
written and published in the calls that write the facts and go with them; a
request of a cancelled call has reached its store before the next call of the
session starts; a session has one user set, hence one marker; state updates are in
`StateTimeline`.

### DialogGraph

What the facts of `SessionWrite` are about.  A turn is its rank among those posted.
Stage 2 marks turns and drops some; `session_write` numbers those that are left, so
that the ids of turns, segments, events and facts of two calls are the same names for
different things when the marking differs.  The extractor may find any events and
facts in the turns of its prompts, each resting on turns of one segment.  The builder
makes utterances, segments, events and facts of it, with the time and the time to live
that the marks give; the request is MERGEd into `dialog`, an overwrite purges the
events whose ids are no longer among its own, and the index follows.  A call may fail
after each of these, and another comes.  The graph store logs its errors and skips
statements while its breaker is open: the upsert may write nothing, or nodes without
edges, the purge nothing, or facts only, and the call goes on and ends well.  `swallowed`
remembers that, and the properties about the graph of a call that ended well are about
calls for which the graph has done all it was told (`Stored`).

### StateTimeline

One module instance is one property of one subject: updates of different
properties touch different StateKey nodes.  `Apply` is the transaction of
`apply_state_update`, whose first statement takes a write lock on the StateKey
and so serialises the updates of the property; its four disjuncts are the four
commits of the code.  Node ids are in the order of creation.  An approval is three
store calls (`Approve` reads, `MarkApproved`, `ApplyApproved`), each of which can
fail without the caller looking, and the request can be gone after each.
`PurgeBatch` deletes any batch of the tenant's nodes, which includes nodes the
module does not have; `PurgeFails` leaves what is left.  `whole` says that no
purge is half done, `told` is any one update since the last purge that the
properties watch.  `last_seen_at` is left out: no query of the store decides by it.

### StateTools

Extends `StateTimeline` with callers.  A call is the requests it makes, one step each:
resolve the entity, load the vocabulary (from the runtime's cache, or of the server),
query the states, return.  `MapProperty` is the code's order of readings: the name itself,
an alias, the name and the alias of the same normal form, and failing all, several
names that contain the text are a choice.  The server reads the vocabulary file once for
the life of its process (`file`, `served`), a runtime keeps the answer it got last
(`known`); `Deploy`, `ServerRestarts` and `RuntimeEnds` change them.  `Timeline` is any step of the
timeline.  History: `latest` (since when the state holds that somebody was told of
last), `offered` and, for each call, `since` (the vocabularies the server had to offer
while the runtime, and the call, lasted).

### MemoryEntries

An entry is the text its vector comes from, the other texts merged into it, and
its two marks.  Awaited Qdrant calls are steps of their own; the graph and audit
clients never yield, so `FinishWrite`, `FailWrite` and `FinishEdit` are one step
after the upsert.  `Decide` is the search for a duplicate of one draft: `Twins`
finds any entry of the same text, deleted and hidden ones too, as the code does.
`Fetch` reads by the raw id, which Qdrant does not know for an id that is no UUID
(`Slugs`), and falls back to the cache.  Rows `v-UPDATE-<id>` and
`v-DELETE-<id>` hold one snapshot each.  `calm`, `promised` and `was` are history:
whether the last call at an entry met another one or a failure, what its callers
were told is stored, and what a rollback has to bring back.

### MemorySearch

A request is a filter and the order of its attempts; scores play no part, an
attempt returns what its filter lets pass.  An entry is where it belongs (`Place`) and
the collections that hold a vector of it.  `Must` and `Should` are the conditions as
`_build_filter` makes them, `Wants` is what they are to mean.  An attempt asks one
collection after another: a request that fails is tried again and counts for the breaker
(`QdrantFails`), one that is rejected, or whose answer cannot be read, is not tried again,
counts as a success and leaves its collection without hits (`QdrantRejects`).  The event
loop turns only where a search waits for Qdrant (`Awaiting`), which `Hit`, `CutShort` and
`AskQdrant` keep to.

The cache is a sequence, least recently used first.  Its key is the filter, the scope and
a signature of the weights, and the signature is the blend of scores only
(`service.py:853`): the boosts of a user's, a domain's or a session's entries
(`service.py:808`), which are configured with it and used for the score
(`service.py:1507`), are not in it.  So a ranking is two parts, `blend` and `boosts`, and
what `RankedAsConfigured` says of the two differs.  Weights are loaded into the service by
each search and used when it ends, which is why `loaded` and a search's `conf` are two
things.

### UsageOutbox and UsageWal

`UsageWal` has the table with its order, one post in flight with the step at which
the sink has taken it and the step at which the loop knows, posts whose answer
nobody waits for any more (`late`), and the life of the process: the loop is
stopped first, jobs go on appending while the executor stops.  The rows are read outside
of any handler, and a refused post is counted by a write that may fail as well: an error
of the table ends the loop (`BeginFails`, `Refuse`), nobody starts it again in that
process, and jobs go on appending (`life` is `mute`).  To stop such a process is to meet
that error where the loop is awaited (`server.py:2389`), so its executor is not stopped
(`StopMute`).  An error leaves the table as it was; that the statement of a failed commit
goes with the next commit of the connection is not modelled.  A call that is made
again has the id of the first, and replaces its row, also one that is being posted.
`UsageOutbox` has none of this: made, waiting and delivered events.  The refinement
mapping takes `waiting` from the rows and `made` from the counts of calls;
`Begin`, `Take`'s answer, `StopLoop`, `Crashes` and `Restart` become stutters or lossless
steps of the outbox, and that a crash cannot lose what waits is the refinement.

### ApiGates

Three parts that share the clock: the token buckets, with tokens in units of
`1/Whole` so that rates are whole numbers; one breaker with queries in flight, whose
answers come in any order; one tenant's clear in its nine steps, each of which may
fail, which does not stop the next, with others writing entries (vector, then
node) or deleting vectors between any two.  A clear finds a node of an earlier version
through the vector of its entry only, and a hard delete removes the vector but not the
node: `Lost` are the nodes out of its reach, there from the beginning or by
`DeleteVector`.  `MCApiGates` looks at one part per behaviour.

### SemanticQueries

One call of an endpoint over a graph in which events are stored, vanish or become
unreadable between any two of its queries (`Store`, `Vanish`, `Outage`).  `Resolve`
looks a name up and may find two; `Drop` is a request that gets
lost or is answered with an error, `Raise` a call without any subject.
`FindMentions`, `FindSaid`, `FindRecent` and `FindTimeline` are the first query of
each endpoint, `Again` the wider second one of a profile without events, `Retrieve`
the retrieval of a timeline by text; `ReadIds`, `Meet`, `Collect`, `Quote`, `Relate` read what the
answer is made of; `CountAll` and `ReadPage` are the walk through the pages.  A query
that fails, or that the store's breaker refuses, returns nothing, as in the code;
`added`, `removed` and `dark` remember what happened meanwhile, for the properties.

### KnowledgeGraph

Every statement of `GraphService.upsert` and of the purges is a step of its own,
because it commits on its own.  Two pods, each with one upsert and one purge; a
purge blocks its pod (the driver is called from the event loop), an upsert does not
(it runs in a thread).  Edge statements count what they wrote and raise when nodes
are missing (`Complete`), which ends the statements, trips the breaker, and lets the
vectors follow all the same.  `Slight` are the edges that an upsert drops without an error:
below the confidence threshold or beyond the number of relations a node may have
(`graph_service.py:111`), or of a type whose ends have no known label
(`neo4j_store.py:622`).  An event lapses (`Lapse`) when its time to live is over, and is then
not shown; its node stays.  Explanations are cached in each pod, also the `{}` that a
failed query returns (`ExplainFails`).  `tied`, `drawn`, `raced`, `purged`, `intact` and
`asOf` are history.  `BuildFirstMeetings` has neither the limit of 5000 pairs nor an error
(which changes nothing).

### GraphUpkeep

The graph of a tenant after its upserts.  `Writes` are upserts of nodes, publications
and hidings; `Aging` lets nodes expire.  A build is two or more steps: `Relations`
reads the events (as many rows as `RowLimit`), `Slicing` reads the segments and writes
the slices, and `Building` writes the edges, one type a statement, each committed on its
own, while other pods go on; or it fails and leaves the rest out.  `Exporting` is
`export_srot`: pages of subjects after a cursor.  `Labels` is the table of the upserts
that says which kinds an edge of each type joins; every edge of the model is of it.
`CleanupExpired` is what the endpoint of that name does.  The reads (the views of
events, places, entities and time slices) are operators over a state, since each is
one query; `ReadsAgree` compares them.

### Retrieval

Hits of the five routes come in any number and order within a route, and are
merged route after route as `touch` and `_merge_into` do, by canonical id.  The
features of the base score are any numbers; rerank, normalisation, modes,
selection, explanation of the seeds and the final sort are modelled as they are,
with scores as integers of which `Unit` is 1.0.

## 3. Runs

| Run | Question | Bounds, and why they are enough |
|---|---|---|
| `ingest_core` | Does one process keep every promise of the pipeline under crashes, timeouts and store errors, and is it, seen by commits, what `IngestCommits` says? | two commits of one session and tenant, two workers, one restart, one timeout, one fault: every pair of a failure with another runner, or with recovery, occurs |
| `ingest_pods` | Do the claim and the deletion hold between two pods on PostgreSQL? | two pods, a queue of one place (refusals), text-less resubmissions (a commit may have two jobs), a clear, a timeout and a fault |
| `ingest_live` | Does every accepted job finish, and every stop? Is the usage log an outbox, and does usage arrive? | jobs: two workers behind one global and one tenant slot, two timeouts with one retry (both the retry and the giving up happen), one stop or crash, three requests; usage: two calls made up to twice, batches of two, two faults, one restart: a call can be replaced before, in and after a post; a lost answer, an error of the table, a crash and a stop occur in every place |
| `session_core` | Does the saga converge through failures? | three calls (fail, retry, overwrite), two facts (so that a version can be shorter), one event, one failure of each kind in any place |
| `memory_entries` | Do three stores and two caches stay together? Do builds, reads and export of a graph agree? | entries: two ids, one of each kind, two texts, batches of two (duplicates in a batch), two callers, three calls, one fault or one restart (`MCOneMishap`); upkeep: three events (two in the export), two segments, two entities and one node of each other kind, three times and one width besides the hour (of two units), four rows and three edges a page (so that both limits cut), four operations (at most one in the export), at most two nodes changed at a time in the reads (`MCFew`) |
| `api_gates` | Do the gates hold what they are configured to? Are answers and page walks whole? What may a search answer while the store changes? | two tenants, six calls in five units of time, two thirds of a token per unit (the bucket fills and runs dry); three queries around a threshold of two; two clears, two entries of each kind, with a vector or without, four calls, two faults; of the queries three events of two topics and three entities, one with a fixed date and the others before, with or after it or undated, an ambiguous and a unique name, two changes, limits of two (so that more may match than is returned), pages of one; of the searches two at a time over two entries (one with two vectors), a cache of one place (so that it evicts), a lifetime and a cooldown of one unit within two, two changes, two failures (the breaker opens); weights change, in one of their parts, or requests fail, not both, and each case has the request it is about (`MCSearch`) |
| `knowledge_graph` | Can half-done upserts and purges be repeated, and do answers agree? Is a property's history one line, whatever the order? | two sources with an event in common, two pods; an edge that is dropped and an event that lapses; three operations with two failures for repair, two with explanations in between; of the timeline two values, three instants, three nodes (a state, one that follows, and one pending or a third state), one approval in progress, a purge of two nodes a batch (`MCHalf`, `MCOneResolved`) |
| `retrieval` | Does the merge keep support, and the answer follow the reranker? Is a session in the graph what was found in it? Do the state tools answer what they are asked? | question: three hits of five routes on an event of one and one of two turns, two base scores, every answer of a reranker; dialog: three turns, three markings, two calls of which one may fail, segments of two turns, one supporting turn an event, up to two events and one fact (`MCOnly`, `MCAfter`, `MCFew`), what the graph does not carry out of one event at most and of a last call of none (`MCLost`); answers: three nodes of a timeline, one caller, six questions; words: two callers, three asks, two deployments or restarts, two vocabularies and an unreadable one, one over the server's limit of two |
| `time_since` | violated: time-since tells of the last mention | the queries of `api_gates` |
| `overwrite` | violated: facts of an overwritten session are traceable | the dialogs of `retrieval` |
| `two_lists` | violated: a search joins modalities and users by "and" | one search of two modalities in a user's scope over two entries |
| `usage_delivery` | violated: the flush delivers what was appended | one call, one error of the table |

The counters (`used`, `calls`, `faults`, ...) and constants called `Max...` are
bounds of the checks, not of the code; the proofs hold for all of them.  Deadlock is
not checked because a bounded system stops when its bounds are used up; that work
in progress does not get stuck is what `AcceptedSettles`, `StopCompletes` and
`UsageArrives` say.

The commits in `ingest_core` are symmetric, and so are calls in the session run,
callers of the entries and searchers: they are only compared.  Values of the timeline
are too, and there the first node of a run has a fixed one (`first`, `v1`).  The runs
with liveness, `ingest_live` and `usage_delivery`, use no symmetry.

Some properties are conjunctions of named parts: `SessionIsCurrent` (`NoStaleFacts`,
`StoredOnce`), `EntriesAreKept` (`GraphFollows`, `NothingLost`), `CacheIsHonest`
(`BoundedStaleness`, `EmptyHasReason`), `ExplanationsAgree` (`PurgedIsUnknown`,
`MeetingsAgree`), `SessionIsFaithful` (`GraphIsFaithful`, `LifetimesAreOwn`) and
`AnswerIsSupported` (`SupportIsKept`, `AnswerFollows`).

### Fairness

`FairSpec` of `IngestPipeline` assumes weak fairness of each worker's, handler's
and pod's next step, of `RetryDue`, of a stop in progress and of statements whose
caller was cancelled.  This is what the code runs on: the event loop gives
every ready coroutine its turn, timers fire, threads of the pool finish (the
event loop joins them), and a process that is down is started again by its
supervisor.  The semaphores of asyncio wake their waiters
in order; with the bounded number of jobs of the run nobody can be overtaken for ever,
so weak fairness of each worker suffices.  Requests, timeouts, faults, crashes and the
decision to stop are not fair: they need not happen.

`WalFairness` of `UsageWal` is weak fairness of the flush loop (it wakes every few
seconds, as long as it has not ended with an error; nothing is assumed of such a
process), of the sink's answer and its confirmation (a post has a timeout), of the end
of a stop (the grace period is bounded) and of a restart. Refusals are faults, of which
there are finitely many: a sink that refuses the same events for ever keeps them, and
what is behind them, from arriving (section 5). `UsageArrives` leaves out the behaviours
in which the loop has ended with an error and nobody starts the process again;
`DeliveryGuaranteed` does not, and is violated.

### What was found

`time_since` expects a violation of what the API's reference says.  Of an entity
without a topic, time-since takes the last of the events that `list_events` returns
(`server.py:5821`), but these are sorted by how much they have faded, the freshest
first (`graph_service.py:237`): the answer is the earlier of two equally important
mentions, while `docs/api_reference.md:272` says "exactly when an entity/topic was last
observed".

`overwrite` expects a violation of what two comments say.  A call that overwrites a
session MERGEs its facts under the ids of the version before, whose edges stay, and then
deletes every fact with an edge to an event that is no longer there
(`neo4j_store.py:4250`, called from `session_write.py:891`): facts of its own, which the
vectors and the marker still name.  `dialog_tkg_graph_v1.py:714` says that "extracted
facts must be traceable back to specific turns/events", and `graph_service.py:1018`
speaks of "old events (and derived knowledge)".

`two_lists` expects a violation of what a comment says.  `_build_filter` puts several
modalities (`qdrant_store.py:242`) and any of several users (`qdrant_store.py:291`) into
one list `should`, of which one match is enough, while `qdrant_store.py:235` says
"modality (AND across dimensions, OR within dimension)": a search for two modalities in a
user's scope answers with an entry of one of the modalities that belongs to somebody else.
The shipped `default_modalities` are three (`memory.config.yaml:198`).

`usage_delivery` expects a violation of what a comment says.  `flush_once` reads the table
outside of its `try` (`usage_wal.py:161`), and its handler writes to it
(`usage_wal.py:182`); `run_flush_loop` catches nothing and its task is created once
(`server.py:2348`).  One SQLite error ends the loop: what is appended later, and what was
there, waits for the next process, while `server.py:1883` says "upstream delivery is
guaranteed by WAL flush".

## 4. Proofs

All theorems are for arbitrary constants within the `ASSUME`s of the modules
(`StoreAssumption`, `PipelineAssumption`, `BoundAssumption`, `SessionAssumption`,
`TimelineAssumption`, `ToolsAssumption`, `WalAssumption`, `GateAssumption`,
`GraphAssumption`, `EntryAssumption`, `UpkeepAssumption`, `SearchAssumption`,
`QueryAssumption`, `DialogAssumption`, `RetrievalAssumption`), which TLC evaluates in the
runs.  What a theorem assumes besides is said with it here and stands in its statement.
Every invariant and every action property of the passing runs is the conclusion of a theorem, and
so are both refinements; liveness is left to TLC.

Proving found a fault of the models: some definitions (the id of a hit's candidate in
`Retrieval`, how many rows a quote asks for in `SemanticQueries`) had a CASE with arms
that overlap.  TLC takes the first arm that is true, TLA+ leaves the choice open, and no
theorem could be about the order the code has.  No arms overlap any more.

### Ingest

* `TypeCorrect` (`Spec => []TypeOK`).  Inductive invariant `TypeInv`: the types,
  and `JobsInHand` (a worker away from the queue and a request in progress have a
  job), without which `row[wjob[w]]` says nothing.
* `DeletedForGood` (`Spec => DeletedStaysDeleted` when `Backend = "pg"`): from
  `TypeInv`, one step per action; the only action that could bring a row back is a
  landing write, and `Landed` of PostgreSQL answers `Absent` for an absent row.  On
  SQLite the theorem would be false (section 5).
* `OneRunner` (`Spec => []SingleRunner`) under `OneProcess \/ NoneRestarts`: one
  server process, or any number that all started before the first job; a process
  that starts later breaks it (section 5).  A claim needs a RECEIVED job, so the
  argument is that a job in somebody's hands is not RECEIVED.  What can make it
  RECEIVED is a retry write by its holder, such a write orphaned when its process
  stops, or recovery.  Hence the invariant: `TypeInv`, `MemoryInv` (what a pod that
  is not running has in memory: nothing; which requests are in progress; which
  listed jobs recovery has still to look at, and that they are nowhere else in the
  pod) and `ClaimInv` (`Exclusive`, `ReleasesOK`: a pending write that makes a job
  RECEIVED belongs to its holder or to a pod whose workers are gone, `OneWrite`).
* `OneRunACommit` (`Spec => []CommitRunsOnce`), when besides every submission has text
  (`Texts \subseteq {TRUE}`) and nothing is cleared (`MaxClears = 0`): a job without
  text is replaced by the next submission and a cleared one forgotten while a worker may
  still run it.  `TextInv` adds that a commit has one row, and that rows and pending
  writes have text; `OneRunner` does the rest.
* `CompletedStays` (`Spec => CompletedIsFinal`), when besides the queue has no limit
  (`QueueMax = 0`; a refusal overwrites the status), nothing is cleared and no timeout
  expires inside a store call (`NoCallTimesOut`; a statement whose caller is gone may
  land after the job was completed by somebody else).  `FinalInv` says of every pending
  write who waits for it and which status its place in the runner gives it (`WritesFit`),
  that an engaged worker's job is not yet COMPLETED, and that what recovery listed is as
  it listed it.
* `AcceptedIsKept` (`Spec => []AcceptedIsAttended`) when `QueueMax = 0` and
  `NoCallTimesOut`.  `AttendInv` says that a running job has an engaged worker or is
  about to be recovered, that an accepted RECEIVED job is in a queue, a delayed task, a
  worker's or a request's hands or on a recovery's list, and that an idle worker has no
  job.
* `PromiseIsKept` (`Spec => ImplementsCommits`) under the conditions of `CompletedStays`
  and with text in every submission, so that the index never drops a job.  `PhaseInv` adds
  to the invariants above that the job of an engaged worker is running (`EngagedRuns`),
  and so is that of a write that a process has left behind, for which nobody is engaged
  any more (`LeftOpen`); and that a copy which a run writes on its way says that the job
  runs (`CopiesRun`), so that its landing moves no phase.  Then each step of the pipeline
  has one of five shapes (`Lets`, `Submits`, `Claims`, `Concludes`, `Overdues`;
  `ShapeOfNext`, action by action), and each shape is a step of `IngestCommits`
  (`ShapeImplements`).  That nobody is on a commit that is claimed is `OneRunACommit`
  again, that no step leads back from an end is `CompletedStays` for both ends.

The conditions of these last four theorems are those of `IngestCore.cfg`.

### Session write

* `SessionTypes` (`Spec => []TypeOK`), for calls that exclude each other or not.
  The others are under `Exclusive`.
* `CompletedBacked` and `OverwriteKeeps`.  The invariant adds `Alone` (one active call)
  and `Progress`, which says for each place of the call what it has done so far: from
  the extraction on the marker is not `completed` unless a failure was swallowed; after
  the write its facts have its text, after the publication they are shown; at the
  deletion the next index to delete is above its own.  `CompletedIsBacked` then survives
  `Finish`, the only step that writes `completed`, and `OverwriteKeepsData` survives
  `DeleteStale`.
* `SessionStaysCurrent` (`Spec => []SessionIsCurrent`): `CleanFacts` says what facts
  there are while no failure was swallowed, in terms of the marker's list between two
  calls and of the place of the call during one (`Placed`, `Listed`); `Once` that who
  goes on to store finds a marker that does not say completed.
* `OkShowsAll` (`Spec => OkIsVisible`): `Posted` says what the call has written and
  published at each place, which no other call can undo (`Apart`).

### Dialogs in the graph

In `RetrievalProofs`.  `DialogAssumption` says of the inputs that times are numbers or
`Absent`, which is no number, and that turns without text are not marked, because the
language model that marks is not shown them.

* `DialogTypes` (`DialogSpec => []DialogTypeOK`).
* `AnOverwriteReplaces` (`DialogSpec => []OverwriteReplaces`) and `ASessionIsFaithful`
  (`DialogSpec => []SessionIsFaithful`), of calls for which the graph has done what it was
  told, from `DialogInv`.  It says what a call knows at
  each of its places (`Begun`: its turns are the kept ones, in a row; `Extracted`: what
  was found rests on those turns, and each fact has the marks of its own), that the graph
  of a first call is nothing before the upsert and exactly the request after it, that a
  purge which is left has nothing to add, and all this of the last call as well.
* What is written is made by lists that the code fills in loops.  No induction is needed:
  each is defined by ranks, so `Row` (the place of an element is the number of those
  before it) and the lemmas on it (`InARow`, `PlaceIsCount`) say that it has every element
  once and in order.  `EventsRest` and `FactsRest` then read the turns back from the
  request, `ChainInOrder` that the edges between events, each from one to the next
  (`Successive`, `LinksOfARow`), are one chain in the order of the events, `IndexAgrees`
  that an entry of the index names the events of its turn.

### State timeline and state tools

* `TimelineTypes`, `OneTimeline`, `PastIsKept`, `UpdatesKept`, with no further
  assumption.  `TimelineOK` is not inductive: it does not say that the current state
  is the youngest (`Youngest`), that ids not yet used have no node and that the
  CURRENT edge never dangles, also during a purge (`Made`), nor that an approval in
  progress holds a well-formed update (`Reviewed`).  One lemma per outcome of
  `Apply` shows that the graph part survives it.  `PastIsKept` follows from the same
  invariant: closing the current state moves its end from for ever to `t - 1`, which
  no earlier instant sees.  `UpdatesKept` needs that every step but a batch of a
  purge leaves each node's value and time (`Persists`).
* Every step of `ToolsSpec` is a step of the timeline or leaves it alone, so the
  invariant above holds of it, and the theorems about the tools start from there.
  `ReadsOfStatesAgree`: that a change is a change of the value (`Varying`) and that what
  was told is on the timeline or on a list (`Listed`) are further invariants; the rest
  are lemmas about `Pages`, the result of an ordered and limited query, applied to the
  timeline's order.
* `CallsAskAsMeant`: `ServerInv` says that what the server offers and what the runtime
  knows are among the vocabularies `offered` since the runtime began, `CallsInv` that a
  call in progress has the present offer among its own (`Aware`) and that its property
  and its outcome come from one it may use (`Meant`, `Sound`).
* `NobodyGoesBack`: `LatestInv`, that nobody was told of a state younger than the current
  one; it survives an update because the next current state begins no earlier.
* `ToolsTypes` (`ToolsSpec => []ToolsTypeOK`).

### Memory entries

* `MemoryTypes` (`MemorySpec => []MemoryTypeOK`).
* `EntriesStayTogether` (`MemorySpec => []EntriesAreKept`) and `RollbacksRestore`
  (`MemorySpec => RollbackRestores`), from `EntriesInv`.  Both properties are about what
  happens when nobody interfered, and say so with the history (`clean`, `calm`); the
  invariant is what makes that record sufficient.  `CallOK(c)` says of a clean call and
  each entry it wants to write: no other clean call is at it (`Apart`); its point is what
  the call has put there, once it has (`Placed`); what was promised of the entry is in
  what the call will write (`Keeps`), and what it read is what is stored (`Based`); the
  rows of the log hold the snapshot it took (`Logs`), and a rollback holds what was there
  before (`Undoes`).  `EntryOK(i)` says of an entry between whose stores nobody is: the
  node follows the point, the point has what was promised, the rows have what the last
  change replaced.  Each is needed for the others: the rows for what a rollback reads,
  what it reads for what it writes.

### Graph upkeep

The second half of `MemoryEntriesProofs`.  `UpkeepAssumption` says that the kinds of nodes
are disjoint, that events, segments and places are finitely many, and that upserts bring
only edges of `Labels`.

* `UpkeepKeepsTypes` (`UpkeepSpec => []UpkeepTypeOK`): among the types is that every edge,
  written or still to be written by a build, joins kinds that its label allows.
* `ExportIsComplete` (`UpkeepSpec => []ExportMissesOnlyCut`), with `ExportInv`: the edges
  of the beginning are still there (`EdgesGrow`), and a page leaves out only what comes
  after its last subject or shares it (`PageIs`).
* `SlicesCoverBegin` (`UpkeepSpec => []CoveredBeginInside`) under `OneWidth`: the builds
  ask for one width.  With two, the window of a slice is rewritten under the edges of the
  other (section 5).  `CoversOK` says it of the edges a build has yet to write as well
  (`Coming`), which is what makes it inductive: upserts come between the two statements.
  `SlicesOK` adds that a slice has the window of its number.
* `LinksFollowTime` (`UpkeepSpec => []LinksKeepTime`) has a part for each conjunct.
  `TimesOK` is that of the times, for `Coming` edges; it rests on the order of the rows
  (`Sorted`).  `CausesOK` says what each statement that is left needs from those before it.
  `LinkedOK` says that after the read of all events, what is written and what comes next
  links those adjacent in time: a row of each was read (`EventHasRow`), the rows are in
  order, so between two adjacent times there is a place where the one ends and the other
  begins (`Crossing`, by the least element of a set of numbers), and the two rows there
  are linked (`OrderLinksAll`); any write of an event clears the record (`EventsSteps`).
* `ReadsAlwaysAgree` (`UpkeepSpec => []ReadsAgree`) follows from the types alone: the `...Has`
  lemmas say what each answer contains, the labels and the disjoint kinds rule out every
  other way for a node to come into it.

### Memory search

* `SearchKeepsTypes` (`SearchSpec => []SearchTypeOK`): the cache stays within its size and
  has no key twice, by lemmas about each of its operations (`Removal`, `Eviction`,
  `Replacement`, `Extension`).
* `AnswersMatch`, `RankedRight` and `CacheStaysHonest`, from one invariant.  Searches
  meet in the cache only, and what one has put there must be enough for the next, with
  another request and at another time.  `Vouched` is what is known of a result: its hits
  pass the filter of its key, it is ranked with the blend of its key unless weights
  changed, its boosts were in force when it was put there or later, its hits were there
  when its search began or later, and if it is empty, a failure explains what any attempt
  of the request it was found for has left out.  It is the same of an item and of an
  answer, and the `...Ages` lemmas show that no step makes it false.  `SearchOK` says of a
  search in progress what it has established so far, collection by collection.
* `AnswersMatch` has no hypothesis: with two lists of alternatives (`TwoLists`) it claims
  the domain, the run and one of the two dimensions only, which is all that the filter
  ensures.  `RankedRight` has none either; its boosts may be older than the answer by a
  lifetime of the cache.
* The hypothesis of `CacheStaysHonest` is `OneOrder`: an empty result of one request
  answers another one that comes upon it before its own attempts are over, and this hides
  nothing if the first has tried what the second still would.  The code makes every order
  of the scope that is asked for and one fallback list (`service.py:949`), for which
  `RequestsAssumption` of `MCMemorySearch` has TLC compare all pairs of requests.

### Event graph

* `GraphTypes` (`GraphSpec => []GraphTypeOK`, of which that no edge lacks an end is
  a part).
* `PurgeIsResumable` (`GraphSpec => []PurgeCanResume`).  An upsert and a purge interleave
  statement by statement; the one that begins later finds the other, and if their events
  meet, these are in `raced` (`Apart`), which the property excludes.  `TiesHold` and
  `DrawnHold` say what the edges of the other events are while statements are left.
* `CleanUpsertIsWhole` (`GraphSpec => []UpsertIsWhole`) when every request has events.
  (The upsert of an empty request and a purge of its source do not meet in any event, and
  the purge may take the segment of the upsert.)  `CleanSoFar` says that an upsert without
  error has written what its statements so far name (`WrittenSoFar`; the edges in `Slight` it
  does not name), `IntactHold` that what ended without error is still whole, `Gate` that
  events below the importance threshold are never there.
* `ExplanationsStayTrue` (`GraphSpec => []ExplanationsAgree`): what a pod has cached was
  there when it asked (`Known`), and an answer of no event since purged (`Answered`).  That
  edge and explanation agree rests on `asOf`, which every write, deletion and lapse of an
  event empties, and which a failed query and an open breaker do not enter.

### Retrieval

Also in `RetrievalProofs`, for any events, turns, scores, weights and answers of a
reranker.  `RetrievalAssumption`: each turn is of one event; `None` is no datum; scores
are whole parts of `Unit`, which every difference of two of them divides, so that the
normalisation is exact; the two weights are not 0, because the code takes a 0 for "not
given" and uses its default.

* `RetrievalTypes` (`RetrievalSpec => []RetrievalTypeOK`).
* `AnAnswerIsSupported` (`RetrievalSpec => []AnswerIsSupported`).  For the half about the
  pool, `PoolInv`: every candidate is under an id of one event and has only scores that
  hits of this event have (`Owned`), and every hit is in a candidate of its event with no
  less than its score (`Housed`).  `byEvent` and `byTurn` are part of it: a hit is put
  under what they name, so they must name ids of the right event, whichever of the two a
  hit has and in whatever order the routes come.  For the half about the answer,
  `Judged`: whoever judged last, the reranker or the base scores, is followed both by the
  order of the rows and by the scores of the selection.  Only the two together survive
  what comes after, since the explanation breaks ties of the one by the other.
* The sorts are by rank (`SortedIs`: a place is the number of those that come before), the
  part behind the first `K` keeps its order (`TailKeeps`), and a row that was in front
  stays there under both (`InFront`).  That normalising keeps which of two scores is the
  higher, also after the division, is `NormalizedIs`.

### Usage WAL and gates

* `KeptUsage`, `ConfirmedOnce` and `LogIsAnOutbox`, from the invariant of
  `UsageWalProofs`: types (`WalTypeOK`), only events that were made are anywhere
  (`OnlyMade`), a row that is still there is the one that was posted unless its call
  was appended again (`SameRow`), no row is younger than the clock (`Ordered`), and
  the events of a post that was taken are with the sink.
  `LogIsAnOutbox` is the refinement: `WalInit` implies the outbox's initial state,
  and one step each shows that appending, taking and confirming are steps of the
  outbox and everything else leaves its state alone.
* `RateIsBounded`.  That a bucket is within its burst is inductive and says nothing
  about intervals.  The invariant (`Covered`) does: for any admitted call, what was
  admitted from it on plus what is left in the bucket is at most the burst and what
  the rate has added since.  A refusal refills the bucket too, and keeps this.
* `BreakerIsRight`: the invariant ties the counter to the history, `failures =
  streak % Threshold`, and the lemmas about remainders make a success, a failure and
  the failure that opens the breaker cases of it.
* `OneClear` and `WipesAll`: `WipeInv` says of a clear with `n` steps done what holds by
  then (`Level(n)`): before the vectors are deleted every legacy node that the claim is
  about has one, after the listing the ids have them, then vectors, jobs, the tenant's
  nodes and the legacy nodes are gone one after the other, as far as they were there
  when the clear began. A step that fails makes the clear partial, and the legacy nodes
  that are left without a vector are `Lost`, which is what the claim excludes.
* `GatesTypes`, from all of the above.

### Semantic queries

Also in `ApiGatesProofs`, for any events, entities, topics and names, any dates and
limits, and whatever is stored, removed or out of reach between two queries of a call.

* `QueryKeepsTypes`: types, and of each stage what the next takes for granted (a walk is
  of entities or topics, only a query with both an entity and a topic comes to `meet`).
* `AnswersAreWhole`.  The claim is about a whole call, its queries about one moment each.
  What joins them: `Always`, the events that were there all the time, only shrinks and
  `Ever`, those there at some time, only grows.  So if no more matched than the limit by
  the end, no more did before, and each query returned all it should have.  `AnswerInv`
  says of each stage what that gives: at `meet` the rows are of the topic, in the order
  of their dates, and none that was there all the time is missing; while quotes are
  collected, the event of a missing quote is still among the rows; a call that ended has
  the answer the property asks for.  The last date of rows in order is the latest
  (`LastIsLatest`), and the rows that meet keep their order.
* `WalksMissNothing`.  The order changes under a walk, so where it was says little about
  what it showed.  The invariant (`WalkInv`) counts instead: an entry that is not shown
  yet has at least as many above it as the walk has passed.  A page keeps this because
  without ties an entry's place is the number of those above it, plus one
  (`PlaceInOrder`).  A new mention keeps it because what stood above still does:
  an entry that ends no lower than it began never sank on the way (`StandingGrows`).
  That needs an argument: an undated entry comes first, and the first date it gets
  would lower it for good.

`KeptUsage`, `ConfirmedOnce`, `OneClear` and what the type theorems state are not among
the properties of the runs: they hold in all of them and are proved.  To have TLC check
one, add it to the INVARIANTs of the run.

### Only model-checked

* Every liveness property (`AcceptedSettles`, `StopCompletes`, `UsageArrives`): what is
  to happen rests on fairness, hence on ENABLED, which is out of the prover's reach.
* What the theorems exclude by their hypotheses, within the bounds of the runs: the
  pipeline with a bounded queue, clears and submissions without text (`ingest_pods`).

## 5. Limits of what the code promises

These follow from the code.  They are conditions of properties, or what the models leave
to happen, rather than findings with a run of their own: most contradict no doc or
comment, and where one does say otherwise it is quoted.

Ingest:

* A pod that starts later recovers the jobs that other pods are running: nothing in
  a row says who runs it (`ingest_executor.py:224`).  `SingleRunner` is checked and
  proved without such a start.
* A refused resubmission writes ENQUEUE_FAILED over whatever status the job has
  (`server.py:3063`): `CompletedIsFinal` is checked with an unbounded queue.
* An `update_status` that has read its row puts a cleared job back on SQLite
  (`async_ingest_job_store.py:528`): `DeletedStaysDeleted` is for PostgreSQL.
* With `MEMORY_INGEST_EXECUTOR_QUEUE_MAX` set, a delayed enqueue or a recovered
  job that meets a full queue is dropped and waits for the next start.
  `AcceptedIsAttended` and `AcceptedSettles` are checked with the default, no bound.
* A store error outside stage 3's `try` reaches the worker loop and the job keeps
  its status until a restart: `AcceptedIsAttended` excludes executions with one.
* The retry budget counts stage-3 attempts only: a job whose stage 2 always times out
  is retried without end (`ingest_executor.py:160`).
* A resubmission whose stored turns carry no text drops the indexed job, even a
  running one: `CommitRunsOnce` is checked for turns with text.
* With `wait=true` a request whose execution is refused has stored its job all the
  same (`server.py:3057`).

Session write:

* Two commits of one session pass the marker check together and both store
  (`session_write.py:648`): `SessionIsCurrent` is for calls that exclude each other.
* Facts of a call without an extractor are not in the marker's list and stay after
  an overwrite (`session_write.py:663`).
* The graph store swallows its errors and skips writes while its breaker is open, so
  the `require` policy sees no failure (`neo4j_store.py:658`), and the vectors that
  `graph_service.py:271` writes "ONLY after Neo4j succeeds", so that none are orphaned, are
  written all the same.
* `publish_entries` swallows failures: ok may then mean hidden.  `OkIsVisible`
  holds when nothing was swallowed.
* `get` falls back to the process-local cache, which a clear does not evict: a
  session that was cleared can still be skipped as completed.
* An overwrite writes the new version hidden over the shown one: when it fails
  before the publication, facts that were visible are hidden until a later call.
* A request of a cancelled call may still be executed by Qdrant after the retry's
  own (`qdrant_store.py:171`); the module lets it arrive before.

State timeline:

* A state ends one millisecond before the next begins and the
  query wants `valid_to > t`, so the last millisecond has no answer
  (`StateReadsAgree` says exactly this).
* Approve and reject do not look at the status of a pending state: it can be
  approved twice, or rejected and approved; the timeline stays one line.
* An approval in progress over a clear applies what it read before the clear.
* A purge that fails half way may leave open states that no StateKey points at;
  the next update then opens a second one.  The timeline's properties are about a
  graph without a half-done purge.

Memory service:

* Qdrant writes hash an id that is no UUID, reads, publications and deletions use the
  id as it is: such entries are found by search only.
* The cache of `get` is never evicted.  The search cache is not invalidated by
  writes, deletions and clears, only by its lifetime; its key has neither
  `restrict_to_scope` nor `allow_cross_scope`, nor of the weights the boosts and those of
  the modalities, and a hit changes the cached trace.
* An attempt that comes upon an empty result in the cache ends the search: no later
  attempt is made.  While the fallback order, which can be changed at run time, is the
  same for all requests, the search that left the result has made them.
* A duplicate is merged into a deleted or hidden entry as into any other; two
  drafts of a batch that are merged into one entry keep the second's content.
* A second update replaces the snapshot of the first, and a skipped one erases it;
  a hard deletion cannot be rolled back; searches do not filter `is_deleted`.
* Neo4j's `delete_node` does nothing; a relation type that is not allowed raises
  after three tries and counts as three failures of the graph breaker; weights of
  relations grow with every repetition.

Usage WAL:

* A batch full of events that the sink refuses for ever blocks all others.
* One error of the table ends the flush loop of the process (section 3).
* An event that is appended again while it is in flight is deleted with the answer,
  unsent; a retried job's event replaces the first run's.
* Events of jobs that end in the grace period wait for the next process.

Gates:

* A clear looks for legacy nodes by the vectors of their entries: those of an entry that
  was hard-deleted (`delete_node` does nothing), and those of a clear that has deleted the
  vectors and failed at the legacy purge, are never found again;
  `docs/api_reference.md:278` calls the clear a "Total WIPE operation".  `WipeIsTotal` is
  about all other nodes.
* The lock, the buckets and the breakers are per process.  `_buckets` never shrinks.
* A late success closes an open breaker; an answer 4xx counts as a success; a
  cancelled query counts for nothing.  A burst of 0 refuses everything.
* The rounding of the bucket's floating point is not modelled.

Event graph:

* With an open breaker, or a swallowed error, vectors are written without their
  graph.  Edges of events that were gated away make the edge statement raise at
  every retry, which opens the breaker.
* An upsert over a purge of the same source leaves nodes without their event; a
  purge leaves the vectors; the purge and upserts of an overwrite do not clear the
  explanations, and "not found" of an open breaker or a failed query
  (`neo4j_store.py:2777`) is cached too, for 600 s, beside an edge that says otherwise:
  `MeetingsAgree` leaves these answers out.  An explanation outlives the event's time to live.
* An edge that the gate drops is missing without an error, and an event whose
  SUMMARIZES edge was dropped is not found by a purge of its source.
* Events without a date count as the earliest; a FIRST_MEET edge keeps its old
  time and place (`coalesce`) and stays when no meeting is left.
* The upsert of a request without events that overlaps a `purge_source` of the same
  source may lose its segment although it met no error.

Graph upkeep:

* `cleanup_expired` deletes nothing: its query has `{seconds: ...}` in it and is given
  to `str.format`, which raises (`neo4j_store.py:3950`); the error is logged and the
  endpoint answers ok (`server.py:4164`).
* The id of a time slice is the number of its window without its width
  (`neo4j_store.py:3695`): with two values of `window_seconds` a slice covers segments
  that do not begin in it.  `CoveredBeginInside` is checked with one.  Rebuilt slices are
  published and without an end of life, whatever was set before; they need not cover the
  events of their segments when timestamps are not in order.
* `build_event_relations` leaves old NEXT_EVENT edges when an event comes in between;
  an event with two segments gives an edge to itself; its LIMIT counts duplicated and
  undated rows; expired events count.  `build_cooccurs_from_timeslices` adds its weight
  at every run (`neo4j_store.py:3809`).
* `export_srot` goes on after the last subject of a page, of which it may have returned
  a part, and answers [] for an error.
* `touch` of a search never reaches the graph (`service.py:1660`); one with an extension
  may shorten a life.  The detail of an event names expired neighbours, the neighbourhood
  of one goes through hidden ones, and the facts of an entity are given without asking
  whether the entity is visible.
* Confirming an equivalence again adds its weight again; approving works after a
  rejection, and when an entity is missing; an upsert of an approved pair makes it
  pending again.  The TTL job works only on stores with `dump()`.

Dialog graph:

* Marks are applied to facts by the number in a turn's id (`session_write.py:283`), which
  counts the turns that were kept: after a dropped turn a fact may get the mark of
  another.  `LifetimesAreOwn` is about facts of turns that kept their number.
* A fact merged from several marks may be called permanent and have a time to live.
* The graph's id of a fact uses a sample id the language model gives, the vector's
  the id of the session.
* After an overwrite, events whose ids are used again keep old edges to turns and
  entities; utterances and index entries of turns that are no longer there stay.  A retry
  without overwrite MERGEs onto what a failed call left.  `GraphIsFaithful` is about a
  session written for the first time.
* An upsert or a purge that the graph store has swallowed (`neo4j_store.py:658`,
  `neo4j_store.py:4270`) leaves the graph without what the call found, or with what it
  replaced, while the marker and the vectors say that it is there: `GraphIsFaithful`,
  `OverwriteReplaces` and `FactsAreTraceable` are about calls without such a loss.

Semantic queries:

* time-since, profiles and quotes work from the earliest events up to their limit
  (`AnswerIsWhole` is for as many as the limit).  time-since of an entity alone ignores
  the range, and tells of the earliest (section 3); quotes of one apply it after they
  collected.  time-since of both an entity and a topic looks at the `max(limit, 200)`
  earliest events of the entity (`server.py:5815`): with more of them it misses later ones.
* time-since of a name nobody has and without a topic becomes a retrieval of an empty
  text, which raises (`retrieval.py:991`): an answer 500 and a failure for the breaker.
  With a topic the name is dropped silently.  The agent's tools take an error in the
  answer of resolve-entity for "not found".
* A match by CONTAINS and two hits of the full-text index are always ambiguous.
* A timeline by text filters by tags and keywords too; `force_retrieval` has no effect on
  quotes and time-since; the profile of an id that nobody has says found.
* The count and each page of a walk are queries of their own: with writes in between
  entities may be missed or repeated, equals may change places, undated ones come first
  in descending order.  An error discards the pages before it.
* An outage of the store is an answer without content and without error, which is cached
  for 600 s (`graph_service.py:1179`).

State tools:

* A failure of the store is answered like a property without states.
* Of states that began at the same time, time-since takes any.
* An alias only works if its name is in the vocabulary (`工作状态` stands for
  `work_status`, the vocabulary has `job_status`); of more than 200 properties the server
  offers the first 200.
* A vocabulary file that cannot be read is an empty vocabulary for the life of the
  process; the runtime's copy does not expire, and a slow answer may replace a newer one
  that was asked for with a refresh.
* The state tools are not enabled by default: `/memory/agentic/query` offers them
  only where they are listed.

Retrieval:

* A selection score of exactly 0.0 counts as none, and candidates that were not
  selected keep the scale of the preselection: the final order mixes the two.
* In fused mode a reranker without an answer changes the order all the same.
* An utterance that is indexed without its event is a candidate of its own, next
  to the event's.

Vector search:

* With users of whom any will do and several modalities, the filter has one list of
  alternatives for both (section 3): an entry of the right modality is found whoever it
  belongs to.  The same holds of any two of the dimensions with alternatives; the model has
  these two.
* An answer 4xx, and one that cannot be read, are a success to the breaker, and an empty
  collection to the search.
* A search that finds nothing above the configured threshold may ask once more without it
  (`service.py:1101`); scores being left out, this is the same attempt here.

## 6. Not modelled, and the plan

Extractors and provider adapters are I/O whose outcomes are choices in the models;
vector and graph stores are databases whose client behaviour is part of the callers'
actions; vector stores other than Qdrant, clients, scripts and examples drive the same
API; the legacy job store is not used by the server.  Configuration appears as constants.
Left out of parts that are modelled: the co-occurrence builders, the DELETE and NONE
decisions of the update decider, `enqueue_write` and `flush` of the batch writer, the
first version of the dialog endpoint, and the answer a language model makes of what was
retrieved.

Done: `IngestJobStore`, `IngestPipeline`, `SessionWrite`, `StateTimeline`, `UsageWal`
with its refinement, `MemoryEntries`, `MemorySearch`, `ApiGates`, `KnowledgeGraph`,
`Retrieval`, `SemanticQueries`, `DialogGraph`, `GraphUpkeep`, `StateTools`; proofs of all
of them, among these that the pipeline implements `IngestCommits`.

Left, the more important first:

1. One composition of `SessionWrite` under the pipeline's retries, where `ok` of the one
   is what `SessionWrite(w)` of the other returns.
2. The equivalence store, the TTL job on the in-memory store and the BYOK resolver, as
   far as they have state of their own.

The hazards in `PROJECT.json` name the properties that would catch them.  Eight name none,
because what they describe is outside of the conditions of every property, and their notes
say so: a pod that starts later, a refusal by a full queue, the lost updates of SQLite, a
stage 2 that times out for ever, a stop with a bounded queue, two calls of one session at
once, a swallowed publication, and the swallowed errors of the graph store.
