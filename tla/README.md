# Verification of the market-research agent

TLA+ specifications of the `agentdrops` backend (`backend/src/agentdrops`) and
of the research page of its frontend (`frontend/src`), the TLC models that check
them on small instances, and TLAPS proofs of the safety properties for every
instance.

## The system

A user's message is one *turn* of a *thread*. The API process subscribes to the
thread's Redis channel, creates or queues the row of `sessions` and enqueues a
Celery task; a worker runs the LangGraph pipeline (clarify, brief, supervisor,
report), writes the outcome to `sessions` and `audit_log` in Postgres, and
publishes each event to the channel; the API relays the events to the browser
as SSE until a terminal one. Meanwhile a poller is told a status that is put
together from the row and from the graph's checkpoint. The page shows the stream,
reopens old sessions and polls them; the sidebar lists, renames, pins and deletes
them. The Context Hub stores documents (Postgres, MinIO) which a second Celery task
indexes for a search tool.

| Component | State | Operations | Talks to | What is hard | Correct when |
|---|---|---|---|---|---|
| Chat turn, API (`api/v1/chat.py`, `chat_queue_service.py`, `jobs/events.py`) | the request's subscription | enqueue, stream, mark_failed | Postgres, Redis, broker | failures between any two awaits, cancellation, no replay on pub/sub | no event of the turn is lost; a stream ends, once; a settled session is not overwritten |
| Chat turn, worker (`worker/*.py`, `chat_service.py`) | the turn's position | run_turn, record_failure, `_execute`'s handler | graph, Postgres, Redis | three nested failure handlers which can fail themselves | one terminal event, one outcome, agreeing with the tables |
| Sessions, audit log (`repository/`, `db/models/`) | rows | touch, set_status, add_source, get, delete, record | all of the above | every call is a transaction of its own | an in-flight session has somebody who will settle it; the row stays while a worker needs it |
| Context Hub (`service/contexthub_service.py`, `repository/contexthub.py`, `storage/contexthub.py`, the ingest task) | documents, chunks, objects | upload, add URL, delete, ingest, search | Postgres, MinIO, broker | upload, delete and ingestion of one document at the same time | what is searchable is indexed; nothing is orphaned; processing ends |
| Chunking (`agents/contexthub/chunk.py`) | the loop | chunk_text | | borders | no phrase within the overlap is torn apart |
| Supervisor and sub-agents (`agents/supervisor`, `agents/research`) | messages, iteration counters, a semaphore | delegate, search, compress | LLM, search tools | concurrent topics, one of which fails | the loops end within their budget, each tool call is answered, each finding counted once |
| Research page (`app/page.tsx`, `chat-panel.tsx`, `sidebar.tsx`, `lib/api.ts`) | the screen, a selection token, a timer | select, start, reset, delete | API | answers that arrive after the user has moved on | the screen belongs to what the user chose last |
| Top-level graph, scope, writer (`agents/graph.py`, `scope/`, `writer/`) | the thread's checkpoint, which outlives the turn | clarify, brief, supervise, plan, sections, compile | LLM, checkpointer | what a follow-up, a failure or a crash finds in the checkpoint | a report is whole; a finding is in it once |
| Research status (`research_service.py`) | none: reads the row and the checkpoint | get_status, get_report | Postgres | two sources read at two moments; a delete takes only one of them | the stores agree between turns; an answer that says done stays |
| Search tools, resilience (`webtools/`, `agents/research/methods.py`, `resilience/`) | a breaker per tool, a reddit token, for the life of a process | search, fetch a token, retry, de-duplicate, summarize | search APIs, LLM | state shared by concurrent searches, answers that lack a field | an open breaker sheds load; no stale token is sent; what is announced is what the model reads |
| Suggestions (`suggestions_service.py`) | a cached list, with one of two lifetimes | get | Redis, LLM | concurrent misses, remembered failures | failing generations do not become a storm |
| Sidebar (`sidebar.tsx`, `sessions_service.py`) | the list, fetches and renames under way | refresh, rename, pin | API | optimistic changes against answers out of order | the list does not go back; a refused title is not shown |
| Text extraction, embeddings (`agents/contexthub/`) | none | extract, embed | libraries | either may fail in the middle of an ingestion, a source may have no text | a ready document with a text is found |
| Context Hub panel, report drawer, prompts, migrations, configuration, observability | little or none | | | | |

`PROJECT.json` lists every component with its status, and every hazard with the
line where it bites.

## Modules

| Module | Models | Length of a step |
|---|---|---|
| `ResearchTurns` | a turn from the request to the settled session: both chat routes, `ChatQueueService`, the channel, the broker, `_execute`, `run_turn`, `ChatService`, the two tables, the sidebar's delete | from one await to the next |
| `SessionLifecycle` | what the sessions table promises its readers; abstract | one change of status |
| `ContextHub` | documents, chunks and objects; upload, delete, ingestion | from one await to the next |
| `Supervisor` | the supervisor graph and the research graph of each topic | one node, or one tool-call round |
| `ChunkText` | `chunk_text` | one window |
| `ResearchPage` | `Home`, the chat panel's handlers, the sidebar's delete, and the server as they see it | a handler up to its next await |
| `ResearchStatus` | the top-level graph, its checkpoint and the row over the turns of a thread; `get_status` | one node, one transaction or one read |
| `SearchTools` | the tools' searches under the breaker, reddit's token, the search pipeline | from one await to the next |
| `StarterSuggestions` | the cached example prompts | from one await to the next |
| `Sidebar` | the list's fetches, optimistic renames and the pin, with the server's side of each | a handler up to its next await |
| `MCResearchTurns` | instances of `ResearchTurns` | |
| `MCAgents` | `ContextHub` (twice) and `Supervisor` side by side | |
| `MCServices` | `ResearchStatus`, `SearchTools`, `StarterSuggestions` and `Sidebar` side by side | |
| `ResearchTurnsProofs`, `TurnOutcomeProofs` | theorems about `ResearchTurns`: ownership, streams; terminal events, rows, outcomes, the refinement | |
| `ContextHubProofs`, `ChunkTextProofs`, `ResearchStatusProofs`, `ResearchPageProofs` | theorems about the module each is named for | |
| `AgentsProofs`, `ServicesProofs` | theorems about `Supervisor`, `SearchTools`, `StarterSuggestions`, `Sidebar` and the side-by-side specifications | |

The two modules of side-by-side instances choose a value of `part` in the initial
state; only that instance takes steps, so that a run has the sum and not the
product of their states. They restate the properties of the parts under names of
their own (`AgentsTypeOK`, `IngestHasOwner`, `HerdIsBounded`, ...), guarded by
`part` where a property is about one instance only.

### ResearchTurns

`apc[t]` is where the HTTP request of turn `t` is, `wpc[w]` where worker `w` is
in its task; the values are named for the call that comes next (`touch`,
`queue`, `send`, `relay`; `clarify`, `supervisor`, `writer`, `audit_done`,
`publish_done`, `record_status`, `handler_status`, ...). `status`, `report`,
`sources` and `audit` are the tables, `copies` what the broker holds, `inbox`
what a subscription has received, `seen` what its client has got. `sent` and
`latest` only record history.

What the environment may do wrong is the constant `Faults`. `TurnFaultsAt` and
`ApiFaultsAt` say what can raise where; `TurnRaises`, `EscapesRunTurn`,
`RequestRaises` and `HandlerRaises` are the edges into the four handlers
(`run_turn`'s except, `_execute`'s except, the route's except, and the end of the
task). A report is named by the turn that wrote it. The graph is a choice at each
node: ask, go on, or raise. A custom event of the supervisor other than `source`
is left out, its publication failing is not.

`Overlapping` says whether a turn may begin while another turn of its thread is
unfinished. The API does not forbid it, so the properties that need it FALSE say
what holds for a client that waits, as the page's disabled input does.

### SessionLifecycle and the refinement

`SessionLifecycle` has a status per thread and the set `busy` of threads with an
unfinished turn. Only a busy thread changes status, along queued → running →
done, queued → clarifying, anything → failed; a settled row may be deleted at any
time. `ResearchTurns` implements it: `Lifecycle` is `INSTANCE SessionLifecycle
WITH` the status as it is and `busy` mapped to `BusyThreads`, the threads with a
request, a delivery or a worker that is not over. All the steps of the
enqueueing, of the worker and of the handlers that do not touch the status are
stutters; `LifecycleSpec` says so and is checked as a property.

### ContextHub

`status`, `keyed` (the row has its `minio_key`) and `indexes` (how often the
chunks are in the table) are Postgres, `objects` MinIO. `upc`, `dpc`, `wpc` are the
program counters of the upload, the delete and the ingestion. `EarlyDelete` says
whether a delete may come before the upload has answered; nothing in the API
prevents it, since the row is listed at once. An ingestion reads the row,
extracts, embeds, inserts and marks ready; each may fail. `Found` is what a
search can return. `blank` are the documents whose source has no text: chunking it
gives no chunks, so nothing is embedded or inserted, the document becomes ready all the
same and no search finds it (`ReadyIsIndexed` says both).

### Supervisor

A model answer is a sequence of tool names; `answered` is the set of calls that
have their ToolMessage, `topic` the state of the sub-agent of each call, and
`notes`, `sources` count findings and `source` events. A failed topic makes
`asyncio.gather` raise at once while its siblings go on; a call without its
`research_topic` has failed before it waits for the semaphore. That the semaphore
admits `MaxConcurrent` is a guard of `Acquire`, not a property.
`SpendingIsCapped` is what the cap on the rounds amounts to: the last round that is
counted asks but is not served, so the topics researched are at most those of the
rounds before it.

### ChunkText

Characters are positions, chunks intervals. The overlap is below the chunk size,
as in the settings' defaults; with an overlap of at least the chunk size the
loop would never advance, and no code rules that out.

### ResearchPage

`token` is `selectionTokenRef`; `run[r]` is one call of `sendMessage` with the
token and thread it captured; `pending` are the requests of `selectSession` and
`pollUntilSettled` with theirs; `timer` is `pollTimeoutRef`. `focus` is history:
what the user opened or started last.

The server is the environment. `server` is the status of each thread's row, which
`Advance` moves as a turn does; `saved` what its checkpoint reads as, which `Save` lets
follow at its own pace and which a delete leaves behind. `Told` is the answer of
`get_status`: the row where it says queued or failed, else the checkpoint, with or without
a row. `getResearchReport` needs the row. A delete is applied (`DeleteApplies`) at one
moment and answered (`DeleteReturns`, or `DeleteRefused` when the answer is lost) at another.
A deleted thread is thus answered from its checkpoint: `done`, on which the report is a
404, or `running` or `clarifying`, and then the page polls until the user leaves it, as
nothing will change that answer. `PollStops` covers the first kind and names the
second as its exception. A failed fetch of the sidebar's list only takes choices from
the user and is left out.

### ResearchStatus

`row` is the `sessions` row; `node` is what the turn does next, a node of the
graph or a write of `ChatService`. `mem` is the state of the running graph,
`saved` what a reader finds in the checkpoint, which `Save` lets follow at its own
pace. `kept` is the state without the last node's writes: `run_turn` leaves the
stream as soon as the last node has answered, and whether the writes of that node
are there when the next turn starts depends on the checkpointer, so either is
allowed. Turns are numbered; a finding, a question and a report are the number of
the turn they are of, a section of the writer its length.

A turn can fail in the request (a row write, the broker; `mark_failed` follows, which may
fail as well), in a node, in a write of the row, in the audit entry or in the publication of
an event. All of these but the request's end in `record_failure`, also when the row
says "done" or "clarifying" already: `Store` and `Ask` are followed by `Audit` and
`Publish`, and only then the turn is over. A session can be deleted when
it is neither queued nor running, also between an outcome and its audit entry, which the
foreign key then refuses. The delete takes the row and leaves the checkpoint; a poll of
the deleted thread is answered from it, without a question, and a new turn of
it makes a new row over the old checkpoint. `deleted` is history, the turn after which that
last happened.

The state is never reset between turns. A follow-up turn therefore starts with
the `needs_clarification` and the report of the turn before: while it runs, a
poll can be told the old "clarifying" or "done", and a report of an earlier turn
hides a later question altogether. The properties state what the code does
guarantee: for a first turn an answer that ends the polling stays
(`SettledAnswerStays`), and between turns the stores tell the same, with that one
exception (`StoresAgree`). From the third turn on the report that hides a question
need not be the row's: a turn whose last write was lost to the checkpointer starts
from `kept`, with an older report than the row's, and may then ask. `StoresAgree`
therefore asks of a clarifying row that the question is in the checkpoint and that
any report there is no newer than the row's, or was left by a deleted session.
`Classify` is a chain of alternatives as in the code, where the report comes before the
question.

`hurt` remembers, as "lost", a failed write of the row or a death of the worker. After
one of these the stores may disagree for good: between the writer node and the row's
"done", it leaves a session whose status is done and whose report is a 404. It
remembers as "refused" that Redis did not take a turn's last event: `record_failure` then
replaces the outcome, and a poller that was told "done" is told "failed" by its next
poll. `SettledAnswerStays` names this as its one exception; histories with a lost write and
those in which the session was deleted are outside it.

### SearchTools

One process, one tool: `breaker` is pybreaker's state (`Admit`, `Succeed`, `Fail`
return the set of states the library may go to), `tries` counts the requests of
the current call, which `tenacity` repeats inside the breaker. `token`, `expires`
are reddit's two attributes; an answer may lack the token or the expiry and then
leaves one of them stale. An item may lack its URL, or hold null for it, and the tool
raises although the breaker has counted a success (`SearchReply`). A page whose summary
fails is given its text in place of one, which the model does not tell from a summary.
Tavily, Exa and NewsAPI have adapters of one shape: `"tavily"` stands for them. `found`, `noted`, `summed` follow a search through the
pipeline: its results, the announced sources, the finished summaries. `trip` is
history: since the breaker opened, the requests sent and the calls that were
running when it did.

### StarterSuggestions

`entry` is the Redis key with its lifetime (`"cache"`: an hour, `"failure"`: the
short one), `req` where each page load is. `herd` is history: since the key last
expired, the generations begun and those of which nothing was cached: the write failed, or
the model's answer had no prompts at all, which the assertion behind the handler refuses
(`NotStructured`; the route answers 500). An exception, by contrast, is cached as a failure.

### Sidebar

`stored` is the server's row, `shown` the list's entries of it: one, or none after a fetch
that failed or a search that does not match; `lists`, `calls`, `pin` are
requests under way. A request is applied at one moment and answered at another. A
title is the number of the rename that asked for it.

## What is checked

A run is `tlc -config <run>.cfg <module>`. Runs marked ✗ have to fail: each
checks one sentence of the repository's documentation against what the code does
(see *Findings*).

| Run | Instance | Shows |
|---|---|---|
| `TurnsOverlap` | 1 thread, 2 overlapping turns (one streamed), 2 workers; graph, broker and subscription faults | `InFlightHasOwner`, `NothingRelayedAfterTerminal`, `WaitingStreamIsServed` |
| `TurnsSequential` | 2 turns one after the other, 2 workers; Postgres, Redis, broker, setup and graph faults, crashes, disconnects | `RowHeldDuringTurn`, `PublishedOutcomeHolds`, `ReportHasItsSources`, `EachTurnEndsOnce`, refinement of `SessionLifecycle` |
| `TurnsAllFaults` | 1 turn, 2 workers, all eleven faults | `TypeOK`, `RelayIsComplete` |
| `TurnsLiveness` | fair; as `TurnsOverlap` with 1 worker | `EverySessionSettles`, `EveryStreamEnds` |
| `TurnsMarkFailedRace` | ✗ 1 turn whose subscription fails | `MarkFailedKeepsSettled` |
| `Agents` | `faults`: the Context Hub with 2 documents (a file, a URL), 2 workers, all faults but Postgres, deletes after the upload; `ingest`, fair: the same with unreadable content and early deletes; `agents`, fair: answers of up to 3 calls, 3 iterations, 2 topics at a time, 2 tool rounds | `AgentsTypeOK`, `ReadyIsIndexed`, `FilesAreNamed`, `IngestHasOwner`, `IngestedOnce`, `IngestEnds`; `SpendingIsCapped`, `EveryCallIsResolved`, `NotesMatchSources`, `ResearchEnds` |
| `Services` | `status`: 2 turns, plans of up to 3 sections with a limit of 2 and lengths on both sides of the bounds, all faults, deletes; `search`: 2 searches, 2 pages, answers of up to 3 items, 3 tokens, a breaker that opens at 2 failures; `suggestions`: 2 requests, 4 generations; `sidebar`: 2 renames, 2 fetches, 2 clicks on the pin | `ServicesTypeOK`; `ReportIsWhole`, `FindingsCountedOnce`, `StoresAgree`, `ClarifyCarriesQuestion`, `SettledAnswerStays`; `TripShedsLoad`, `SearchSendsFreshToken`, `OutputMatchesSources`; `HerdIsBounded`; `NewestListStays` |
| `ChunkText` | texts up to 12, windows up to 6, every smaller overlap | `PhraseKept`, `ChunksAreUseful` |
| `Page` | fair answers and timers; 1 session, 1 run (its thread is listed too), 2 changes of the screen, 1 delete at a time | `TypeOK`, `ScreenShowsFocus`, `SingleDriver`, `CompleteShowsReport`, `PollStops` |
| `PageStaleRun` | ✗ | `DroppedResultLeavesScreen` |
| `PageStuckRunning` | ✗ | `RunningIsServed` |
| `SidebarRollback` | ✗ 2 renames | `RolledBackIsPersisted` |

**Bounds.** Two turns and two workers are what a race between turns, or between
a turn and its own second delivery, takes; the code has no step that looks at
more than one other turn. `MaxSources` bounds the `source` events of a turn to
one or none: they are appended one by one and independent. `Deliveries` bounds
a duplicated task to two. Each turn is requested once; a third turn would meet
the same row states as a second. On the page, `MaxToken` bounds how often the
user changes the screen: a race needs a choice, its late answer and one choice
in between. `MaxDeletes` bounds the deletes under way to one: two concern two
sessions, or the second finds nothing to delete. A second turn of a thread is the first one that finds a checkpoint.
What only a third can find in it, a report that is older than the row's, or a deleted
session's report under a new row and a question, is covered by the theorems about
`ResearchStatus`, which hold for every `MaxTurns`. A search
needs a second one to race for the token and to be in flight when the breaker
opens; three items over two pages make a duplicate that is not next to its first.
Four generations let two requests fail twice each. Two renames of a session are
what out-of-order answers take. The Turns runs have one thread: the channel, the rows and the checkpoint of a
thread are keyed by it and no step touches two. Worker symmetry is used in runs without temporal properties.

**Fairness.** `ResearchTurns!Fairness` is weak fairness of each running request
and each worker: every await of the code returns or raises (timeouts of the LLM
and HTTP clients) and the Celery pool takes what the broker holds. Nobody has to
begin a turn, delete, crash or disconnect. `ContextHub!FairSpec` and
`Supervisor!FairSpec`, which `AgentsSpec` restates for their parts, assume the same
of uploads, deletes, ingestions and sub-agents. `ResearchPage!FairSpec` assumes that requests are answered or fail
and that timers fire; the server need not make progress.

**Deadlock** is not checked: each system stops when all requests are done.

## Findings

What the ✗ runs show, each with the sentence it contradicts, is in
`PROJECT.json`:

- `mark_failed` can overwrite what the worker has settled: it reads and writes in
  two transactions (`TurnsMarkFailedRace`).
- A run that finishes after the user has opened another session writes an error
  message there (`PageStaleRun`).
- Reopening a failed session, or one that has finished since the list was
  fetched, shows "Researching..." for ever (`PageStuckRunning`).
- Of two overlapping renames that both fail, the second rolls back to the title
  of the first, which the server never had (`SidebarRollback`).

Some checked properties hold only without a fault or a choice that the code does
not exclude. Each of these is seen by changing one constant of a run or of an instance:

| Change | Violated | Why |
|---|---|---|
| `TurnsOverlap`: add `"setup"` to `Faults` | `WaitingStreamIsServed` | the handler of a failed construction raises itself, because the session was deleted after its status was written (or because Postgres is down), before it publishes the error |
| `TurnsLiveness`: add `"disconnect"` | `EverySessionSettles` | a client that goes away between the queued status and the enqueueing cancels the request, and a `CancelledError` is not an `Exception`; the session stays queued, which makes it undeletable too |
| `Agents`: `EarlyDelete = TRUE` | `FilesAreNamed` | the delete reads `minio_key` before the upload has written it |
| `Agents`: add `"setup"` to the faults of `Ingest` | `IngestHasOwner` | the clients are built outside the `try` |
| `Agents`: add `"duplicate"` to the faults of `Ingest` | `IngestedOnce` | `insert_chunks` only adds |
| `Agents`: add `"unknown"` to `Tools` | `EveryCallIsResolved` | a call of a tool that is not bound gets no ToolMessage |

More follow from the model's control and are left unstated as properties: a reopened
session that is deleted elsewhere while its checkpoint reads as running or clarifying is
polled until the user leaves it, and a poll of it that says "clarifying" comes without
a question; a session may be deleted between a turn's outcome and its audit row (the worker
then records a failure for a turn that succeeded); a turn whose last event cannot
be published gets a second audit row and reaches the handler that is documented
as for construction only; overlapping turns of a thread see each other's events. What
a follow-up's poller may be told is described under *ResearchStatus*. The
suggestions' docstring promises one call of the model per hour for all users
(`backend/src/agentdrops/service/suggestions_service.py:25`); concurrent misses
make one each, and the last to finish overwrites the others, a failure an answer
too. `HerdIsBounded` is what remains: one per overlapping load, beyond the generations of which
nothing is cached, those that Redis does not take and those that the assertion refuses.

## What is proved

Every safety property that a run checks, and the refinement of `SessionLifecycle`,
is a theorem for every value of the constants that satisfies the modules' named
ASSUMEs: any number of threads, turns, workers, documents, searches, page loads,
runs and sessions. Where a theorem has a hypothesis about `Faults` or another
constant, it is the one without which the property is false (see *Findings*), or
it says what the run assumes too; each is met by the run that checks the property.

**`ResearchTurnsProofs`.** `RequestTyped` and `WorkerTyped` show the types action by
action; the later proofs build on them.

- `Typing`: the types alone are not inductive, since a worker's next step indexes
  the tables by its turn; `BusyWorkerHasTurn` says that a busy worker has one.
- `NeverWedged`: a queued or running session has an owner. `NobodyVanishes`
  excludes the faults `db`, `crash` and `disconnect`. Each step keeps the owner's
  program point among those that still owe a status, hands the turn on
  (request to broker, broker to worker), or leaves it after writing a settled
  status; `mark_failed` returning early needs the status it has read to be settled.
- `StreamEndsAtTerminal`, without a hypothesis. A stream that may still relay has
  relayed no terminal event (`OpenStreamSawNoEnd`), also none of another turn.
- `NoStreamWaitsForNothing`: a stream that waits is served. `EndsAreDelivered`
  excludes `setup`, `publish` and `crash`. A turn whose task is not enqueued yet has
  no copies, no events and no worker (`NotYetSent`), and a worker that is only
  closing its clients has delivered the end (`ClosedStreamHasEnd`).
- `NothingIsLostOnTheWay` (`RelayIsComplete`), without a hypothesis: the subscription
  is open before the task is enqueued. `RelayIsComplete` speaks of
  the rank of an event among its turn's own (`OwnCount`), which needs no recursion.

**`TurnOutcomeProofs`.** `RequestFootprint` and `WorkerFootprint` say once what the
steps of the requests and the workers leave alone. `Sequential` is one turn of a
thread at a time, no duplicated task (`duplicate`), no broker that enqueues and
raises (`ambiguous`), no broken subscription (`subscribe`). After either of the
last two the request's `mark_failed` races with the worker; `TurnsMarkFailedRace`
shows what that does. `ClosesCleanly` excludes `teardown`: a worker whose clients
fail to close after the last event records a failure for a turn that has succeeded.

- `OneTerminalEvent` (`EachTurnEndsOnce`), from `NoDuplicates` and `ClosesCleanly` only,
  for overlapping turns too. A task is with the broker or with one worker (`RunsOnce`);
  a worker that is not closing has published no terminal event (`StillOpen`).
- `RunningTurnHoldsItsRow`: the active turn of a thread is the one that began last
  (`ActiveIsLatest`), a turn that waits finds its row queued or deleted (`RowWaits`),
  and the row is what the worker's program point says (`RowFits`).
- `ImplementsLifecycle`: initial states map to initial states, and each action is
  shown to be a step of `SessionLifecycle` or a stutter: `Begin` makes a thread
  busy, the status writes are the abstract transitions, the end of the last
  request, copy or worker makes it free, the sidebar's delete is the abstract one.
- `AnnouncedReportStays` (`PublishedOutcomeHolds`): the worker that is about to
  announce has the row and the audit entry (`OutcomeFits`); from then on only a new turn
  or a delete changes them (`OutcomeFollows`).
- `ReportsKeepTheirSources`: a source is in the row before it is published
  (`SourcesFit`) and stays there for as long as the row does (`SourcesFollow`).

**`ContextHubProofs`.** All rest on one invariant of a document's program counters.

- `SearchIsSound`, under all faults: a worker that is about to mark a document
  ready has committed its chunks (`AboutToMark`), unless the row is gone or the source has
  no text, of which there is never a chunk (`BlankHasNone`).
- `FilesKeepTheirRow` (`UploadsAreAlone`: no early delete, Postgres does not fail),
  `ProcessingIsOwned` (`WorkGoesOn`: only content and deliveries misbehave),
  `ExcerptsAreFoundOnce` (`DeliveredOnce`): `FilesFollowRows`, `IdleWorkerHasNone` and
  `OneDelivery` are their strengthenings.

**`AgentsProofs`.** `AgentsTyping`; `RunKeepsFiles`, `RunKeepsOwners` and `RunIndexesOnce`
carry the theorems about the Context Hub over to the two settings of the run;
`SpendingCapHolds`, `EveryCallIsAnswered` (the model only calls bound tools) and
`NotesAreTheSources` are about the supervisor, for any limits and any answers. Its
invariant adds that both loops stay below their caps while they go on
(`LoopsAreCapped`), that while topics are gathered the finished ones are
announced and not yet noted (`GatheredAreNoted`), and that the sources so far and the topics
that may still become one are paid for by the rounds so far (`SpendingIsPaid`): a
round adds at most `MaxCalls` topics, and the round that reaches the cap adds none.

**`ResearchStatusProofs`.** The invariants speak of `mem`, `saved` and `kept`
together, since a reader may find any earlier state and a turn may start from one.

- `ReportsAreWhole`: the writer's plan is within the limit and not empty once
  sections are written (`PlanIsLegal`), of which `parts` are always the first
  (`DraftsFollowPlan`). `PartIsLegal` is the clamp of a length.
- `NoFindingCountedTwice`: each of the three states holds a finding once, none
  of the running turn before its supervisor has ended and no report of it before the
  writer has, and a report has the notes up to its own turn (`Findings`).
- `StoresTellTheSame`, `QuestionComesAlong`, `SettledAnswersStay`: `Telling` relates the
  row to the node (`RowFollowsNode`), the reports and the questions of the states
  to those of the row or of what a deleted session left (`ReportInRow`, `QuestionInRow`),
  and what the poller holds to both (`PollerKnowsTheRow`, `AnswersHold`). `SettledAnswersStay` is an action
  property. `StatusTyping` is the types.

**`ServicesProofs`.** `EachServiceRuns` shows that what runs side by side is each
service's own specification, so that the theorems above hold of it.

- `BreakerShedsLoad`: while the breaker is open, the requests sent since, plus two
  for each call in its first attempt and one for each in its second, are at most twice
  the calls that were running (`Budget`).
- `TokensAreFresh`, an action property: the token at hand is never older than the
  answer its expiry came from (`TokenOrder`).
- `OutputIsTheSources`: `Reported` says that what is announced is the de-duplicated
  answer and all of it is summarized at the end. What the fold over the
  results returns, for every answer, is `DedupedIsFirstOfEach`, by induction. The
  library's induction theorem is about an operator and cannot be used with these
  provers; `Induction` states it about a set and is proved from the library's
  well-foundedness of Nat (`WFMin`), and `FoldExists` shows that the recursive function
  which the fold chooses exists.
- `HerdStaysSmall`: the generations begun are bounded by the page loads that are
  busy, raised after the model had answered, or lost their write. `NewestListWins`, an action property: an answer replaces the
  list only when it is of a later refresh. `ServicesTyping` is the types.

**`ResearchPageProofs`.** `ScreenBelongsToFocus`, `OneSourceDrives`, `CompleteHasReport`,
`PageTyping`. No request, run or timer has a token the page has yet to reach
(`Past`); what holds the current one works on the thread in focus (`Focused`), and
is alone (`Alone`); a run that closes after "done" has shown its report (`Completed`).

**`ChunkTextProofs`.** `PhraseIsKept`, `NoWindowIsWasted`: all before the next start is
covered together with its overlap (`CoveredSoFar`), and the last chunk ended
exactly `overlap` characters after the next start and before the end of the text
(`LoopStands`), which is why the next window is never empty.

Only model-checked are the liveness properties `EverySessionSettles`,
`EveryStreamEnds`, `IngestEnds`, `ResearchEnds` and `PollStops`: the prover has no
reasoning about fairness or ENABLED that would serve. The ✗ runs are
counterexamples and need no proof. No module uses a RECURSIVE operator.

## What is not modelled, and why

Texts, vectors, ranking, titles' words and time stamps: no property is about them.
Loss of a pub/sub message on a live connection is not modelled: Redis drops a
subscriber's connection instead, which is the fault `subscribe`. The worker's
transactions are the code's, so a statement and its commit are one step; so are the
insert and the read of `touch`: a delete that comes between them makes its assertion fail,
which is left out. A publication that raises has not been delivered: an event that Redis
takes while the call raises is left out too.
LangGraph's saver, pybreaker and tenacity are modelled from how the code uses them,
with their freedom left open. The sidebar's menus and grouping only
arrange what is shown. The Context Hub panel sends independent requests against the
documents table, which `ContextHub` has. Prompts, schemas, migrations, configuration,
observability, application start and the report drawer keep no state of the
protocol.

## Plan

In this order:

1. Done: `ResearchTurns` with `SessionLifecycle`, `ContextHub`, `Supervisor`,
   `ChunkText`, `ResearchPage`, `ResearchStatus`, `SearchTools`,
   `StarterSuggestions`, `Sidebar`.
2. Done: a theorem for each safety property of the runs, and the refinement of
   `SessionLifecycle`.
3. Next: safety parts of the liveness properties (a bound on the steps a turn, an
   ingestion or a sub-agent has left, as a function that no step but a new request
   increases); an abstract specification of the thread's checkpoint as a poller sees it,
   and `ResearchStatus` shown to implement it; what weaker hypotheses than `Sequential`
   leave of the outcome properties (overlapping turns, `subscribe` alone).
