# ZhongMei RAG 2.0: verification development

TLA+ modules, TLC configurations and TLAPS proofs about the program in `src/`:
a document question-answering system (FastAPI + Celery + MySQL/SeekDB + Redis
backend, a Vue frontend, and a self-hosted OCR service). `PROJECT.json` maps
every definition to the lines it models.

## 1. Inventory

| Component | State it keeps | Operations | Interacts with | Hard because | Module |
|---|---|---|---|---|---|
| **Ingestion pipeline** `tasks/ingest.py`, `services/ingest/*` | `documents.status`, `document_ingest_jobs.status`, step receipts, index rows, parse result, files | one Celery task of twelve commits; dead letter; cancellation | database, upload directory, OCR service, broker | crashes between commits, redelivery, concurrent jobs, deletion at any instant, a handler that fails with the database | `IngestPipeline`, `StepLedger` |
| **Document API** `api/documents.py`, `services/deletion.py` | the same rows and files | upload, retry, delete (single, batch, by knowledge base), listing, preview | broker (`send_task`), database, files | rows, files and messages change in separate steps | `IngestPipeline`, `KbAccess` |
| **OCR client** `services/ocr/client.py` | none | upload, poll, fetch, delete, with retries | OCR service over HTTP | lost responses, time-outs | inputs of `IngestPipeline` |
| **OCR service** `DeepseekOcrApi/` | `meta.json` and results per session, in-memory priority queue, worker task | upload, status, results, delete, worker loop, clean-up, callback | model thread | abandoned threads, deletion or clean-up while queued or running, failing writes, restart | `OcrService` |
| **Broker and workers** `celery_app.py` | queue, unacknowledged messages | deliver, retry, redeliver (`acks_late`, `reject_on_worker_lost`) | pipeline, export | at-least-once delivery | `IngestPipeline`, `SearchExport` |
| **Knowledge bases and permissions** `api/knowledge_base*.py` | rows of knowledge bases and permissions | create, update, delete, replace permissions | documents, chat | read-check-write without locks | `KbAccess` |
| **User administration** `api/admin.py`, `api/user.py` | users, avatar files | create, update, disable, reset, avatars | authentication | write skew between administrators; file and row move apart | `Accounts` |
| **Chat turn** `api/chat.py`, `services/rag/graph.py` | chat sessions, messages, citations | stream an answer, then persist the turn | retriever, LLM, deletion | rows can vanish during minutes of streaming; a session's binding is checked and committed apart | `ChatService`, `ChatTurn` |
| **Chat store** `stores/chat.ts` | active session, messages, references, stream state | load, send, stop, delete | chat API | late answers of an earlier session | `ChatStore` |
| **Retrieval** `services/rag/*` | none | hybrid search, fusion, de-duplication, threshold | database, embeddings | order, ties, rows that go between two nodes | `Retrieval` |
| **Outline and chunks** `outline_parser.py`, `chunker.py` | none | parse, chunk with overlap | pipeline | boundaries | `TextIndex` |
| **Search and export** `api/search.py`, `tasks/search_export.py`, `stores/search.ts`, `SearchView.vue` | export job row, zip, page state, timers | search, export, run, poll, download | broker | task sent before its row is committed, a handler that commits after a failed commit, late answers, a page that is left | `SearchExport`, `SearchStore` |
| **Authentication** `api/auth.py`, `security/*`, `stores/auth.ts`, `api/client.ts` | login records, tokens, failure counters | login, refresh, logout, change password | Redis, browser storage | refresh racing logout, two-call counters, a commit between verification and counting | `AuthService`, `AuthStore`, `Accounts` |
| **LLM client** `services/llm/*` | token bucket | embed, chat, fall back | DashScope | rate limits | steps of `ChatService` |
| Page boxes, dashboard, health, preview, seeding, migrations, views, evaluation | | queries, arithmetic, scripts, layout | | nothing interleaves | none |

What makes each component correct:

* *Ingestion and document API.* No row outlives its document; a ready document
  is whole; a succeeded job did each step once and released its OCR session; no
  document is left between statuses but by the ways that are named; only a
  request deletes.
* *OCR service.* "Completed" can be served; an outcome is final; every accepted
  session is processed as long as the files stay.
* *Permissions and administration.* There is always an administrator; a reset
  password must be changed; the permission rows are a list somebody asked for;
  file names are unique and documents go with their knowledge base.
* *Chat.* Stored citations exist and belong to the conversation's knowledge
  base; an answer is one model's; deltas reach their own message; the composer
  comes back.
* *Search and export.* A download is whole and of the last export, polling ends.
  (That the page shows the last search, and that a packed file is offered, the
  code does not keep.)
* *Authentication.* Recorded wrong passwords are bounded, counters expire,
  nothing issued before a logout revives the session for good.
* *Text and retrieval.* Every line of text can be found, chunks are bounded, the
  answer cites the best of what is left.

`PROJECT.json` lists the hazards at their lines with the properties that watch
them. Many of these hazards are real races that the code accepts: the property
then says what does hold and names the overlap in a history variable
(`overlap`, `late`, `merged`, `blind`, `raced`, ...), which is set exactly when
the overlap happens. Such a property is violated when the *guarded* part breaks.
Where a document of the repository promises more than the code keeps, a run
expects the violation (the findings of `PROJECT.json`) or, where no run is spent on
it, the section names it.

## 2. Plan and structure

| Order | Modules | State |
|---|---|---|
| 1 | `IngestPipeline` with the abstract `StepLedger`; `IngestInvariant` and its proofs | done |
| 2 | `OcrService` and its proofs | done |
| 3 | `ChatService`, `ChatStore`, `ChatTurn`; proofs about the service and the page | done |
| 4 | `Accounts`, `KbAccess`, `Workspace`; proofs about the composition | done |
| 5 | `AuthService`, `AuthStore`; proofs about both | done |
| 6 | `SearchExport`, `SearchStore`; proofs about both | done |
| 7 | `TextIndex`, `Retrieval`; `NatRecursion` and proofs about both | done |
| 8 | composition of the pipeline with the OCR service; an abstract document life cycle | open, see section 11 |

How the modules depend on each other. A component is a module; what reacts to it
extends it and composes the steps:

* `IngestPipeline` instantiates `StepLedger`; `IngestInvariant` extends
  `IngestPipeline`; `MCIngest` extends `IngestInvariant` (so that any part of
  the invariant can be checked by TLC); `IngestProofs` builds on it.
* `OcrProofs` and `MCOcr` extend `OcrService`.
* `ChatStore` extends `ChatService` (it reads what the service stored);
  `ChatTurn` extends `ChatStore` and joins each event to its handler.
* `KbAccess` extends `Accounts` (a route's guard reads the user's row);
  `Workspace` extends `KbAccess` and is the composition.
* `AuthStore` extends `AuthService`, `SearchStore` extends `SearchExport`: the
  store is composed with the service it calls.
* `Retrieval` extends `TextIndex`: it ranks the chunks that module built.
* `OcrProofs`, `ChatProofs`, `WorkspaceProofs`, `AuthProofs`, `SearchProofs` and
  `RetrievalProofs` extend the composition of their component. `NatRecursion`
  holds induction and recursion over numbers, which `ChatProofs` and
  `RetrievalProofs` use.

A run is `tlc -config <cfg> <module>` with the pair that `PROJECT.json` names; a
proof is `tlapm <module>.tla`. Deadlock is not checked anywhere: every one of
these systems may rest when no user asks for anything, and bounded inputs run
out.

## 3. Ingestion: `IngestPipeline`

### Correspondence

`process_ingest_job` commits after every step. A **segment** is what lies between
two commits; the twelve segments carry the names of the steps (`Claim`,
`UploadToOcr`, ... `Finalize`). A worker is at a segment and a phase of it:

| Phase | In the code |
|---|---|
| `check` | about to call `_raise_if_cancelled` (segment 0: about to lock the job row) |
| `work` | the transaction is open, the check passed, `get_receipt_payload` looked the receipt up (`hit`) |
| `record` | the runner returned; receipt, rows and status are written but not committed |
| `except` | an exception was raised and `db.rollback()` done |
| `dead` | `_is_cancelled_or_deleted` answered no; `mark_dead_letter` is not committed |
| `raise` | committed, or the handler raised itself; the exception is about to reach Celery |
| `cancel` | `IngestCancelled`, or the document row was missing |

| State | In the code |
|---|---|
| `docStatus`, `jobStatus`, `jobDoc` | `documents.status`, `document_ingest_jobs.status / .document_id` |
| `receipts`, `upSession` | `ingest_step_receipts` (step by job), the session id in the first one's payload |
| `rows`, `parseRow` | copies of a document's rows in the chunk, page and asset tables; its parse result |
| `files` | PDF, markdown and asset files in the upload directory |
| `session` | sessions on the OCR service |
| `queue`, `wJob`, `wTries` | waiting and unacknowledged messages, Celery's retry count |
| `unsent`, `lost` | jobs committed whose `send_task` is still to come, or never came |
| `dropped` | history: jobs whose last run ended with nothing reported |
| `delPhase`, `delPaths` | a delete request between `collect_document_artifact_paths`, the commit, and `delete_artifact_files` |

Facts of the code the model rests on:

* Sessions are created with `expire_on_commit=False` (`db/session.py`), so a
  check after the first commit sees stale attributes: of a deletion committed by
  someone else it sees that the row is missing. `deleting` and
  `cancel_requested` are set and the rows removed in one transaction, so no other
  transaction ever sees those two values.
* A deletion starts with an UPDATE of the document row, and every insert of a
  child row locks its parent: a segment's commit and a deletion are ordered. A
  segment that commits after the deletion is refused by its foreign key or by an
  UPDATE that matches nothing (`CommitRefused`). Foreign key checks are switched
  off only in the deleting session, which inserts nothing.
* The lock of `SELECT ... FOR UPDATE SKIP LOCKED` ends with the first commit.
  Later transactions lock the job row only while they insert a receipt, finalize
  or mark it dead; `LocksJob` says when.
* `write_chunks`, `write_page_index` and `register_assets` run a DELETE by
  document before the insert. It waits for rows another open transaction has
  deleted and does not see rows it has inserted; deadlock victims are covered by
  `StepFails`.
* A receipt's key is `job:step:hash(input)`, and the input of every step is
  determined by the job: its receipts are a set of steps.
* The message is acknowledged after the task's last commit (`acks_late`). A worker
  lost in between (`AckOrCrash`) leaves the message of a `succeeded` job: the
  next delivery claims it again, sets the document from `ready` back to `ocr`
  and walks the cached receipts. One lost after publishing a Celery retry leaves
  two messages, which counts as a repeated delivery (`Redeliver`).
* An OCR service that cannot be reached raises `httpx.HTTPError`, which Celery
  does not retry (`StepFails`); busy answers and the poll time-out raise
  `OCRTransient`, which it does (`OcrTransient`, `Reraise`).

* The database can fail at any call. In the try block that is `StepFails`. Before
  it (`ingest.py:64-73`) the error ends the task (`StartFails`), as does the
  `ValueError` when SKIP LOCKED passes over a row that an uncommitted deletion
  holds, which may abort afterwards. The handlers make calls of their own
  (`244-253`, `272-287`): when these fail, the new exception leaves the task
  (`HandlerFails`, `CancelFails`). In all these cases the message is acknowledged
  and, but for an exception that Celery retries, nobody comes back: the job is
  `dropped` until a delivery claims it again.

Abstracted: attempt counters, error texts, audit rows, payloads other than the
session id; documents are assumed to have at least one image; two equal waiting
messages are one element of `queue`; one delete request per document at a time.
The rejection of duplicate file names and the deletion of a whole knowledge base
are in `KbAccess` (section 6).

### Properties

`NoOrphanRows`, `ReadyComplete`, `SucceededLedger`, `SucceededReleasesOcr`,
`StrandedOnlyIfDropped`, `PollsLiveSession`, `SingleIndexCopy`,
`EventuallySettled`, and `ImplementsLedger`: the receipts implement
`StepLedger`, an ordered, write-once record that closes with the document.
`StrandedOnlyIfDropped` names the two ways a document can be stuck between
statuses: pending with a task that was never sent, or a run that ended outside
its handler.
`OnlyRequestsDelete` (a document leaves the table only by a deletion's commit)
is proved and not run.

### Runs

One document is enough for the safety runs because documents share nothing but
worker slots; two workers are the fewest that overlap; the theorems hold for any
number of each.

| Run | Instance | Shows |
|---|---|---|
| `ingest_redeliver` | 1 job, 2 sessions, 2 workers, 1 crash, 1 redelivery | `TypeOK`, `NoOrphanRows`, `SucceededReleasesOcr`, `ImplementsLedger` when a message runs twice at a time |
| `ingest_retry` | 2 jobs, 2 sessions, 1 Celery retry, 1 aborted request | `ReadyComplete`, `SucceededLedger`, `StrandedOnlyIfDropped` when an owner's retry overlaps the first job |
| `ingest_live` | 1 job, 2 sessions, 2 crashes, 1 retry, 1 lost upload, 1 abort, fairness, no symmetry | `PollsLiveSession`, `SingleIndexCopy` when a job is resumed but never run twice at a time, and `EventuallySettled` |

`PollsLiveSession` and `SingleIndexCopy` are claims about resumption: they say
so (`redeliveries = 0`, and one job of the document for the second). With
overlapping deliveries or jobs they fail: a second delivery polls the session
the first one released and fails as `OCR ... 404`; two jobs of a document each
write the index.

Bounds: `MaxCrashes`, `MaxRedeliveries`, `MaxLostUploads`, `MaxAborts` bound the
environment, and `MaxRetries` is 0 or 1 instead of 5: a retry re-enters the task
with the state the first attempt left, so one shows every re-entry.

Fairness: `WF` of each worker's step (a Celery worker that is not lost keeps
running; calls of the OCR client have time-outs), of delivery to idle workers,
and of the steps of a request once it began. Users, crashes, redeliveries and
lost responses have none. Failures of a request's process appear as `SendFails`
and `DeleteAborts`, those of the database in a worker as steps it may take.

### Where the code and its documents part

Met while modelling, visible in the model, and not claimed by any property:

* A failure may miss the dead letter: the handler's own database calls fail with
  the outage that raised it, the message is acknowledged and the document stays
  intermediate (`tasks/ingest.py:244-253`; `docs/stage-5-ingest-progress.md:53`
  has every failure go there). `dropped` records it.
* A document goes to the dead letter at the first attempt's final error while
  Celery's retry of the job still waits (`tasks/ingest.py:252`), while
  `docs/ultimate-refactor.md:198` puts it after the back-off's last retry.
* A second delivery that is late may set a succeeded job's status again and fail
  it (`tasks/ingest.py:82`, `:188`).
* Two jobs of a document can double its vector index
  (`services/ingest/track_a_indexer.py:65`, `:210`): the DELETE of one does not
  see the uncommitted rows of the other.
* A deletion collects the paths before a segment writes its file, and the file
  stays (`tasks/ingest.py:209`; `docs/hard-delete-lifecycle-2026-05-13.md:22`).

## 4. OCR service: `OcrService`

Handlers and loops share one event loop, so what happens between two awaits is
one action; `process_pdf` runs in a thread and interleaves with everything.

| State | In the code |
|---|---|
| `meta`, `result` | `status` in `meta.json`; whether `output/result.md` exists |
| `queue`, `prio` | `task_queue`, an `asyncio.PriorityQueue` of `QUEUE_SIZE` |
| `worker`, `cur` | where `_worker_loop` is, and with which session; `dead` when its task ended with an exception |
| `thread` | `process_pdf` of a session, awaited or abandoned |
| `used`, `deleted` | ids handed out; sessions whose directory was removed |
| `broken` | history: sessions whose metadata could not be written |

Priorities are respected, equal ones are served in any order (the code orders
them by time; nothing here depends on it). The clean-up removes a directory not
written for 24 hours, whatever its status: a queued session too, which smaller
priorities, the client's choice, can overtake for as long as clients send them
(`app.py:259`, `:480`). Only the session being processed is too young, having
been written less than a time-out (50 minutes) ago. `_write_meta` can fail at
any of its calls and leave the file as it was, written, or empty (`torn`); a
session of status `torn` is readable to nobody. Where it fails decides what
happens: in the upload nothing is queued (`UploadFails`), in the try block the
session fails (`TakeFails`, `ResultNotRecorded`), before it or in the handler the
worker loop ends (`TakeBreaks`, `RecordBreaks`). The callback's answer is ignored
by the code and by the model.

| Run | Instance | Shows |
|---|---|---|
| `ocr_service` | 3 sessions, 2 priorities, a queue of 2 that fills up, 1 restart, 1 session whose metadata cannot be written, deletion and clean-up of any session; fairness of the worker loop, no symmetry | `TypeOK`, `CompletedIsServable`, `AbandonedThreadIsFailed`, `MetaMatchesProcess`, `OutcomeIsFinal`, `ProcessedWhileFilesStay` |
| `ocr_dead_loop` | the same without restarts and failing writes | violates `AcceptedIsProcessed`: a queued session is removed, the loop ends with the exception of its missing directory and no later session is processed (the finding in `PROJECT.json`) |

`ProcessedWhileFilesStay` is about the behaviours in which nobody takes the files
of a queued session away and every write of metadata succeeds (`FilesStay`): there
the one loop survives every time-out, model error and callback. The instance
has finitely many sessions, so an overtaken one is served in the end; the code
itself bounds no overtaking.

`MetaMatchesProcess` holds until the first restart, for sessions whose metadata
could be written, and says so: `startup` re-enqueues nothing, and sessions
persisted as queued or running stay so. No document promises otherwise,
and the pipeline's poll time-out ends a job's wait. An abandoned model thread
runs beside the next session's (`ocr_processor.py:489`, although the service's
README, line 88, has the worker call the model serially), and `_write_meta` can make a
deleted session's directory again (`app.py:139`, `:417`): both are behaviours of
the model, and `AbandonedThreadIsFailed` and `OutcomeIsFinal` say what they
leave intact.

Fairness is `WF` of the worker loop only: `asyncio.wait_for` ends every model
call, so nothing is asked of the thread.

## 5. Chat: `ChatService`, `ChatStore`, `ChatTurn`

`chat_stream` commits the session, then its generator retrieves, sends events
and stores the turn in a session of its own. One action of `ChatService` lies
between two events or two commits.

| State | In the code |
|---|---|
| `stream[t]` | the generator of a question: `checked` / `binding` (its session was read, with the binding in the row or to be written), `accepted` (committed), `chosen` / `no_hit` (references sent), `fallback` (second model), `finally`, `done`, `closed`; with the session, the documents cited, and the models heard |
| `rows`, `sessKb` | stored turns with their citations; `ChatSession.knowledge_base_id` |
| `deleting` | a hard deletion: the documents and sessions it read, and the turns its purge of citations can see |
| `kbs`, `docs` | rows of knowledge bases, documents that retrieval can see |
| `messages`, `latest`, `streaming`, `live`, `pending`, `loading` | the pinia store: the answers on the screen, `latestReferences`, `streaming`, the stream behind `abortController`, `pendingReferences`, the `loadSession` on its way |

The check of the session's knowledge base and the commit are two steps
(`CheckSession`, `BeginStream`): an unbound session is bound by whoever commits
last, and two questions that found it unbound can bind it one after the other.
`raced` names such sessions. The commit waits for a deletion that has updated
the session's row, and the foreign key refuses a knowledge base that is gone.

`ChatTurn` handles an event in the store in the step that sends it when the store
still listens to that stream (`Deliver`); a stopped stream goes on at the
service. What is left open: the ranking (any set of at most `chat_topk` visible
documents), where a cancelled generator is caught (storing the partial answer or
nothing), whether the connection's end is an error or an end of file. One
`loadSession` is on its way at a time (bound); its answer reads the session when
it arrives. The model is refused (429) only by the status line of its response,
before any event (`services/llm/client.py:191`): that is why no answer mixes two
models. Deleting a session only hides it, so it can be continued. A purge by
knowledge base is a purge of its documents' citations (`deletion.py:121`).

| Run | Instance | Shows |
|---|---|---|
| `chat_service` | 2 knowledge bases, 1 document, 2 turns, 1 citation, 2 rows deleted | `CitationsResolve`, `SessionCitesItsKb`, `BindingAlive`, `SingleModelAnswer` |
| `chat_rebinding` | 3 knowledge bases, 1 document, 3 turns, 1 row deleted | violates `BoundSessionsStay`: two questions of a session that a deletion unbound pass the check, and the second commit moves it away from the knowledge base the first one bound it to |
| `chat_turn` | 1 knowledge base, 1 document, 2 turns, no deletion | `DeltasStayInTheirMessage`, `PanelMatchesScreen`, `ComposerComesBack` |

Two turns are the fewest in which a session is continued, a late event meets
another conversation, or a session is bound again after a deletion; two
knowledge bases are the fewest a session can move between. A rebinding needs the
question that made the session, two that race, and two knowledge bases besides
the one that was deleted. The page's claims do not depend on deletions, which are
composed with the service only.

Fairness (`chat_turn`): `WF` of the events that bring a question to its end: the
model ends its answer or httpx's read of it times out (120 s). None of content
events, fallback, users or disconnects.

Accepted by the code and named by the properties: a citation can dangle when a
deletion overlaps its answer, although
`docs/hard-delete-lifecycle-2026-05-13.md:52` has the citations of a deleted
knowledge base cleaned up; a session bound while its knowledge
base goes keeps a dead id; two questions that race to bind a session leave it
with citations of another knowledge base than its own (`chat_rebinding`); the
panel is filled by an answer whose conversation has been left. Not claimed: an error followed by `done` shows the message as done
(`stores/chat.ts:209-216`); `stop` leaves its message "streaming".

## 6. Accounts and knowledge bases: `Accounts`, `KbAccess`, `Workspace`

A request has two steps: it *begins* (dependencies and guards, on the rows it
loads) and *commits* (what SQLAlchemy flushes); between them other requests
commit. Facts of the code the model rests on:

* Only columns whose value differs from the loaded one are written
  (`Written`, `Flushed`). An UPDATE of a row that is gone raises
  `StaleDataError`; a unique or foreign key that is violated raises too: the
  request fails (`Fail`; `Conflicts` disables the commit).
* A permission update replaces the list row by row against what it loaded
  (`AfterUpdate`, `AfterDelete`); its guards look at the wanted list.
* A deletion of a knowledge base lists the documents, then deletes them, the
  permissions and the row, with foreign-key checks off for the parent.
* Avatars: the old file is unlinked and the new one written before the commit, so
  a request has a third phase, `filed`.

| Run | Instance | Shows |
|---|---|---|
| `workspace` | 2 users, 2 requests, 1 name, 1 knowledge base and document from the start, symmetry of users and requests | `SomeAdmin`, `ForcedChange`, `AvatarsMatchFiles`, `PermissionsAsAsked`, `DocumentsBelong`, `UniqueNames` |

`Init` is any state of a running system between two requests. Two requests are
the fewest that race, and every pair of the twelve kinds does; what a third
could add is a race with the result of the first two, which a later `Init`
covers but for the history variables. The proofs below need no such argument.

Not claimed: a change with the old password can overwrite an administrator's
reset that came between; a multi-file upload leaves its files when it rolls
back; a document stored while its knowledge base goes cannot be reached by
anyone (`orphaned`).

## 7. Signing in: `AuthService`, `AuthStore`

| State | In the code |
|---|---|
| `count`, `memory` | the limiter's Redis counters (value, and whether they expire) and the process's own fallback |
| `attempt` | a login between two awaits: the two reads, the verification, the commit of the failed attempt's row, INCR and EXPIRE of either key, clear, issue |
| `wrong` | history: failed attempts of an account that are on record since its counter last ended |
| `record` | `login_records`, by the jti of their refresh token: absent, live, revoked |
| `tokens`, `refresh`, `leaving` | the auth store: the session it holds, the shared `refreshing` promise, logout requests on their way |

A wrong password is recorded and committed before it is counted
(`auth.py:121-129`). That commit can fail, with the database or because the row
does not fit its columns: the request ends in an error and the attempt is in
neither the table nor a counter (`LoginFails`). The bound is therefore on the
recorded attempts, and says nothing about the others; that the limiter does not
see them is a limit of the code. A Redis call that times out, done or not, counts
in memory (`Increment`, `SetExpiry`, `CountRead`). `Restart` takes the process's memory and requests. A
call that is answered 401 joins the refresh that is under way.

| Run | Instance | Shows |
|---|---|---|
| `auth` | 2 clients behind one address (one of them the browser), 1 account, 2 login records, limit 2, at most 6 recorded wrong passwords, 1 fault; fairness | `RecordedFailuresBounded`, `CountersExpire`, `SessionIsLastLogin`, `RevivedSessionDies` |

With limit 2 the two clients must overlap to exceed it, and one of them goes on
where the other stopped; `MaxWrong` lies above what `RecordedFailuresBounded`
allows with one fault (5), so the bound on the inputs does not make it true. The
browser signs in no more often than there are login records, two: the fewest of
which a late answer can be of the other one.

Fairness: `WF` of the next refresh (access tokens expire while the page is used)
and of the end of a refresh (an answer or a time-out). None of logins, logouts
or the server's handling of a logout.

Not claimed: a fault between INCR and EXPIRE leaves a counter that never expires
(`login_limiter.py:90`), which `CountersExpire` names by `faults > 0`.

## 8. Search and export: `SearchExport`, `SearchStore`

The request flushes the row, sends the Celery task and commits afterwards
(`SendExport`, `CommitExport`); the task commits `running`, writes the zip and
commits the outcome; a worker's death delivers it again. The first read and
commit stand outside the task's try block (`TaskStartFails`), and its handler
commits in the session whose commit may just have failed, without a rollback
(`HandlerFails`): then the message is acknowledged and the row stays pending or
running (`dropped`). Every visit of the page (`visit`, `open`) keeps one handle
(`pollTimer`) for timers of which several can be alive; leaving the page clears
that one, and the store outlives the visit. A status request is under way in a
slot.

| Run | Instance | Shows |
|---|---|---|
| `search_export` | 2 exports, 1 death of a worker or 2 visits of the page, 1 status request at a time; fairness | `DownloadIsWhole`, `OffersLastExport`, `PollingEnds` |

Bounds: a behaviour searches or exports, which share no variable; it has a second
visit or a death of the worker, which meet only in the job's row. Two exports are
the fewest of which a late answer can be of the other one, two visits the fewest
of which a timer can be left behind. `DownloadIsWhole` and `OffersLastExport` are
proved for any number of visits, deaths and status requests together.

Fairness: the worker takes its tasks, requests are served or fail, timers tick.
None of clicks, downloads or deaths.

Named by the properties: a task that runs before its row is committed, or fails
outside its try block, leaves the job pending or running for ever (`dropped`); a
delivery after success sets the job back to running and empties the zip
(`again`); asking again while a poll or a timer of an earlier export is left
offers the earlier file, ends the polling and may leave a timer alive (`raced`).

Not claimed, and visible in the model: with two searches under way the answer that
comes last is shown, also when it is the older one's (`search.ts:44`): no order
of the answers is kept, so `SearchAnswered` carries no property. A page that is
left stops its timer and nothing starts one on the next visit, while
`exportPolling` stays true: a file packed in the meantime is not offered and the
button keeps loading until the page is loaded anew (`SearchView.vue:84`), though
`SearchView.vue:234` promises the download.
Not modelled: `result_count` is the total although the rows stop at 10000.

## 9. Text and retrieval: `TextIndex`, `Retrieval`

`TextIndex` reads a document line by line as `parse_outline` does (a stack of
headings, `flush` at each), cuts a section into pieces as `_semantic_pieces` does
(paragraphs at blank lines; above 256 tokens, here `Whole`, their sentences) and
packs them as `_chunk_section` does (overlap by `_tail_overlap`, `_hard_split` of
what is too large). Of a text only its count is kept: words and Chinese
characters, other characters, all characters; `CountTokens` floors the other
ones divided by four, of a piece as of a joined chunk, so that `---` counts
nothing by itself and the blank lines between pieces count. Each turn of a loop
is an action, each property is checked on every document of the bound. `Retrieval`
runs the nodes of `prepare_citations` on the chunks: the two searches return any
ranking, fusion, loading, de-duplication and the threshold are computed.

| Run | Instance | Shows |
|---|---|---|
| `text_retrieval` | documents of up to 5 lines: text of 6 words, of 3 dots, or of 8 words in 9 characters, each ending a sentence or not; blank lines, page splits, 2 heading levels; limit 6, overlap 2, `Whole` 2. Questions about those of up to 3 lines: 2 citations from up to 2 chunks and one of another document, either of which may be deleted on the way | `TextIsIndexed`, `ChunksBounded`, `CitationsAreBest` |

The lines are at the limit, of no token, and above it (cut into two parts); five
lines let a full chunk's tail meet an oversized piece and a paragraph be cut
into sentences. Which line is a heading, and where a sentence ends, is given with
the line (`_detect_heading`, the sentence pattern); a line with several
sentences is several lines of the model.

`TextIsIndexed` is about text. Heading lines are in the path of the chunks below
them and in no chunk, and `_detect_heading` takes numbered clauses for headings:
one over an empty section is in no chunk (`outline_parser.py:70`;
`tests/test_chunker.py`, `test_empty_section_has_no_chunks`).

Observations: the fallback `if not sections` of the parser is never reached; the
hard split builds the overlap's tail as a chunk of its own, a duplicate
(`chunker.py:79-84`); `chunk_tokens` is no cap
(`docs/stage-5-ingest-progress.md:48` has a limit): `ChunksBounded` is the real
one, twice the limit and the overlap, and 5/4 of a token for each piece, since
pieces that count nothing fill no chunk; up to 275 citations (`Reach`; the default
is 6) every fused score reaches the threshold of 0.05, which therefore never
refuses an answer. A search over several knowledge bases merges normalised fused
scores with raw ones of a single track (`retriever.py:421-424`,
`search_service.py:88`); that merge is not modelled.

## 10. What is proved

Every safety property of every passing run is a theorem, for all values of the constants
under the assumptions of its modules, all of which TLC evaluates:
`ConstantsAssumption` (distinct null values, natural bounds), `OcrConstants`
(also: a positive queue size, integer priorities), `ChatConstants`,
`AccountConstants` and `KbConstants` (null values, the file from before and the
first rows differ from what requests make), `AuthConstants` and `StoreConstants`
(a positive limit, finitely many clients, the browser one of them),
`ExportConstants` (jobs are numbers), `TextConstants` and `RetrievalConstants`
(no empty line, positive levels and limit; chunks of the other document have
numbers of their own).

| Module | Theorems |
|---|---|
| `IngestProofs` | `InductiveInvariant`, `TypeCorrect`, `NothingOrphaned`, `ReadyIsComplete`, `SuccessIsRecorded`, `NobodyStranded`, `OnlyRequestsDeleteDocuments`; `SessionsInvariant`, `SuccessReleasesOcr`; `CustodyInvariant`, `ResumedPollsAreLive`, `OneIndexCopy`; `ReceiptsImplementLedger` |
| `OcrProofs` | `OcrInvariant`, `OcrTypeCorrect`, `CompletedCanBeFetched`, `AbandonedThreadsAreFailed`, `MetadataMatches`, `OutcomesAreFinal` |
| `ChatProofs` | `ChatInvariant`, `StoredCitationsResolve`, `ConversationsCiteTheirKb`, `BindingsAreAlive`, `AnswersAreOfOneModel`; `TheStoreIsServed`, `TurnInvariant`, `DeltasFindTheirMessage`, `PanelBelongsToTheScreen` |
| `WorkspaceProofs` | `WorkspaceInvariant`, `WorkspaceTypes`, `AnAdministratorRemains`, `ResetsForceAChange`, `ListsAreAsAsked`, `DocumentsGoWithTheirKb`, `NamesAreUnique`, `FilesAreTheAvatars` |
| `AuthProofs` | `AuthInvariant`, `AuthTypes`, `EveryCounterExpires`, `TokensAreOfTheLastLogin`, `RecordedFailuresAreBounded` |
| `SearchProofs` | `SearchInvariant`, `DownloadsAreWhole`, `LastExportIsOffered` |
| `RetrievalProofs` | `TextInvariant`, `EveryTextLineIsIndexed`, `ChunksStayBounded`; `RagInvariant`, `CitationsAreTheBest` |
| `NatRecursion` | lemmas only: every set of numbers has a least one, induction over a set, a recursive function exists |

**Pipeline.** `IngestInvariant` holds the inductive invariants; TLC checked them
with a repeated delivery, with two jobs and with crashes before the proofs.

* `References`, `JobRowsMatch`, `DataRowsMatch`: whatever names a job names a
  committed one, and rows exist only under their parents. `NoOrphanRows` is not
  inductive alone: a commit must know that its job's document is the one present.
* `CancelledAreGone`: a worker on the cancelled path deletes; that deletes
  nothing alive only because a deleted document never returns
  (`OnlyRequestsDelete`).
* `RowsLocked`: a transaction that has deleted rows still has them to replace, so
  a commit never takes the count of rows below one, also when two jobs interleave.
* `StepsRecorded`, `StepsWritten`, `PdfKept`: a worker's position tells which
  receipts, rows and files exist; at `Finalize` they give `ReadyComplete` and
  `SucceededLedger`.
* `UnsettledInHand`: somebody will still write an unsettled status, or the job's
  last run is known to have been dropped. It is stronger than
  `StrandedOnlyIfDropped` in not counting a worker that is only about to
  re-raise.
* `UploadRecorded`, `FreshKnown`, `SessionHeld`: who knows the session id, and
  that past the release the session is gone (`SucceededReleasesOcr`).
* `SoleCustody`: without a repeated delivery a job is with one request, one
  message or one worker, so what a worker read about its job stays true.
  `SessionsOwned`: a session in a receipt, in a worker's hands or just uploaded
  is of one job. From both, `LiveUntilPolled` (a recorded session lives until
  its result was fetched) and `HeldApart` give `PollsLiveSession`. `SeenAll`:
  the one worker of a document's one job replaces all the rows there are, which
  gives `SingleIndexCopy`.

**OCR service.** A waiting session is untouched (`QueuedIsUntouched`), the worker's
session is the one it says it runs (`WorkerMatches`), a thread that succeeded has
written the result (`ResultWritten`).

**Chat.** `CitationsResolve` is broken by a step of the service long after the
deletion, so the invariant `ChatInductive` carries what a *stream* may cite: a
document it holds exists, is being deleted (and then known to `overlap`), or was
(`StreamsPlaced`, `OverlapKnown`); the same of stored rows, with the
binding of their session (`RowsPlaced`); what a deletion took
when it began is what it takes at its commit (`DeletionScope`); a session not
made yet is in nobody's hands (`NewSessionUnused`); a checked or accepted
question waits for its session's knowledge base, for one without documents, or
is of a session that is raced for (`StreamBound`), and two that are binding one
session are known to race (`BindersKnown`); a stream has heard only the model of its phase (`OneModel`). `TheStoreIsServed` is the
refinement: `ChatTurn`, page and service together, implements `ChatService`, so
all of this holds beside the page too. The page then needs that the message of
the stream it listens to is on the screen, or the screen has moved on
(`LiveOnScreen`), and that a session being loaded exists (`LoadingExists`): loaded
messages replace the screen, and a delta after that must still find its own.

**Workspace.** A request decides on what it loaded, so the invariant says what of
that is still true at the commit: which facts every request under way
established and no other request can undo, short of what the history variables
record (`AccountsLook`, `KbsLook`), and that what a
request makes is not there before the request is over (`MadeByTheirRequest`). For the avatars the invariant has to speak of the time between a file's move
and the row's commit: the disk then holds the new files of the requests in
between and no longer their old ones (`FilesFollow`), the new ones are nobody's
yet (`NewFilesUnseen`), and no two users share a file (`AvatarsDiffer`).

**Signing in.** `CountersExpire` needs that an attempt past its start has an
account (`AttemptsHaveAccounts`); `SessionIsLastLogin` that a login can only be
issued to a browser that has left its session (`LoginIsFirst`) and that a refresh
not raced by a logout is of the current session (`RefreshIsOfCurrent`).
`RecordedFailuresBounded` counts: the recorded failures so far are in the counter,
about to be counted, or lost to a fault (`CountsFollow`), and together with the
logins that have already passed the limiter they keep the bound
(`TriesBounded`), since
a client is in at most one of the two sets.

**Search.** A zip called succeeded is closed and no run of its task is open
(`ZipsAreClosed`), so a download under way still reads what it was promised
(`DownloadsSucceeded`). Without a race all timers, creations and status
requests left are of the export asked for last, whatever
pages were left in between (`RemainsOfLast`).

**Text and retrieval.** Every line read is in the section being read or a flushed
one (`LinesKept`); the piece of every line the packing has passed is in a chunk, in
all its parts, or in the chunk being packed (`PiecesKept`), whose pieces, counted
one by one, are within the bound, and no more than the tokens the code keeps
(`PackedBounded`) - the step that could lose a line or exceed the bound is a full
chunk followed by an oversized piece. Joined text counts more than its pieces by
less than 5/4 of a token each (`JoinsAddLittle`): three quarters that a piece's
floor drops, and half a token for two line feeds. The totals and the tail of
`TailOverlap` are lemmas by induction over positions. Of a
question, `RagInductive` says that what was fused was on a track, what was loaded
was fused, and what was cited is the best of it. Sorting is by rank, the number
of kept positions before one: the lemmas show that `Before` orders, that every
rank is taken once, hence that the first of every place exists and stays
(`DedupeCites`). For the hit, `DenominatorIsCommon` makes all weights exact
numbers, and `LastRankReaches` compares the last rank with the threshold.

Only model-checked: the liveness properties (`EventuallySettled`,
`ProcessedWhileFilesStay`, `ComposerComesBack`, `RevivedSessionDies`, `PollingEnds`),
which are out of the proof system's reach, as `ENABLED` is. Induction over data is
done with sets and functions (`NatRecursion`), since the library's theorems with an
operator as parameter cannot be used. The type invariants of the modules of
sections 5 to 9 are proved as parts of the inductive ones (`ServiceTypeOK`,
`StoreTypeOK`, `WorkspaceTypes`, `AuthTypes`, `ServerTypeOK`, `PageTypeOK`,
`TextTypeOK`) and are part of no run.

## 11. Limits

* The pipeline sees the OCR service as sessions that are live or gone; the two
  are not composed. That `SucceededReleasesOcr` also means "gone for good" needs
  a session not being processed when it is deleted: the job deletes after it has
  fetched a completed result.
* MySQL/SeekDB's locking is modelled by the orderings named in sections 3, 5 and
  6, not by a lock table.
* The limiter of LLM calls is not modelled: no property of the answers depends on
  when a call is let through.
* The OCR client's own retries are collapsed into the outcome of a call; results
  formats, the legacy status file of the OCR service, texts of citations,
  snippets and errors are abstracted.
* Not modelled: page boxes (arithmetic on one box), dashboard, health, PDF
  preview (read-only queries and signed links), seeding, migrations, evaluation
  scripts, views other than the handlers named above, deployment. None of them
  has interleavings of its own.
