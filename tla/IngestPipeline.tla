--------------------------- MODULE IngestPipeline ---------------------------
(***************************************************************************)
(* The document ingestion pipeline: the document API (upload, retry,       *)
(* delete), the Celery broker with acks_late, and the workers running      *)
(* process_ingest_job against the database, the upload directory and the   *)
(* OCR service.                                                            *)
(*                                                                         *)
(* process_ingest_job commits after every step.  Between two commits lies  *)
(* a SEGMENT: the cancellation check, the lookup of the step's receipt,    *)
(* the work, and the writes committed together.  A worker's position is a  *)
(* segment and a phase in it:                                              *)
(*   check   before _raise_if_cancelled (segment 0: before the row lock)   *)
(*   work    transaction open, check passed, receipt looked up             *)
(*   record  work done, writes not yet committed                           *)
(*   except  an exception was raised and rolled back                       *)
(*   dead    the re-check passed, mark_dead_letter not yet committed       *)
(*   raise   the exception is about to leave the task                      *)
(*   cancel  the task found its document deleted                           *)
(* Row locks make the commit of a segment atomic with respect to a         *)
(* deletion: both begin by locking the document row.                       *)
(***************************************************************************)
EXTENDS Integers, FiniteSets

CONSTANTS
    Docs,             \* document ids
    Jobs,             \* ids of ingest jobs (one per upload or retry request)
    Sessions,         \* ids of OCR sessions
    Workers,          \* Celery worker slots of the "ingest" queue
    NoDoc,            \* jobDoc of a job that does not exist yet
    NoJob,            \* wJob of an idle worker
    NoSession,        \* None, where a session id is expected
    MaxRetries,       \* Celery max_retries of ingest.process (5 in the code)
    MaxCrashes,       \* bound: workers lost while running a task
    MaxRedeliveries,  \* bound: deliveries repeated while the first still runs
    MaxLostUploads,   \* bound: OCR uploads whose response is lost
    MaxAborts         \* bound: API requests that die between two of their steps

ASSUME ConstantsAssumption ==
    /\ NoDoc \notin Docs
    /\ NoJob \notin Jobs
    /\ NoSession \notin Sessions
    /\ {MaxRetries, MaxCrashes, MaxRedeliveries, MaxLostUploads,
        MaxAborts} \subseteq Nat

(***************************************************************************)
(* Segments, in execution order.  Those in ReceiptSteps end with a row in  *)
(* ingest_step_receipts; the others only move the document's status.       *)
(***************************************************************************)
Claim           == 0
UploadToOcr     == 1
PollAndFetchOcr == 2
ReleaseOcr      == 3
ParseOutline    == 4
SectionChunk    == 5
EmbedBatch      == 6
BeginIndexing   == 7
TrackAWrite     == 8
TrackBWrite     == 9
AssetRegister   == 10
Finalize        == 11

Segments      == 0..11
StatusSteps   == {ReleaseOcr, BeginIndexing}
IndexSteps    == {TrackAWrite, TrackBWrite, AssetRegister}
ReceiptSteps  == (1..11) \ StatusSteps
CachedSteps   == {UploadToOcr, PollAndFetchOcr, ParseOutline, SectionChunk, EmbedBatch}

Phases       == {"idle", "check", "work", "record", "except", "dead", "raise", "cancel"}
LiveStatus   == {"pending", "ocr", "embedding", "vector_indexing", "ready", "failed"}
Settled      == {"ready", "failed"}
JobRowStatus == {"queued", "running", "succeeded", "dead"}
FileKinds    == {"pdf", "markdown", "assets"}
Message      == [job : Jobs, tries : 0..MaxRetries]

VARIABLES
    docStatus,     \* documents.status; "absent" before the row, "deleted" after it
    jobStatus,     \* document_ingest_jobs.status; "none" before, "gone" after
    jobDoc,        \* document_ingest_jobs.document_id
    receipts,      \* steps of a job with a row in ingest_step_receipts
    upSession,     \* payload of a job's upload_to_ocr receipt
    rows,          \* copies of a document's chunk / page / asset rows
    parseRow,      \* whether document_parse_results has the document's row
    files,         \* the document's files in the upload directory
    session,       \* OCR service: "unused", "live" or "gone" sessions
    queue,         \* messages waiting in the broker
    unsent,        \* jobs committed by a request that has not sent its task yet
    lost,          \* jobs whose request ended before it sent the task
    delPhase,      \* delete request of a document: "none", "collected", "committed"
    delPaths,      \* file paths the delete request collected
    phase, seg,    \* position of each worker
    wJob, wTries,  \* message each worker holds (unacknowledged)
    held,          \* the worker's ocr_session_id
    fresh,         \* session just uploaded, receipt not committed
    hit,           \* whether the step's receipt was found
    seen,          \* rows the segment's transaction found (deleted or updated)
    exc,           \* "transient" (OCRTransient) or "fatal" exception in flight
    dropped,       \* jobs of which a run ended without a report, and none began since
    crashes, redeliveries, lostUploads, aborts

docVars    == <<docStatus, jobStatus, jobDoc>>
ledgerVars == <<receipts, upSession>>
dataVars   == <<rows, parseRow>>
dbVars     == <<docStatus, jobStatus, jobDoc, receipts, upSession, rows, parseRow>>
apiVars    == <<unsent, lost, delPhase, delPaths>>
localVars  == <<wJob, wTries, held, fresh, hit, seen, exc>>
taskVars   == <<phase, seg, wJob, wTries, held, fresh, hit, seen, exc>>
envVars    == <<dropped, crashes, redeliveries, lostUploads, aborts>>
vars == <<docStatus, jobStatus, jobDoc, receipts, upSession, rows, parseRow,
          files, session, queue, unsent, lost, delPhase, delPaths,
          phase, seg, wJob, wTries, held, fresh, hit, seen, exc, dropped,
          crashes, redeliveries, lostUploads, aborts>>

TypeOK ==
    /\ docStatus \in [Docs -> LiveStatus \cup {"absent", "deleted"}]
    /\ jobStatus \in [Jobs -> JobRowStatus \cup {"none", "gone"}]
    /\ jobDoc \in [Jobs -> Docs \cup {NoDoc}]
    /\ receipts \in [Jobs -> SUBSET ReceiptSteps]
    /\ upSession \in [Jobs -> Sessions \cup {NoSession}]
    /\ rows \in [IndexSteps -> [Docs -> Nat]]
    /\ parseRow \in [Docs -> BOOLEAN]
    /\ files \in [Docs -> SUBSET FileKinds]
    /\ session \in [Sessions -> {"unused", "live", "gone"}]
    /\ queue \in SUBSET Message
    /\ unsent \in SUBSET Jobs
    /\ lost \in SUBSET Jobs
    /\ delPhase \in [Docs -> {"none", "collected", "committed"}]
    /\ delPaths \in [Docs -> SUBSET FileKinds]
    /\ phase \in [Workers -> Phases]
    /\ seg \in [Workers -> Segments]
    /\ wJob \in [Workers -> Jobs \cup {NoJob}]
    /\ wTries \in [Workers -> 0..MaxRetries]
    /\ held \in [Workers -> Sessions \cup {NoSession}]
    /\ fresh \in [Workers -> Sessions \cup {NoSession}]
    /\ hit \in [Workers -> BOOLEAN]
    /\ seen \in [Workers -> Nat]
    /\ exc \in [Workers -> {"transient", "fatal"}]
    /\ dropped \in SUBSET Jobs
    /\ crashes \in 0..MaxCrashes
    /\ redeliveries \in 0..MaxRedeliveries
    /\ lostUploads \in 0..MaxLostUploads
    /\ aborts \in 0..MaxAborts

Init ==
    /\ docStatus = [d \in Docs |-> "absent"]
    /\ jobStatus = [j \in Jobs |-> "none"]
    /\ jobDoc = [j \in Jobs |-> NoDoc]
    /\ receipts = [j \in Jobs |-> {}]
    /\ upSession = [j \in Jobs |-> NoSession]
    /\ rows = [s \in IndexSteps |-> [d \in Docs |-> 0]]
    /\ parseRow = [d \in Docs |-> FALSE]
    /\ files = [d \in Docs |-> {}]
    /\ session = [s \in Sessions |-> "unused"]
    /\ queue = {}
    /\ unsent = {}
    /\ lost = {}
    /\ delPhase = [d \in Docs |-> "none"]
    /\ delPaths = [d \in Docs |-> {}]
    /\ phase = [w \in Workers |-> "idle"]
    /\ seg = [w \in Workers |-> Claim]
    /\ wJob = [w \in Workers |-> NoJob]
    /\ wTries = [w \in Workers |-> 0]
    /\ held = [w \in Workers |-> NoSession]
    /\ fresh = [w \in Workers |-> NoSession]
    /\ hit = [w \in Workers |-> FALSE]
    /\ seen = [w \in Workers |-> 0]
    /\ exc = [w \in Workers |-> "fatal"]
    /\ dropped = {}
    /\ crashes = 0
    /\ redeliveries = 0
    /\ lostUploads = 0
    /\ aborts = 0

-----------------------------------------------------------------------------
(***************************************************************************)
(* Helpers.                                                                *)
(***************************************************************************)
Present(d) == docStatus[d] \in LiveStatus

Doc(w) == jobDoc[wJob[w]]

Active(w) == phase[w] # "idle"

At(w, p, s) == phase[w] = p /\ seg[w] = s

\* The paths stored in documents, document_parse_results and document_assets.
RecordedPaths(d) ==
    (IF Present(d) THEN {"pdf"} ELSE {})
    \cup (IF parseRow[d] THEN {"markdown"} ELSE {})
    \cup (IF rows[AssetRegister][d] > 0 THEN {"assets"} ELSE {})

\* The marks "deleting" and "cancel_requested" are set and the rows removed in
\* one transaction, so other transactions see the deletion all at once.
HardDeleteDocument(d) ==
    /\ docStatus' = [docStatus EXCEPT ![d] = IF Present(d) THEN "deleted" ELSE @]
    /\ jobStatus' = [j \in Jobs |-> IF jobDoc[j] = d THEN "gone" ELSE jobStatus[j]]
    /\ receipts' = [j \in Jobs |-> IF jobDoc[j] = d THEN {} ELSE receipts[j]]
    /\ upSession' = [j \in Jobs |-> IF jobDoc[j] = d THEN NoSession ELSE upSession[j]]
    /\ rows' = [s \in IndexSteps |-> [rows[s] EXCEPT ![d] = 0]]
    /\ parseRow' = [parseRow EXCEPT ![d] = FALSE]
    /\ UNCHANGED jobDoc

\* What every check of process_ingest_job tests.  The session keeps attribute
\* values across commits (expire_on_commit=False), so the missing row is what
\* a check can see of a committed deletion.
IsCancelledOrDeleted(w) ==
    ~Present(Doc(w)) \/ jobStatus[wJob[w]] \notin JobRowStatus

\* Mutation: the job id is missing from the receipt key.
KeyWithoutJob(w) == \E j \in Jobs : jobDoc[j] = Doc(w) /\ seg[w] \in receipts[j]

\* Mutation: poll_and_fetch_ocr runs again although its receipt exists.
PollRepeated(w) == seg[w] # PollAndFetchOcr /\ seg[w] \in receipts[wJob[w]]

\* The receipt key is job:step:hash(input); the input is determined by the job.
ReceiptFound(w) == seg[w] \in receipts[wJob[w]]

\* Mutation: no unique key, a second insert overwrites the receipt.
NoUniqueKey(w) == FALSE

\* The unique key makes the insert fail when another delivery of the same job
\* recorded the step after this one looked.
ReceiptClash(w) == seg[w] \in ReceiptSteps /\ ~hit[w] /\ ReceiptFound(w)

\* Worker v is inside a transaction that holds a lock on its job row: claiming
\* it, inserting a receipt that refers to it, finalizing it or marking it dead.
LocksJob(v) ==
    \/ At(v, "check", Claim)
    \/ phase[v] = "record" /\ (seg[v] = Finalize \/ (seg[v] \in ReceiptSteps /\ ~hit[v]))
    \/ phase[v] = "dead"

\* Mutation: no foreign key stops a late insert.
NoForeignKey(w) == FALSE

\* Does committing the segment write a row that refers to the document?
WritesRows(w) == seg[w] \notin CachedSteps \/ ~hit[w]

\* Mutation: transient errors are retried for ever.
RetriesUnbounded(w) == exc[w] = "transient"

\* Celery's autoretry applies to OCRTransient while attempts remain.
CanRetry(w) == exc[w] = "transient" /\ wTries[w] < MaxRetries

Enqueue(j, n) == queue' = queue \cup {[job |-> j, tries |-> n]}

\* The broker restores the message a worker has not acknowledged.
Restore(w) == Enqueue(wJob[w], wTries[w])

\* Mutation: an error of DELETE /session is ignored.
DeleteSessionIgnored(ids) == UNCHANGED session

\* delete_session: an answer of 404 counts as deleted.
DeleteSession(ids) ==
    session' = [s \in Sessions |-> IF s \in ids THEN "gone" ELSE session[s]]

\* acks_late: the message is acknowledged only after the task's last commit, and
\* a worker lost in between leaves it to be delivered again.
AckOrCrash(w) ==
    \/ UNCHANGED <<queue, crashes>>
    \/ crashes < MaxCrashes /\ crashes' = crashes + 1 /\ Restore(w)

\* The task leaves its worker.
EndTask(w) ==
    /\ phase' = [phase EXCEPT ![w] = "idle"]
    /\ seg' = [seg EXCEPT ![w] = Claim]
    /\ wJob' = [wJob EXCEPT ![w] = NoJob]
    /\ wTries' = [wTries EXCEPT ![w] = 0]
    /\ held' = [held EXCEPT ![w] = NoSession]
    /\ fresh' = [fresh EXCEPT ![w] = NoSession]
    /\ hit' = [hit EXCEPT ![w] = FALSE]
    /\ seen' = [seen EXCEPT ![w] = 0]
    /\ exc' = [exc EXCEPT ![w] = "fatal"]

\* The run will not report: no status is written and no retry is scheduled.
Drop(w) ==
    /\ dropped' = dropped \cup {wJob[w]}
    /\ UNCHANGED <<crashes, redeliveries, lostUploads, aborts>>

Goto(w, p) == phase' = [phase EXCEPT ![w] = p] /\ UNCHANGED seg

NextSegment(w) ==
    /\ phase' = [phase EXCEPT ![w] = "check"]
    /\ seg' = [seg EXCEPT ![w] = @ + 1]

Raise(w, kind) ==
    /\ Goto(w, "except")
    /\ exc' = [exc EXCEPT ![w] = kind]

-----------------------------------------------------------------------------
(***************************************************************************)
(* The document API.                                                       *)
(***************************************************************************)

\* _stage_document_upload writes the PDF before the rows exist.
StageUpload(d) ==
    /\ docStatus[d] = "absent"
    /\ "pdf" \notin files[d]
    /\ files' = [files EXCEPT ![d] = @ \cup {"pdf"}]
    /\ UNCHANGED <<dbVars, session, queue, apiVars, taskVars, envVars>>

AddJob(d, j) ==
    /\ jobStatus[j] = "none"
    /\ docStatus' = [docStatus EXCEPT ![d] = "pending"]
    /\ jobStatus' = [jobStatus EXCEPT ![j] = "queued"]
    /\ jobDoc' = [jobDoc EXCEPT ![j] = d]
    /\ unsent' = unsent \cup {j}
    /\ UNCHANGED <<ledgerVars, dataVars, files, session, queue, lost,
                   delPhase, delPaths, taskVars, envVars>>

CommitUpload(d, j) ==
    /\ docStatus[d] = "absent"
    /\ "pdf" \in files[d]
    /\ AddJob(d, j)

\* retry_document adds a job whatever the document's other jobs are doing.
RetryDocument(d, j) ==
    /\ Present(d)
    /\ AddJob(d, j)

SendIngestTask(j) ==
    /\ j \in unsent
    /\ unsent' = unsent \ {j}
    /\ Enqueue(j, 0)
    /\ UNCHANGED <<dbVars, files, session, lost, delPhase, delPaths, taskVars, envVars>>

Abort == aborts < MaxAborts /\ aborts' = aborts + 1

\* The API process dies, or the broker refuses, after the commit.
SendFails(j) ==
    /\ j \in unsent
    /\ unsent' = unsent \ {j}
    /\ lost' = lost \cup {j}
    /\ Abort
    /\ UNCHANGED <<dbVars, files, session, queue, delPhase, delPaths, taskVars,
                   dropped, crashes, redeliveries, lostUploads>>

\* delete_document, delete_documents_batch: the paths are read first, ...
DeleteCollect(d) ==
    /\ Present(d)
    /\ delPhase[d] = "none"
    /\ delPhase' = [delPhase EXCEPT ![d] = "collected"]
    /\ delPaths' = [delPaths EXCEPT ![d] = RecordedPaths(d)]
    /\ UNCHANGED <<dbVars, files, session, queue, unsent, lost, taskVars, envVars>>

\* ... then one transaction removes every row, ...
DeleteCommit(d) ==
    /\ delPhase[d] = "collected"
    /\ HardDeleteDocument(d)
    /\ delPhase' = [delPhase EXCEPT ![d] = "committed"]
    /\ UNCHANGED <<files, session, queue, unsent, lost, delPaths, taskVars, envVars>>

\* Mutation: the files are unlinked before the transaction.
UnlinkFirst(d) ==
    /\ delPhase[d] = "collected"
    /\ files' = [files EXCEPT ![d] = @ \ delPaths[d]]
    /\ UNCHANGED <<dbVars, session, queue, apiVars, taskVars, envVars>>

\* ... then the collected files are unlinked.
DeleteFiles(d) ==
    /\ delPhase[d] = "committed"
    /\ files' = [files EXCEPT ![d] = @ \ delPaths[d]]
    /\ delPhase' = [delPhase EXCEPT ![d] = "none"]
    /\ delPaths' = [delPaths EXCEPT ![d] = {}]
    /\ UNCHANGED <<dbVars, session, queue, unsent, lost, taskVars, envVars>>

\* The request dies between two of its steps.
DeleteAborts(d) ==
    /\ delPhase[d] # "none"
    /\ delPhase' = [delPhase EXCEPT ![d] = "none"]
    /\ delPaths' = [delPaths EXCEPT ![d] = {}]
    /\ Abort
    /\ UNCHANGED <<dbVars, files, session, queue, unsent, lost, taskVars,
                   dropped, crashes, redeliveries, lostUploads>>

-----------------------------------------------------------------------------
(***************************************************************************)
(* The broker (external: Celery over Redis, as celery_app.py configures    *)
(* it: acks_late, reject_on_worker_lost).                                  *)
(***************************************************************************)
Deliver(w, m) ==
    /\ phase[w] = "idle"
    /\ m \in queue
    /\ queue' = queue \ {m}
    /\ phase' = [phase EXCEPT ![w] = "check"]
    /\ seg' = [seg EXCEPT ![w] = Claim]
    /\ wJob' = [wJob EXCEPT ![w] = m.job]
    /\ wTries' = [wTries EXCEPT ![w] = m.tries]
    /\ UNCHANGED <<dbVars, files, session, apiVars, held, fresh, hit, seen, exc, envVars>>

\* A lost worker's unacknowledged message goes back to the queue; its open
\* transaction is rolled back, its files and OCR sessions stay.
WorkerCrash(w) ==
    /\ Active(w)
    /\ crashes < MaxCrashes
    /\ crashes' = crashes + 1
    /\ Restore(w)
    /\ EndTask(w)
    /\ UNCHANGED <<dbVars, files, session, apiVars, dropped, redeliveries, lostUploads, aborts>>

\* The visibility timeout passes: the message is delivered again although the
\* worker that holds it is alive.
Redeliver(w) ==
    /\ Active(w)
    /\ redeliveries < MaxRedeliveries
    /\ redeliveries' = redeliveries + 1
    /\ Restore(w)
    /\ UNCHANGED <<dbVars, files, session, apiVars, taskVars, dropped, crashes, lostUploads, aborts>>

-----------------------------------------------------------------------------
(***************************************************************************)
(* process_ingest_job, start: lock the job, load the document, claim.      *)
(***************************************************************************)
StartGone(w) ==
    /\ At(w, "check", Claim)
    /\ ~Present(Doc(w))
    /\ Goto(w, "cancel")
    /\ UNCHANGED <<dbVars, files, session, queue, apiVars, localVars, envVars>>

\* SKIP LOCKED returned no row because another delivery of the job holds its
\* lock: ValueError, raised outside the try block.
StartLocked(w) ==
    /\ At(w, "check", Claim)
    /\ Present(Doc(w))
    /\ \E v \in Workers \ {w} : wJob[v] = wJob[w] /\ LocksJob(v)
    /\ EndTask(w)
    /\ UNCHANGED <<dbVars, files, session, queue, apiVars, envVars>>

\* A database error before the try block, or SKIP LOCKED returned no row because
\* a deletion that has not committed (and may still fail) holds the job's lock:
\* the exception is none that Celery retries, and the message is acknowledged.
StartFails(w) ==
    /\ At(w, "check", Claim)
    /\ Drop(w)
    /\ EndTask(w)
    /\ UNCHANGED <<dbVars, files, session, queue, apiVars>>

StartClaim(w) ==
    /\ At(w, "check", Claim)
    /\ ~IsCancelledOrDeleted(w)
    /\ jobStatus' = [jobStatus EXCEPT ![wJob[w]] = "running"]
    /\ docStatus' = [docStatus EXCEPT ![Doc(w)] = "ocr"]
    /\ dropped' = dropped \ {wJob[w]}
    /\ NextSegment(w)
    /\ UNCHANGED <<jobDoc, ledgerVars, dataVars, files, session, queue, apiVars, localVars,
                   crashes, redeliveries, lostUploads, aborts>>

(***************************************************************************)
(* The head of a segment: _raise_if_cancelled, then the receipt lookup in  *)
(* the same transaction.  No check stands before upload_to_ocr, and        *)
(* ocr_session_id is assigned only after the check that follows it.        *)
(***************************************************************************)
CheckCancelled(w) ==
    /\ phase[w] = "check"
    /\ seg[w] > UploadToOcr
    /\ IsCancelledOrDeleted(w)
    /\ Goto(w, "cancel")
    /\ UNCHANGED <<dbVars, files, session, queue, apiVars, localVars, envVars>>

CheckPassed(w) ==
    /\ phase[w] = "check"
    /\ seg[w] # Claim
    /\ seg[w] = UploadToOcr \/ ~IsCancelledOrDeleted(w)
    /\ Goto(w, "work")
    /\ hit' = [hit EXCEPT ![w] = ReceiptFound(w)]
    /\ held' = IF seg[w] = PollAndFetchOcr
               THEN [held EXCEPT ![w] = upSession[wJob[w]]] ELSE held
    /\ seen' = [seen EXCEPT ![w] = IF seg[w] = Finalize /\ parseRow[Doc(w)] THEN 1 ELSE 0]
    /\ UNCHANGED <<dbVars, files, session, queue, apiVars, wJob, wTries, fresh, exc, envVars>>

(***************************************************************************)
(* The work of a segment.                                                  *)
(***************************************************************************)
OcrUpload(w, s) ==
    /\ At(w, "work", UploadToOcr)
    /\ ~hit[w]
    /\ "pdf" \in files[Doc(w)]
    /\ session[s] = "unused"
    /\ session' = [session EXCEPT ![s] = "live"]
    /\ fresh' = [fresh EXCEPT ![w] = s]
    /\ Goto(w, "record")
    /\ UNCHANGED <<dbVars, files, queue, apiVars, wJob, wTries, held, hit, seen, exc, envVars>>

\* The service accepted the file, the response was lost, the client retries.
OcrUploadLost(w, s) ==
    /\ At(w, "work", UploadToOcr)
    /\ ~hit[w]
    /\ "pdf" \in files[Doc(w)]
    /\ session[s] = "unused"
    /\ lostUploads < MaxLostUploads
    /\ session' = [session EXCEPT ![s] = "live"]
    /\ lostUploads' = lostUploads + 1
    /\ UNCHANGED <<dbVars, files, queue, apiVars, taskVars, dropped, crashes, redeliveries, aborts>>

OcrPoll(w) ==
    /\ At(w, "work", PollAndFetchOcr)
    /\ ~hit[w]
    /\ held[w] # NoSession
    /\ session[held[w]] = "live"
    /\ Goto(w, "record")
    /\ UNCHANGED <<dbVars, files, session, queue, apiVars, localVars, envVars>>

OcrRelease(w) ==
    /\ At(w, "work", ReleaseOcr)
    /\ DeleteSession({held[w]})
    /\ held' = [held EXCEPT ![w] = NoSession]
    /\ Goto(w, "record")
    /\ UNCHANGED <<dbVars, files, queue, apiVars, wJob, wTries, fresh, hit, seen, exc, envVars>>

\* A cached OCR step, a pure computation, or the status change before indexing.
Compute(w) ==
    /\ phase[w] = "work"
    /\ \/ seg[w] \in {ParseOutline, SectionChunk, EmbedBatch, BeginIndexing}
       \/ seg[w] \in {UploadToOcr, PollAndFetchOcr} /\ hit[w]
    /\ Goto(w, "record")
    /\ UNCHANGED <<dbVars, files, session, queue, apiVars, localVars, envVars>>

\* Mutation: rows are added without deleting the previous ones.
InsertOnly(w) == 0

RowsToReplace(w) == rows[seg[w]][Doc(w)]

\* write_chunks, write_page_index, register_assets: DELETE by document_id, then
\* insert.  The DELETE waits for rows another transaction has deleted; it
\* does not see rows another transaction has inserted and not committed.
\* register_assets also writes the image files.
WriteIndex(w) ==
    /\ phase[w] = "work"
    /\ seg[w] \in IndexSteps
    /\ \A v \in Workers \ {w} :
          At(v, "record", seg[w]) /\ Doc(v) = Doc(w) => seen[v] = 0
    /\ seen' = [seen EXCEPT ![w] = RowsToReplace(w)]
    /\ files' = IF seg[w] = AssetRegister
                THEN [files EXCEPT ![Doc(w)] = @ \cup {"assets"}] ELSE files
    /\ Goto(w, "record")
    /\ UNCHANGED <<dbVars, session, queue, apiVars, wJob, wTries, held, fresh, hit, exc, envVars>>

WriteMarkdown(w) ==
    /\ At(w, "work", Finalize)
    /\ files' = [files EXCEPT ![Doc(w)] = @ \cup {"markdown"}]
    /\ Goto(w, "record")
    /\ UNCHANGED <<dbVars, session, queue, apiVars, localVars, envVars>>

\* OCRTransient: the service answered busy, overloaded or not ready to all of the
\* client's attempts, or the poll timed out (OCRTimeout).
OcrTransient(w) ==
    /\ phase[w] = "work"
    /\ \/ seg[w] \in {UploadToOcr, PollAndFetchOcr} /\ ~hit[w]
       \/ seg[w] = ReleaseOcr
    /\ Raise(w, "transient")
    /\ UNCHANGED <<dbVars, files, session, queue, apiVars, wJob, wTries, held, fresh, hit, seen, envVars>>

\* Anything else: the service is unreachable, OCR failed or lost the session, an
\* error of the embedding API, the file system or the database.
StepFails(w) ==
    /\ phase[w] \in {"check", "work", "record"}
    /\ Raise(w, "fatal")
    /\ UNCHANGED <<dbVars, files, session, queue, apiVars, wJob, wTries, held, fresh, hit, seen, envVars>>

(***************************************************************************)
(* The commit of a segment.                                                *)
(***************************************************************************)
\* The row a commit refers to is gone (foreign key violation, or an UPDATE that
\* matches no row), the receipt exists already, or another job inserted the
\* parse result this one did not see.
CommitRefused(w) ==
    /\ phase[w] = "record"
    /\ \/ ~Present(Doc(w)) /\ WritesRows(w)
       \/ ReceiptClash(w)
       \/ seg[w] = Finalize /\ parseRow[Doc(w)] /\ seen[w] = 0
    /\ Raise(w, "fatal")
    /\ UNCHANGED <<dbVars, files, session, queue, apiVars, wJob, wTries, held, fresh, hit, seen, envVars>>

\* write_receipt: nothing to insert when the step was cached.
WriteReceipt(w) ==
    receipts' = [receipts EXCEPT ![wJob[w]] = IF hit[w] THEN @ ELSE @ \cup {seg[w]}]

CommitCached(w) ==
    /\ phase[w] = "record"
    /\ seg[w] \in CachedSteps
    /\ Present(Doc(w)) \/ ~WritesRows(w)
    /\ ~ReceiptClash(w)
    /\ WriteReceipt(w)
    /\ upSession' = IF seg[w] = UploadToOcr /\ ~hit[w]
                    THEN [upSession EXCEPT ![wJob[w]] = fresh[w]] ELSE upSession
    /\ fresh' = [fresh EXCEPT ![w] = NoSession]
    /\ NextSegment(w)
    /\ UNCHANGED <<docVars, dataVars, files, session, queue, apiVars,
                   wJob, wTries, held, hit, seen, exc, envVars>>

CommitStatus(w) ==
    /\ phase[w] = "record"
    /\ seg[w] \in StatusSteps
    /\ Present(Doc(w))
    /\ docStatus' = [docStatus EXCEPT ![Doc(w)] =
                        IF seg[w] = ReleaseOcr THEN "embedding" ELSE "vector_indexing"]
    /\ NextSegment(w)
    /\ UNCHANGED <<jobStatus, jobDoc, ledgerVars, dataVars, files, session, queue,
                   apiVars, localVars, envVars>>

CommitIndex(w) ==
    /\ phase[w] = "record"
    /\ seg[w] \in IndexSteps
    /\ Present(Doc(w))
    /\ ~ReceiptClash(w)
    /\ rows' = [rows EXCEPT ![seg[w]][Doc(w)] = @ - seen[w] + 1]
    /\ WriteReceipt(w)
    /\ NextSegment(w)
    /\ UNCHANGED <<docVars, upSession, parseRow, files, session, queue, apiVars, localVars, envVars>>

CommitFinalize(w) ==
    /\ At(w, "record", Finalize)
    /\ Present(Doc(w))
    /\ ~ReceiptClash(w)
    /\ parseRow[Doc(w)] => seen[w] = 1
    /\ parseRow' = [parseRow EXCEPT ![Doc(w)] = TRUE]
    /\ docStatus' = [docStatus EXCEPT ![Doc(w)] = "ready"]
    /\ jobStatus' = [jobStatus EXCEPT ![wJob[w]] = "succeeded"]
    /\ WriteReceipt(w)
    /\ EndTask(w)
    /\ AckOrCrash(w)
    /\ UNCHANGED <<jobDoc, upSession, rows, files, session, apiVars, dropped,
                   redeliveries, lostUploads, aborts>>

-----------------------------------------------------------------------------
(***************************************************************************)
(* The exception handlers.                                                 *)
(***************************************************************************)
ExceptRecheck(w) ==
    /\ phase[w] = "except"
    /\ Goto(w, IF IsCancelledOrDeleted(w) THEN "cancel" ELSE "dead")
    /\ UNCHANGED <<dbVars, files, session, queue, apiVars, localVars, envVars>>

\* The database fails the handler too: the rollback, the re-check, or
\* mark_dead_letter and its commit raise in the outage that raised the first
\* error.  The new exception replaces the old one.
HandlerFails(w) ==
    /\ phase[w] \in {"except", "dead"}
    /\ Drop(w)
    /\ Goto(w, "raise")
    /\ exc' = [exc EXCEPT ![w] = "fatal"]
    /\ UNCHANGED <<dbVars, files, session, queue, apiVars, wJob, wTries, held, fresh, hit, seen>>

\* Mutation: only the job is marked.
MarkJobOnly(w) ==
    /\ phase[w] = "dead"
    /\ Present(Doc(w))
    /\ jobStatus' = [jobStatus EXCEPT ![wJob[w]] = "dead"]
    /\ Goto(w, "raise")
    /\ UNCHANGED <<docStatus, jobDoc, ledgerVars, dataVars, files, session, queue,
                   apiVars, localVars, envVars>>

\* mark_dead_letter, on the first exception that is not a cancellation.
MarkDeadLetter(w) ==
    /\ phase[w] = "dead"
    /\ Present(Doc(w))
    /\ docStatus' = [docStatus EXCEPT ![Doc(w)] = "failed"]
    /\ jobStatus' = [jobStatus EXCEPT ![wJob[w]] = "dead"]
    /\ Goto(w, "raise")
    /\ UNCHANGED <<jobDoc, ledgerVars, dataVars, files, session, queue, apiVars, localVars, envVars>>

\* The document was deleted after the re-check: the UPDATE raises.
DeadLetterStale(w) ==
    /\ phase[w] = "dead"
    /\ ~Present(Doc(w))
    /\ Goto(w, "raise")
    /\ exc' = [exc EXCEPT ![w] = "fatal"]
    /\ UNCHANGED <<dbVars, files, session, queue, apiVars, wJob, wTries, held, fresh, hit, seen, envVars>>

\* The exception leaves the task: Celery schedules a retry, or the task fails.
\* Either way the message is acknowledged.  A worker lost between publishing the
\* retry and acknowledging leaves the job two messages: Redeliver, then Reraise.
Reraise(w) ==
    /\ phase[w] = "raise"
    /\ IF CanRetry(w) THEN Enqueue(wJob[w], wTries[w] + 1) ELSE UNCHANGED queue
    /\ EndTask(w)
    /\ UNCHANGED <<dbVars, files, session, apiVars, envVars>>

\* Delete the OCR session the task knows of (best effort), then whatever the
\* database still holds of the document and the files it records.
FinishCancelled(w) ==
    /\ phase[w] = "cancel"
    /\ \E ids \in {{}, {held[w]}} : DeleteSession(ids)
    /\ HardDeleteDocument(Doc(w))
    /\ files' = [files EXCEPT ![Doc(w)] = @ \ RecordedPaths(Doc(w))]
    /\ EndTask(w)
    /\ AckOrCrash(w)
    /\ UNCHANGED <<apiVars, dropped, redeliveries, lostUploads, aborts>>

\* A database error in _finish_cancelled_ingest: nothing is removed.
CancelFails(w) ==
    /\ phase[w] = "cancel"
    /\ \E ids \in {{}, {held[w]}} : DeleteSession(ids)
    /\ EndTask(w)
    /\ UNCHANGED <<dbVars, files, queue, apiVars, envVars>>

-----------------------------------------------------------------------------
WorkerStep(w) ==
    \/ StartGone(w) \/ StartLocked(w) \/ StartFails(w) \/ StartClaim(w)
    \/ CheckCancelled(w) \/ CheckPassed(w)
    \/ \E s \in Sessions : OcrUpload(w, s) \/ OcrUploadLost(w, s)
    \/ OcrPoll(w) \/ OcrRelease(w) \/ Compute(w) \/ WriteIndex(w) \/ WriteMarkdown(w)
    \/ OcrTransient(w) \/ StepFails(w)
    \/ CommitRefused(w) \/ CommitCached(w) \/ CommitStatus(w) \/ CommitIndex(w)
    \/ CommitFinalize(w)
    \/ ExceptRecheck(w) \/ HandlerFails(w) \/ MarkDeadLetter(w) \/ DeadLetterStale(w)
    \/ Reraise(w) \/ FinishCancelled(w) \/ CancelFails(w)

Request ==
    \/ \E d \in Docs : StageUpload(d)
    \/ \E d \in Docs, j \in Jobs : CommitUpload(d, j) \/ RetryDocument(d, j)
    \/ \E d \in Docs : DeleteCollect(d)

RequestStep ==
    \/ \E j \in Jobs : SendIngestTask(j) \/ SendFails(j)
    \/ \E d \in Docs : DeleteCommit(d) \/ DeleteFiles(d) \/ DeleteAborts(d)

Broker ==
    \E w \in Workers : (\E m \in queue : Deliver(w, m)) \/ WorkerCrash(w) \/ Redeliver(w)

Next == Request \/ RequestStep \/ Broker \/ \E w \in Workers : WorkerStep(w)

Spec == Init /\ [][Next]_vars

\* Workers keep running, delivered tasks reach idle workers and request handlers
\* run to their end; users, crashes and timeouts owe nothing.
Fairness ==
    /\ \A w \in Workers : WF_vars(WorkerStep(w))
    /\ WF_vars(\E w \in Workers, m \in queue : Deliver(w, m))
    /\ WF_vars(RequestStep)

FairSpec == Spec /\ Fairness

-----------------------------------------------------------------------------
(***************************************************************************)
(* Properties.                                                             *)
(***************************************************************************)

\* hard_delete_documents removes everything and the foreign keys keep a worker
\* that is still running from putting anything back: without a document row
\* there is no job, receipt, chunk, page, asset or parse row of it.
NoOrphanRows ==
    \A d \in Docs : ~Present(d) =>
        /\ ~parseRow[d]
        /\ \A s \in IndexSteps : rows[s][d] = 0
        /\ \A j \in Jobs : jobDoc[j] = d =>
              jobStatus[j] \notin JobRowStatus /\ receipts[j] = {}

\* A document offered to retrieval is whole: every index has its rows and the
\* PDF, markdown and asset files are on disk, whatever other jobs, retries or
\* deletions of the document are under way.
ReadyComplete ==
    \A d \in Docs : docStatus[d] = "ready" =>
        /\ parseRow[d]
        /\ \A s \in IndexSteps : rows[s][d] > 0
        /\ files[d] = FileKinds

\* A job reported as succeeded has the receipt of each of the nine steps under
\* its own id, even when several deliveries of it shared the work.
SucceededLedger ==
    \A j \in Jobs : jobStatus[j] = "succeeded" => receipts[j] = ReceiptSteps

\* A succeeded job left no session on the OCR service.
SucceededReleasesOcr ==
    \A j \in Jobs : jobStatus[j] = "succeeded" =>
        upSession[j] # NoSession /\ session[upSession[j]] = "gone"

InCustody(d) ==
    \/ \E j \in unsent : jobDoc[j] = d
    \/ \E m \in queue : jobDoc[m.job] = d
    \/ \E w \in Workers : Active(w) /\ Doc(w) = d

\* A document that is neither ready nor failed is in somebody's hands: a request
\* about to send its task, a message, or a worker.  There are two ways to be
\* stranded: pending with a task that was committed and never sent, or by a run
\* that ended outside the handler (database errors) and reported nothing.
StrandedOnlyIfDropped ==
    \A d \in Docs : docStatus[d] \in LiveStatus \ Settled =>
        \/ InCustody(d)
        \/ docStatus[d] = "pending" /\ \E j \in lost : jobDoc[j] = d
        \/ \E j \in dropped : jobDoc[j] = d

\* A worker never removes a document on its own: a live document disappears only
\* in the transaction of a delete request, though _finish_cancelled_ingest runs
\* the same deletion.
OnlyRequestsDelete ==
    [][\A d \in Docs : Present(d) /\ ~Present(d)' => delPhase[d] = "collected"]_vars

\* Resuming a job after a lost worker never polls a session that the job has
\* already released, as long as no message was delivered twice at a time.
PollsLiveSession ==
    redeliveries = 0 =>
        \A w \in Workers : At(w, "work", PollAndFetchOcr) /\ ~hit[w] =>
            held[w] # NoSession /\ session[held[w]] = "live"

OneJob(d) == \A i, j \in Jobs : jobDoc[i] = d /\ jobDoc[j] = d => i = j

\* A job that is resumed any number of times leaves one copy of the index, as
\* long as it is its document's only one and was not delivered twice at a time.
SingleIndexCopy ==
    redeliveries = 0 =>
        \A d \in Docs, s \in IndexSteps : OneJob(d) => rows[s][d] <= 1

\* Every document is eventually ready, failed or deleted, unless its task was
\* never sent or a run of it ended without a report.
EventuallySettled ==
    \A d \in Docs : docStatus[d] = "pending" ~>
        \/ docStatus[d] \in Settled \cup {"deleted"}
        \/ \E j \in lost \cup dropped : jobDoc[j] = d

-----------------------------------------------------------------------------
(***************************************************************************)
(* The receipts implement the abstract step ledger.                        *)
(***************************************************************************)
LedgerState ==
    [j \in Jobs |-> IF jobStatus[j] \in JobRowStatus THEN "open"
                    ELSE IF jobStatus[j] = "none" THEN "none" ELSE "closed"]

Ledger == INSTANCE StepLedger WITH
    Steps <- ReceiptSteps, Payloads <- Sessions, NoPayload <- NoSession,
    state <- LedgerState, done <- receipts, first <- upSession

\* However often a job is delivered, crashed or retried, its receipts are an
\* ordered, write-once record.
ImplementsLedger == Ledger!Spec
=============================================================================
