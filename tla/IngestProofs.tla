---------------------------- MODULE IngestProofs ----------------------------
EXTENDS IngestInvariant, TLAPS

(***************************************************************************)
(* Proofs that the invariants of IngestPipeline hold for every set of      *)
(* documents, jobs, OCR sessions and workers and every bound.              *)
(***************************************************************************)
USE DEF docVars, ledgerVars, dataVars, dbVars, apiVars, localVars, taskVars, envVars

-----------------------------------------------------------------------------
(***************************************************************************)
(* Frames and references.                                                  *)
(***************************************************************************)
\* The steps of a worker that commit nothing to the database.
QuietStep(w) ==
    \/ StartGone(w) \/ StartLocked(w) \/ CheckCancelled(w) \/ CheckPassed(w)
    \/ \E s \in Sessions : OcrUpload(w, s) \/ OcrUploadLost(w, s)
    \/ OcrPoll(w) \/ OcrRelease(w) \/ Compute(w) \/ WriteIndex(w) \/ WriteMarkdown(w)
    \/ OcrTransient(w) \/ StepFails(w) \/ CommitRefused(w)
    \/ StartFails(w) \/ HandlerFails(w) \/ CancelFails(w)
    \/ ExceptRecheck(w) \/ DeadLetterStale(w) \/ Reraise(w)

\* The steps of a request that commit nothing to the database.
QuietRequest ==
    \/ \E d \in Docs : StageUpload(d) \/ DeleteCollect(d) \/ DeleteFiles(d) \/ DeleteAborts(d)
    \/ \E j \in Jobs : SendIngestTask(j) \/ SendFails(j)

LEMMA QuietWorkerFrame ==
    ASSUME NEW w, QuietStep(w)
    PROVE UNCHANGED <<dbVars, apiVars>>
BY DEF QuietStep, StartGone, StartLocked, CheckCancelled, CheckPassed, OcrUpload,
   OcrUploadLost, OcrPoll, OcrRelease, Compute, WriteIndex, WriteMarkdown, OcrTransient,
   StepFails, StartFails, HandlerFails, CancelFails, Drop, CommitRefused, ExceptRecheck,
      DeadLetterStale, Reraise

LEMMA QuietRequestFrame == QuietRequest => UNCHANGED dbVars
BY DEF QuietRequest, StageUpload, DeleteCollect, DeleteFiles, DeleteAborts,
   SendIngestTask, SendFails

LEMMA BrokerFrame == Broker => UNCHANGED <<dbVars, apiVars, files, session>>
BY DEF Broker, Deliver, WorkerCrash, Redeliver

\* The steps of Next by what they do to the database.
LEMMA NextCases ==
    ASSUME Next
    PROVE \/ \E d \in Docs, j \in Jobs : CommitUpload(d, j) \/ RetryDocument(d, j)
          \/ \E d \in Docs : DeleteCommit(d)
          \/ QuietRequest
          \/ Broker
          \/ \E w \in Workers :
                \/ QuietStep(w) \/ StartClaim(w) \/ CommitCached(w) \/ CommitStatus(w)
                \/ CommitIndex(w) \/ CommitFinalize(w) \/ MarkDeadLetter(w)
                \/ FinishCancelled(w)
BY DEF Next, Request, RequestStep, WorkerStep, QuietRequest, QuietStep

LEMMA WorkerJob ==
    ASSUME TypeOK, References, JobRowsMatch, NEW w \in Workers, Active(w)
    PROVE wJob[w] \in Jobs /\ Doc(w) \in Docs
BY DEF TypeOK, References, JobRowsMatch, Committed, Doc

LEMMA TypeRequest ==
    ASSUME TypeOK, References, Request \/ RequestStep
    PROVE TypeOK'
<1> USE ConstantsAssumption DEF TypeOK, LiveStatus, JobRowStatus, FileKinds
<1>1. ASSUME NEW d \in Docs, StageUpload(d) PROVE TypeOK'
  BY <1>1 DEF StageUpload
<1>2. ASSUME NEW d \in Docs, NEW j \in Jobs, AddJob(d, j) PROVE TypeOK'
  BY <1>2 DEF AddJob
<1>3. ASSUME NEW d \in Docs, DeleteCollect(d) PROVE TypeOK'
  BY <1>3 DEF DeleteCollect, RecordedPaths
<1>4. ASSUME NEW j \in Jobs, SendIngestTask(j) PROVE TypeOK'
  BY <1>4 DEF SendIngestTask, Enqueue, Message
<1>5. ASSUME NEW j \in Jobs, SendFails(j) PROVE TypeOK'
  BY <1>5 DEF SendFails, Abort
<1>6. ASSUME NEW d \in Docs, DeleteCommit(d) PROVE TypeOK'
  BY <1>6 DEF DeleteCommit, HardDeleteDocument
<1>7. ASSUME NEW d \in Docs, DeleteFiles(d) PROVE TypeOK'
  BY <1>7 DEF DeleteFiles
<1>8. ASSUME NEW d \in Docs, DeleteAborts(d) PROVE TypeOK'
  BY <1>8 DEF DeleteAborts, Abort
<1> QED
  BY <1>1, <1>2, <1>3, <1>4, <1>5, <1>6, <1>7, <1>8
  DEF Request, RequestStep, CommitUpload, RetryDocument

LEMMA TypeBroker ==
    ASSUME TypeOK, References, Broker
    PROVE TypeOK'
<1> USE ConstantsAssumption DEF TypeOK, Phases, Segments, Claim, Message
<1>1. ASSUME NEW w \in Workers, NEW m \in queue, Deliver(w, m) PROVE TypeOK'
  BY <1>1 DEF Deliver
<1>2. ASSUME NEW w \in Workers, WorkerCrash(w) PROVE TypeOK'
  BY <1>2 DEF WorkerCrash, Restore, Enqueue, EndTask, References, Committed, Active
<1>3. ASSUME NEW w \in Workers, Redeliver(w) PROVE TypeOK'
  BY <1>3 DEF Redeliver, Restore, Enqueue, References, Committed, Active
<1> QED BY <1>1, <1>2, <1>3 DEF Broker

LEMMA TypeWorker ==
    ASSUME TypeOK, References, JobRowsMatch, RowsLocked, NEW w \in Workers, WorkerStep(w)
    PROVE TypeOK'
<1> USE ConstantsAssumption
    DEF TypeOK, Phases, Segments, Claim, Goto, At, Raise
<1>0. Active(w) => wJob[w] \in Jobs /\ Doc(w) \in Docs
  BY WorkerJob
<1>1. CASE StartGone(w)
  BY <1>1 DEF StartGone
<1>2. CASE StartLocked(w)
  BY <1>2 DEF StartLocked, EndTask
<1>3. CASE StartClaim(w)
  BY <1>3, <1>0 DEF StartClaim, Active, Doc, NextSegment, LiveStatus, JobRowStatus
<1>4. CASE CheckCancelled(w)
  BY <1>4 DEF CheckCancelled
<1>5. CASE CheckPassed(w)
  BY <1>5, <1>0 DEF CheckPassed, Active, ReceiptFound
<1>6. ASSUME NEW s \in Sessions, OcrUpload(w, s) PROVE TypeOK'
  BY <1>6 DEF OcrUpload
<1>7. ASSUME NEW s \in Sessions, OcrUploadLost(w, s) PROVE TypeOK'
  BY <1>7 DEF OcrUploadLost
<1>8. CASE OcrPoll(w)
  BY <1>8 DEF OcrPoll
<1>9. CASE OcrRelease(w)
  BY <1>9 DEF OcrRelease, DeleteSession
<1>10. CASE Compute(w)
  BY <1>10 DEF Compute
<1>11. CASE WriteIndex(w)
  BY <1>11, <1>0 DEF WriteIndex, RowsToReplace, Active, FileKinds, IndexSteps
<1>12. CASE WriteMarkdown(w)
  BY <1>12 DEF WriteMarkdown, FileKinds
<1>13. CASE OcrTransient(w)
  BY <1>13 DEF OcrTransient
<1>25. CASE StartFails(w)
  BY <1>25, <1>0 DEF StartFails, Drop, EndTask, Active
<1>27. CASE HandlerFails(w)
  <2>1. dropped' \in SUBSET Jobs
    BY <1>27, <1>0 DEF HandlerFails, Drop, Active
  <2> QED BY <1>27, <2>1 DEF HandlerFails, Drop
<1>26. CASE CancelFails(w)
  BY <1>26 DEF CancelFails, DeleteSession, EndTask
<1>14. CASE StepFails(w)
  BY <1>14 DEF StepFails
<1>15. CASE CommitRefused(w)
  BY <1>15 DEF CommitRefused
<1>16. CASE CommitCached(w)
  BY <1>16, <1>0 DEF CommitCached, WriteReceipt, NextSegment, Active, CachedSteps,
        ReceiptSteps, StatusSteps, UploadToOcr, PollAndFetchOcr, ReleaseOcr, ParseOutline,
        SectionChunk, EmbedBatch, BeginIndexing
<1>17. CASE CommitStatus(w)
  BY <1>17, <1>0 DEF CommitStatus, NextSegment, Active, StatusSteps, LiveStatus,
        ReleaseOcr, BeginIndexing
<1>18. CASE CommitIndex(w)
  BY <1>18, <1>0 DEF CommitIndex, WriteReceipt, NextSegment, RowsLocked, Active,
        IndexSteps, ReceiptSteps, StatusSteps, ReleaseOcr, BeginIndexing, TrackAWrite,
        TrackBWrite, AssetRegister
<1>19. CASE CommitFinalize(w)
  <2>1. crashes' \in 0..MaxCrashes /\ queue' \subseteq [job : Jobs, tries : 0..MaxRetries]
    BY <1>19, <1>0 DEF CommitFinalize, AckOrCrash, Restore, Enqueue, Message, Active
  <2> QED
    BY <1>19, <1>0, <2>1 DEF CommitFinalize, WriteReceipt, EndTask, Active, ReceiptSteps,
          StatusSteps, ReleaseOcr, BeginIndexing, Finalize, LiveStatus, JobRowStatus, Message
<1>20. CASE ExceptRecheck(w)
  BY <1>20 DEF ExceptRecheck
<1>21. CASE MarkDeadLetter(w)
  BY <1>21, <1>0 DEF MarkDeadLetter, Active, LiveStatus, JobRowStatus
<1>22. CASE DeadLetterStale(w)
  BY <1>22 DEF DeadLetterStale
<1>23. CASE Reraise(w)
  <2>1. wJob[w] \in Jobs /\ wTries[w] \in 0..MaxRetries
    BY <1>23, <1>0 DEF Reraise, Active
  <2>2. CASE CanRetry(w)
    <3>1. wTries[w] + 1 \in 0..MaxRetries
      BY <2>1, <2>2 DEF CanRetry
    <3>2. [job |-> wJob[w], tries |-> wTries[w] + 1] \in Message
      BY <2>1, <3>1 DEF Message
    <3>3. queue' = queue \cup {[job |-> wJob[w], tries |-> wTries[w] + 1]}
      BY <1>23, <2>2 DEF Reraise, Enqueue
    <3> QED BY <1>23, <3>2, <3>3 DEF Reraise, EndTask, Message
  <2>3. CASE ~CanRetry(w)
    <3>1. queue' = queue
      BY <1>23, <2>3 DEF Reraise
    <3> QED BY <1>23, <3>1 DEF Reraise, EndTask
  <2> QED BY <2>2, <2>3
<1>24. CASE FinishCancelled(w)
  <2>1. session' \in [Sessions -> {"unused", "live", "gone"}]
    BY <1>24 DEF FinishCancelled, DeleteSession
  <2>2. Doc(w) \in Docs
    BY <1>24, <1>0 DEF FinishCancelled, Active
  <2>3. files' \in [Docs -> SUBSET FileKinds]
    BY <1>24, <2>2 DEF FinishCancelled
  <2>4. crashes' \in 0..MaxCrashes /\ queue' \subseteq [job : Jobs, tries : 0..MaxRetries]
    BY <1>24, <1>0 DEF FinishCancelled, AckOrCrash, Restore, Enqueue, Message, Active
  <2> QED
    BY <1>24, <2>1, <2>2, <2>3, <2>4 DEF FinishCancelled, EndTask, HardDeleteDocument, Message
<1> QED
  BY <1>1, <1>2, <1>3, <1>4, <1>5, <1>6, <1>7, <1>8, <1>9, <1>10, <1>11, <1>12, <1>13,
     <1>14, <1>15, <1>16, <1>17, <1>18, <1>19, <1>20, <1>21, <1>22, <1>23, <1>24, <1>25,
     <1>26, <1>27
  DEF WorkerStep

-----------------------------------------------------------------------------
(***************************************************************************)
(* Who names which job.                                                    *)
(***************************************************************************)
\* A worker's step moves no other worker, and gives the worker no other job.
LEMMA OthersStay ==
    ASSUME TypeOK, NEW w \in Workers, WorkerStep(w)
    PROVE /\ \A v \in Workers \ {w} :
                /\ phase'[v] = phase[v] /\ seg'[v] = seg[v] /\ wJob'[v] = wJob[v]
                /\ hit'[v] = hit[v] /\ seen'[v] = seen[v]
                /\ held'[v] = held[v] /\ fresh'[v] = fresh[v]
          /\ phase'[w] = "idle" \/ wJob'[w] = wJob[w]
          /\ Active(w)
<1> USE DEF TypeOK, Active, Goto, Raise, NextSegment, EndTask, At
<1>1. CASE StartGone(w) \/ StartLocked(w) \/ StartClaim(w)
  BY <1>1 DEF StartGone, StartLocked, StartClaim
<1>2. CASE CheckCancelled(w) \/ CheckPassed(w)
  BY <1>2 DEF CheckCancelled, CheckPassed
<1>3. CASE \E s \in Sessions : OcrUpload(w, s) \/ OcrUploadLost(w, s)
  BY <1>3 DEF OcrUpload, OcrUploadLost
<1>4. CASE OcrPoll(w) \/ OcrRelease(w) \/ Compute(w)
  BY <1>4 DEF OcrPoll, OcrRelease, Compute
<1>5. CASE WriteIndex(w) \/ WriteMarkdown(w)
  BY <1>5 DEF WriteIndex, WriteMarkdown
<1>6. CASE OcrTransient(w) \/ StepFails(w) \/ CommitRefused(w)
    \/ StartFails(w) \/ HandlerFails(w) \/ CancelFails(w)
  BY <1>6 DEF OcrTransient, StepFails, StartFails, HandlerFails, CancelFails, Drop, CommitRefused
<1>7. CASE CommitCached(w) \/ CommitStatus(w)
  BY <1>7 DEF CommitCached, CommitStatus
<1>8. CASE CommitIndex(w) \/ CommitFinalize(w)
  BY <1>8 DEF CommitIndex, CommitFinalize
<1>9. CASE ExceptRecheck(w) \/ MarkDeadLetter(w) \/ DeadLetterStale(w)
  BY <1>9 DEF ExceptRecheck, MarkDeadLetter, DeadLetterStale
<1>10. CASE Reraise(w) \/ FinishCancelled(w)
  BY <1>10 DEF Reraise, FinishCancelled
<1> QED
  BY <1>1, <1>2, <1>3, <1>4, <1>5, <1>6, <1>7, <1>8, <1>9, <1>10 DEF WorkerStep

\* Jobs are never uncommitted and never change their document.
LEMMA JobsKept ==
    ASSUME TypeOK, References, JobRowsMatch, Next, NEW j \in Jobs, Committed(j)
    PROVE Committed(j)' /\ jobDoc'[j] = jobDoc[j]
<1> USE DEF Committed, TypeOK
<1>1. ASSUME NEW d \in Docs, NEW i \in Jobs, CommitUpload(d, i) \/ RetryDocument(d, i)
      PROVE Committed(j)' /\ jobDoc'[j] = jobDoc[j]
  BY <1>1 DEF CommitUpload, RetryDocument, AddJob
<1>2. ASSUME NEW d \in Docs, DeleteCommit(d)
      PROVE Committed(j)' /\ jobDoc'[j] = jobDoc[j]
  BY <1>2 DEF DeleteCommit, HardDeleteDocument
<1>3. CASE QuietRequest
  BY <1>3, QuietRequestFrame
<1>4. CASE Broker
  BY <1>4, BrokerFrame
<1>5. ASSUME NEW w \in Workers, QuietStep(w)
      PROVE Committed(j)' /\ jobDoc'[j] = jobDoc[j]
  BY <1>5, QuietWorkerFrame
<1>6. ASSUME NEW w \in Workers,
             StartClaim(w) \/ CommitCached(w) \/ CommitStatus(w) \/ CommitIndex(w)
      PROVE Committed(j)' /\ jobDoc'[j] = jobDoc[j]
  BY <1>6 DEF StartClaim, CommitCached, CommitStatus, CommitIndex
<1>7. ASSUME NEW w \in Workers, CommitFinalize(w) \/ MarkDeadLetter(w)
      PROVE Committed(j)' /\ jobDoc'[j] = jobDoc[j]
  BY <1>7 DEF CommitFinalize, MarkDeadLetter
<1>8. ASSUME NEW w \in Workers, FinishCancelled(w)
      PROVE Committed(j)' /\ jobDoc'[j] = jobDoc[j]
  BY <1>8 DEF FinishCancelled, HardDeleteDocument
<1> QED
  BY NextCases, <1>1, <1>2, <1>3, <1>4, <1>5, <1>6, <1>7, <1>8

\* A message in the queue was there, or comes from a request or a worker.
LEMMA QueueSources ==
    ASSUME TypeOK, Next, NEW m \in queue'
    PROVE m \in queue \/ m.job \in unsent \/ \E w \in Workers : Active(w) /\ m.job = wJob[w]
<1>1. CASE Request
  BY <1>1 DEF Request, StageUpload, CommitUpload, RetryDocument, AddJob, DeleteCollect
<1>2. CASE RequestStep
  BY <1>2 DEF RequestStep, SendIngestTask, SendFails, DeleteCommit, DeleteFiles,
        DeleteAborts, Enqueue
<1>3. CASE Broker
  BY <1>3 DEF Broker, Deliver, WorkerCrash, Redeliver, Restore, Enqueue
<1>4. ASSUME NEW w \in Workers, WorkerStep(w)
      PROVE m \in queue \/ (Active(w) /\ m.job = wJob[w])
  <2>1. CASE Reraise(w)
    BY <2>1 DEF Reraise, Enqueue, Active
  <2>2. CASE CommitFinalize(w) \/ FinishCancelled(w)
    BY <2>2 DEF CommitFinalize, FinishCancelled, AckOrCrash, Restore, Enqueue, At, Active
  <2>3. CASE ~Reraise(w) /\ ~CommitFinalize(w) /\ ~FinishCancelled(w)
    <3>1. UNCHANGED queue
      BY <1>4, <2>3 DEF WorkerStep, StartGone, StartLocked, StartClaim, CheckCancelled,
            CheckPassed, OcrUpload, OcrUploadLost, OcrPoll, OcrRelease, Compute,
            WriteIndex, WriteMarkdown, OcrTransient, StepFails, StartFails, HandlerFails,
            CancelFails, Drop, CommitRefused, CommitCached, CommitStatus, CommitIndex,
            ExceptRecheck, MarkDeadLetter, DeadLetterStale
    <3> QED BY <3>1
  <2> QED BY <2>1, <2>2, <2>3
<1> QED BY <1>1, <1>2, <1>3, <1>4 DEF Next

\* A worker's job was the worker's, or was in the queue.
LEMMA WorkerSources ==
    ASSUME TypeOK, Next, NEW w \in Workers, Active(w)'
    PROVE \/ Active(w) /\ wJob'[w] = wJob[w]
          \/ \E m \in queue : wJob'[w] = m.job
<1>1. CASE Request \/ RequestStep
  BY <1>1 DEF Request, RequestStep, StageUpload, CommitUpload, RetryDocument, AddJob,
        DeleteCollect, SendIngestTask, SendFails, DeleteCommit, DeleteFiles,
        DeleteAborts, Active
<1>2. CASE Broker
  BY <1>2 DEF Broker, Deliver, WorkerCrash, Redeliver, EndTask, Active, TypeOK
<1>3. ASSUME NEW v \in Workers, WorkerStep(v)
      PROVE Active(w) /\ wJob'[w] = wJob[w]
  BY <1>3, OthersStay DEF Active
<1> QED BY <1>1, <1>2, <1>3 DEF Next

\* Only a worker's run ends without a report, and only its claim forgets that.
LEMMA DroppedSources ==
    ASSUME Next
    PROVE /\ dropped' \subseteq dropped \cup {wJob[w] : w \in {v \in Workers : Active(v)}}
          /\ \A j \in dropped : j \in dropped'
                \/ \E w \in Workers : StartClaim(w) /\ wJob[w] = j
<1>1. CASE Request \/ RequestStep
  BY <1>1 DEF Request, RequestStep, StageUpload, CommitUpload, RetryDocument, AddJob,
        DeleteCollect, SendIngestTask, SendFails, DeleteCommit, DeleteFiles, DeleteAborts
<1>2. CASE Broker
  BY <1>2 DEF Broker, Deliver, WorkerCrash, Redeliver
<1>3. ASSUME NEW w \in Workers, WorkerStep(w), ~StartClaim(w), ~StartFails(w), ~HandlerFails(w)
      PROVE dropped' = dropped
  BY <1>3 DEF WorkerStep, StartGone, StartLocked, CheckCancelled,
        CheckPassed, OcrUpload, OcrUploadLost, OcrPoll, OcrRelease, Compute,
        WriteIndex, WriteMarkdown, OcrTransient, StepFails, CancelFails, CommitRefused,
        CommitCached, CommitStatus, CommitIndex, CommitFinalize, ExceptRecheck,
        MarkDeadLetter, DeadLetterStale, Reraise, FinishCancelled
<1>4. ASSUME NEW w \in Workers, StartFails(w) \/ HandlerFails(w)
      PROVE dropped' = dropped \cup {wJob[w]} /\ Active(w)
  BY <1>4 DEF StartFails, HandlerFails, Drop, At, Active
<1>5. ASSUME NEW w \in Workers, StartClaim(w) PROVE dropped' = dropped \ {wJob[w]}
  BY <1>5 DEF StartClaim
<1> QED BY <1>1, <1>2, <1>3, <1>4, <1>5 DEF Next

LEMMA ReferencesKept ==
    ASSUME TypeOK, References, JobRowsMatch, Next
    PROVE References'
<1>4. ASSUME NEW j \in dropped' PROVE Committed(j)'
  <2>1. j \in dropped \/ \E w \in Workers : Active(w) /\ j = wJob[w]
    BY <1>4, DroppedSources
  <2> QED BY <2>1, JobsKept DEF References, Committed
<1>1. ASSUME NEW j \in unsent' \cup lost' PROVE Committed(j)'
  <2>1. CASE j \in unsent \cup lost
    BY <2>1, JobsKept DEF References, Committed
  <2>2. CASE j \notin unsent \cup lost
    <3>1. ASSUME NEW w \in Workers, WorkerStep(w) PROVE UNCHANGED apiVars
      BY <3>1 DEF WorkerStep, StartGone, StartLocked, StartClaim, CheckCancelled,
            CheckPassed, OcrUpload, OcrUploadLost, OcrPoll, OcrRelease, Compute,
            WriteIndex, WriteMarkdown, OcrTransient, StepFails, StartFails, HandlerFails,
            CancelFails, Drop, CommitRefused, CommitCached, CommitStatus, CommitIndex,
            CommitFinalize, ExceptRecheck, MarkDeadLetter, DeadLetterStale, Reraise,
            FinishCancelled
    <3>2. ASSUME Request PROVE Committed(j)'
      BY <2>2, <3>2 DEF Request, StageUpload, CommitUpload, RetryDocument, AddJob,
            DeleteCollect, Committed, TypeOK
    <3>3. ASSUME RequestStep PROVE FALSE
      BY <2>2, <3>3 DEF RequestStep, SendIngestTask, SendFails, DeleteCommit,
            DeleteFiles, DeleteAborts
    <3> QED BY <2>2, <3>1, <3>2, <3>3, BrokerFrame DEF Next
  <2> QED BY <2>1, <2>2
<1>2. ASSUME NEW m \in queue' PROVE Committed(m.job)'
  <2>1. m.job \in Jobs /\ Committed(m.job)
    BY QueueSources DEF References, Committed
  <2> QED BY <2>1, JobsKept
<1>3. ASSUME NEW w \in Workers, Active(w)' PROVE Committed(wJob[w])'
  <2>1. PICK j \in Jobs : j = wJob'[w] /\ Committed(j)
    BY <1>3, WorkerSources DEF References, Committed
  <2>2. Committed(j)'
    BY <2>1, JobsKept
  <2> QED BY <2>1, <2>2 DEF Committed
<1> QED BY <1>1, <1>2, <1>3, <1>4 DEF References

\* A worker whose document is there has a job row.
LEMMA WorkerRow ==
    ASSUME TypeOK, References, JobRowsMatch, NEW w \in Workers, Active(w), Present(Doc(w))
    PROVE wJob[w] \in Jobs /\ Doc(w) \in Docs /\ jobStatus[wJob[w]] \in JobRowStatus
<1>1. wJob[w] \in Jobs /\ Doc(w) \in Docs /\ Committed(wJob[w])
  BY WorkerJob DEF References
<1>2. docStatus[Doc(w)] # "deleted"
  BY DEF Present, LiveStatus
<1> QED BY <1>1, <1>2 DEF Doc, JobRowsMatch, Committed, TypeOK

-----------------------------------------------------------------------------
(***************************************************************************)
(* The rows of the database.                                               *)
(***************************************************************************)
\* What the commits of the workers leave alone: only a deletion removes a
\* document, and a job that has no row gets none.
LEMMA LiveCommits ==
    ASSUME TypeOK, References, JobRowsMatch, NEW w \in Workers,
           \/ StartClaim(w) \/ CommitCached(w) \/ CommitStatus(w) \/ CommitIndex(w)
           \/ CommitFinalize(w) \/ MarkDeadLetter(w)
    PROVE /\ \A d \in Docs : Present(d)' <=> Present(d)
          /\ \A d \in Docs : ~Present(d) => docStatus'[d] = docStatus[d]
          /\ \A j \in Jobs : jobStatus'[j] \in JobRowStatus <=> jobStatus[j] \in JobRowStatus
          /\ \A j \in Jobs : jobStatus[j] \notin JobRowStatus =>
                jobStatus'[j] = jobStatus[j] /\ (receipts'[j] = receipts[j])
          /\ UNCHANGED <<jobDoc, apiVars>>
<1>0. Active(w)
  BY DEF Active, At, StartClaim, CommitCached, CommitStatus, CommitIndex, CommitFinalize,
     MarkDeadLetter
<1>1. wJob[w] \in Jobs /\ Doc(w) \in Docs
  BY <1>0, WorkerJob
<1>2. Present(Doc(w)) => jobStatus[wJob[w]] \in JobRowStatus
  BY <1>0, WorkerRow
<1> USE <1>1, <1>2 DEF TypeOK, Present, LiveStatus, JobRowStatus
<1>3. CASE StartClaim(w)
  BY <1>3 DEF StartClaim, IsCancelledOrDeleted
<1>4. CASE CommitCached(w)
  <2>1. receipts' = receipts \/ Present(Doc(w))
    BY <1>4 DEF CommitCached, WriteReceipt, WritesRows
  <2> QED BY <1>4, <2>1 DEF CommitCached, WriteReceipt
<1>5. CASE CommitStatus(w)
  BY <1>5 DEF CommitStatus
<1>6. CASE CommitIndex(w)
  BY <1>6 DEF CommitIndex, WriteReceipt
<1>7. CASE CommitFinalize(w)
  BY <1>7 DEF CommitFinalize, WriteReceipt
<1>8. CASE MarkDeadLetter(w)
  BY <1>8 DEF MarkDeadLetter
<1> QED BY <1>3, <1>4, <1>5, <1>6, <1>7, <1>8

LEMMA JobRowsKept ==
    ASSUME TypeOK, References, JobRowsMatch, Next
    PROVE JobRowsMatch'
<1>1. ASSUME NEW d \in Docs, NEW j \in Jobs, CommitUpload(d, j) \/ RetryDocument(d, j)
      PROVE JobRowsMatch'
  BY <1>1, ConstantsAssumption, SMTT(30) DEF CommitUpload, RetryDocument, AddJob, JobRowsMatch,
        TypeOK, Present, LiveStatus, JobRowStatus
<1>2. ASSUME NEW d \in Docs, HardDeleteDocument(d) PROVE JobRowsMatch'
  BY <1>2, ConstantsAssumption DEF HardDeleteDocument, JobRowsMatch, TypeOK, Present,
        LiveStatus, JobRowStatus
<1>3. CASE QuietRequest
  BY <1>3, QuietRequestFrame DEF JobRowsMatch, Present
<1>4. CASE Broker
  BY <1>4, BrokerFrame DEF JobRowsMatch, Present
<1>5. ASSUME NEW w \in Workers, QuietStep(w) PROVE JobRowsMatch'
  BY <1>5, QuietWorkerFrame DEF JobRowsMatch, Present
<1>6. ASSUME NEW w \in Workers,
             \/ StartClaim(w) \/ CommitCached(w) \/ CommitStatus(w) \/ CommitIndex(w)
             \/ CommitFinalize(w) \/ MarkDeadLetter(w)
      PROVE JobRowsMatch'
  <2> SUFFICES ASSUME NEW j \in Jobs
               PROVE  /\ jobStatus'[j] = "none" <=> jobDoc[j] = NoDoc
                      /\ jobStatus'[j] \in JobRowStatus => Present(jobDoc[j])'
                      /\ jobStatus'[j] = "gone" => docStatus'[jobDoc[j]] = "deleted"
                      /\ jobStatus'[j] \notin JobRowStatus => receipts'[j] = {}
    BY <1>6, LiveCommits DEF JobRowsMatch, Present
  <2>1. CASE jobStatus[j] \in JobRowStatus
    <3>1. jobStatus'[j] \in JobRowStatus
      BY <1>6, <2>1, LiveCommits
    <3>2. jobDoc[j] \in Docs /\ Present(jobDoc[j])
      BY <2>1, ConstantsAssumption DEF JobRowsMatch, TypeOK, JobRowStatus
    <3>3. Present(jobDoc[j])'
      BY <1>6, <3>2, LiveCommits DEF Present
    <3> QED
      BY <2>1, <3>1, <3>2, <3>3, ConstantsAssumption DEF JobRowStatus
  <2>2. CASE jobStatus[j] \notin JobRowStatus
    <3>1. jobStatus'[j] = jobStatus[j] /\ receipts'[j] = receipts[j]
      BY <1>6, <2>2, LiveCommits
    <3>2. jobStatus[j] = "gone" =>
             jobDoc[j] \in Docs /\ ~Present(jobDoc[j]) /\ docStatus[jobDoc[j]] = "deleted"
      BY DEF JobRowsMatch, TypeOK, Present, LiveStatus
    <3>3. jobStatus[j] = "gone" => docStatus'[jobDoc[j]] = "deleted"
      BY <1>6, <3>2, LiveCommits
    <3> QED BY <2>2, <3>1, <3>3 DEF JobRowsMatch
  <2> QED BY <2>1, <2>2
<1>7. ASSUME NEW w \in Workers, FinishCancelled(w) PROVE JobRowsMatch'
  BY <1>2, <1>7, WorkerJob DEF FinishCancelled, Active
<1> QED
  BY NextCases, <1>1, <1>2, <1>3, <1>4, <1>5, <1>6, <1>7 DEF DeleteCommit

\* A deleted document stays deleted.
LEMMA GoneStays ==
    ASSUME TypeOK, References, JobRowsMatch, Next,
           NEW d \in Docs, docStatus[d] = "deleted"
    PROVE docStatus'[d] = "deleted"
<1> USE DEF TypeOK, Present, LiveStatus
<1>1. ASSUME NEW e \in Docs, NEW j \in Jobs, CommitUpload(e, j) \/ RetryDocument(e, j)
      PROVE docStatus'[d] = "deleted"
  BY <1>1 DEF CommitUpload, RetryDocument, AddJob
<1>2. ASSUME NEW e \in Docs, HardDeleteDocument(e) PROVE docStatus'[d] = "deleted"
  BY <1>2 DEF HardDeleteDocument
<1>3. ASSUME NEW w \in Workers,
             \/ StartClaim(w) \/ CommitCached(w) \/ CommitStatus(w) \/ CommitIndex(w)
             \/ CommitFinalize(w) \/ MarkDeadLetter(w)
      PROVE docStatus'[d] = "deleted"
  BY <1>3, LiveCommits
<1>4. ASSUME NEW w \in Workers, FinishCancelled(w) PROVE docStatus'[d] = "deleted"
  BY <1>2, <1>4, WorkerJob DEF FinishCancelled, Active
<1> QED
  BY NextCases, <1>1, <1>2, <1>3, <1>4, QuietRequestFrame, QuietWorkerFrame, BrokerFrame
  DEF DeleteCommit

\* A document a worker finds missing is deleted, not absent.
LEMMA MissingIsDeleted ==
    ASSUME TypeOK, References, JobRowsMatch, NEW w \in Workers, Active(w), ~Present(Doc(w))
    PROVE docStatus[Doc(w)] = "deleted"
<1>1. wJob[w] \in Jobs /\ Doc(w) \in Docs /\ Committed(wJob[w])
  BY WorkerJob DEF References
<1> QED BY <1>1 DEF Doc, JobRowsMatch, Committed, TypeOK

\* The document of a worker that keeps its job is the same one, and is there
\* only if it was.
LEMMA PresentBefore ==
    ASSUME TypeOK, References, JobRowsMatch, Next, NEW w \in Workers, Active(w),
           wJob'[w] = wJob[w]
    PROVE Doc(w)' = Doc(w) /\ (Present(Doc(w))' => Present(Doc(w)))
<1>1. wJob[w] \in Jobs /\ Doc(w) \in Docs /\ Committed(wJob[w])
  BY WorkerJob DEF References
<1>2. Doc(w)' = Doc(w)
  BY <1>1, JobsKept DEF Doc
<1>3. PICK d \in Docs : d = Doc(w)
  BY <1>1
<1>4. docStatus[d] = "deleted" => docStatus'[d] = "deleted"
  BY GoneStays
<1> QED BY <1>2, <1>3, <1>4, MissingIsDeleted DEF Present, LiveStatus

LEMMA DataRowsKept ==
    ASSUME TypeOK, References, JobRowsMatch, DataRowsMatch, RowsLocked, Next
    PROVE DataRowsMatch'
<1> USE DEF TypeOK, DataRowsMatch
<1>1. ASSUME NEW d \in Docs, NEW j \in Jobs, CommitUpload(d, j) \/ RetryDocument(d, j)
      PROVE DataRowsMatch'
  BY <1>1 DEF CommitUpload, RetryDocument, AddJob, Present, LiveStatus
<1>2. ASSUME NEW d \in Docs, HardDeleteDocument(d), docStatus[d] # "absent",
             \A e \in Docs \ {d} : delPhase'[e] = delPhase[e]
      PROVE DataRowsMatch'
  BY <1>2 DEF HardDeleteDocument, Present, LiveStatus
<1>3. CASE QuietRequest
  <2>1. UNCHANGED dbVars
    BY <1>3, QuietRequestFrame
  <2>2. ASSUME NEW d \in Docs
        PROVE \/ delPhase'[d] = delPhase[d] \/ delPhase'[d] = "none"
              \/ delPhase'[d] = "collected" /\ Present(d)
    BY <1>3 DEF QuietRequest, StageUpload, DeleteCollect, DeleteFiles, DeleteAborts,
          SendIngestTask, SendFails
  <2> QED BY <2>1, <2>2 DEF Present, LiveStatus
<1>4. CASE Broker
  BY <1>4, BrokerFrame DEF Present
<1>5. ASSUME NEW w \in Workers, QuietStep(w) PROVE DataRowsMatch'
  BY <1>5, QuietWorkerFrame DEF Present
<1>6. ASSUME NEW w \in Workers,
             \/ StartClaim(w) \/ CommitCached(w) \/ CommitStatus(w) \/ CommitIndex(w)
             \/ CommitFinalize(w) \/ MarkDeadLetter(w)
      PROVE DataRowsMatch'
  <2> SUFFICES ASSUME NEW d \in Docs, ~Present(d)
               PROVE ~parseRow'[d] /\ \A s \in IndexSteps : rows'[s][d] = 0
    BY <1>6, LiveCommits DEF Present, LiveStatus
  <2>1. Doc(w) = d => UNCHANGED <<rows, parseRow>>
    BY <1>6 DEF StartClaim, CommitCached, CommitStatus, CommitIndex, CommitFinalize,
          MarkDeadLetter
  <2>2. Doc(w) # d => parseRow'[d] = parseRow[d] /\ \A s \in IndexSteps : rows'[s][d] = rows[s][d]
    <3>1. CASE CommitIndex(w)
      BY <3>1 DEF CommitIndex
    <3>2. CASE ~CommitIndex(w)
      BY <1>6, <3>2 DEF StartClaim, CommitCached, CommitStatus, CommitFinalize,
            MarkDeadLetter
    <3> QED BY <3>1, <3>2
  <2> QED BY <2>1, <2>2
<1>7. ASSUME NEW w \in Workers, FinishCancelled(w) PROVE DataRowsMatch'
  <2>1. Doc(w) \in Docs /\ docStatus[Doc(w)] # "absent"
    BY <1>7, WorkerJob, MissingIsDeleted DEF FinishCancelled, Active, Present, LiveStatus
  <2> QED BY <1>2, <1>7, <2>1 DEF FinishCancelled
<1>8. ASSUME NEW d \in Docs, DeleteCommit(d) PROVE DataRowsMatch'
  BY <1>2, <1>8 DEF DeleteCommit
<1> QED
  BY NextCases, <1>1, <1>3, <1>4, <1>5, <1>6, <1>7, <1>8

LEMMA CancelledKept ==
    ASSUME TypeOK, References, JobRowsMatch, CancelledAreGone, Next
    PROVE CancelledAreGone'
<1> SUFFICES ASSUME NEW w \in Workers, phase'[w] = "cancel"
             PROVE ~Present(Doc(w))'
  BY DEF CancelledAreGone
<1>1. CASE phase[w] = "cancel" /\ wJob'[w] = wJob[w]
  BY <1>1, PresentBefore DEF CancelledAreGone, Active
<1>2. CASE ~(phase[w] = "cancel" /\ wJob'[w] = wJob[w])
  <2>1. CASE Request \/ RequestStep
    BY <1>2, <2>1 DEF Request, RequestStep, StageUpload, CommitUpload, RetryDocument,
          AddJob, DeleteCollect, SendIngestTask, SendFails, DeleteCommit, DeleteFiles,
          DeleteAborts
  <2>2. CASE Broker
    BY <1>2, <2>2 DEF Broker, Deliver, WorkerCrash, Redeliver, EndTask, TypeOK
  <2>3. ASSUME NEW v \in Workers, WorkerStep(v) PROVE ~Present(Doc(w))'
    <3>1. v = w /\ wJob'[w] = wJob[w] /\ Active(w) /\ phase[w] # "cancel"
      BY <1>2, <2>3, OthersStay
    <3>2. StartGone(w) \/ CheckCancelled(w) \/ ExceptRecheck(w)
      BY <2>3, <3>1 DEF WorkerStep, StartLocked, StartClaim,
            CheckPassed, OcrUpload, OcrUploadLost, OcrPoll, OcrRelease, Compute,
            WriteIndex, WriteMarkdown, OcrTransient, StepFails, StartFails, HandlerFails,
            CancelFails, Drop, CommitRefused, CommitCached, CommitStatus, CommitIndex,
            CommitFinalize, MarkDeadLetter, DeadLetterStale, Reraise, FinishCancelled, Goto,
            Raise, NextSegment, EndTask, TypeOK
    <3>3. ~Present(Doc(w)) \/ IsCancelledOrDeleted(w)
      BY <3>1, <3>2 DEF StartGone, CheckCancelled, ExceptRecheck, Goto, TypeOK
    <3>4. ~Present(Doc(w))
      BY <3>1, <3>3, WorkerRow DEF IsCancelledOrDeleted
    <3> QED BY <3>1, <3>4, PresentBefore
  <2> QED BY <2>1, <2>2, <2>3 DEF Next
<1> QED BY <1>1, <1>2

-----------------------------------------------------------------------------
(***************************************************************************)
(* The index rows.                                                         *)
(***************************************************************************)
\* Only write_chunks and its like bring a worker to the commit of index rows.
LEMMA IndexFrame ==
    ASSUME TypeOK, Next, NEW w \in Workers,
           phase'[w] = "record", seg'[w] \in IndexSteps, ~WriteIndex(w)
    PROVE /\ phase[w] = "record" /\ seg'[w] = seg[w]
          /\ wJob'[w] = wJob[w] /\ seen'[w] = seen[w]
<1>1. CASE Request \/ RequestStep
  BY <1>1 DEF Request, RequestStep, StageUpload, CommitUpload, RetryDocument, AddJob,
        DeleteCollect, SendIngestTask, SendFails, DeleteCommit, DeleteFiles, DeleteAborts
<1>2. CASE Broker
  BY <1>2 DEF Broker, Deliver, WorkerCrash, Redeliver, EndTask, TypeOK
<1>3. ASSUME NEW v \in Workers, WorkerStep(v), v # w
      PROVE phase[w] = "record" /\ seg'[w] = seg[w] /\ wJob'[w] = wJob[w] /\ seen'[w] = seen[w]
  BY <1>3, OthersStay
<1>4. ~WorkerStep(w)
  BY DEF WorkerStep, StartGone, StartLocked, StartClaim, CheckCancelled, CheckPassed,
        OcrUpload, OcrUploadLost, OcrPoll, OcrRelease, Compute, WriteMarkdown,
        OcrTransient, StepFails, StartFails, HandlerFails, CancelFails, Drop, CommitRefused,
        CommitCached, CommitStatus, CommitIndex, CommitFinalize, ExceptRecheck,
        MarkDeadLetter, DeadLetterStale, Reraise, FinishCancelled, Goto, Raise, NextSegment,
        EndTask, At, TypeOK, IndexSteps, UploadToOcr, PollAndFetchOcr, ReleaseOcr,
        ParseOutline, SectionChunk, EmbedBatch, BeginIndexing, TrackAWrite, TrackBWrite,
        AssetRegister, Finalize
<1> QED BY <1>1, <1>2, <1>3, <1>4 DEF Next

\* The index rows of a document that stays change by a worker's commit only.
LEMMA RowsFrame ==
    ASSUME TypeOK, References, JobRowsMatch, Next,
           NEW d \in Docs, Present(d)', NEW s \in IndexSteps
    PROVE \/ rows'[s][d] = rows[s][d]
          \/ \E w \in Workers : /\ CommitIndex(w) /\ seg[w] = s /\ Doc(w) = d
                                /\ rows'[s][d] = rows[s][d] - seen[w] + 1
<1>1. ASSUME NEW e \in Docs, NEW j \in Jobs, CommitUpload(e, j) \/ RetryDocument(e, j)
      PROVE rows' = rows
  BY <1>1 DEF CommitUpload, RetryDocument, AddJob
<1>2. ASSUME NEW e \in Docs, HardDeleteDocument(e) PROVE rows'[s][d] = rows[s][d]
  BY <1>2 DEF HardDeleteDocument, TypeOK, Present, LiveStatus
<1>3. ASSUME NEW w \in Workers,
             \/ StartClaim(w) \/ CommitCached(w) \/ CommitStatus(w)
             \/ CommitFinalize(w) \/ MarkDeadLetter(w)
      PROVE rows' = rows
  BY <1>3 DEF StartClaim, CommitCached, CommitStatus, CommitFinalize, MarkDeadLetter
<1>4. ASSUME NEW w \in Workers, CommitIndex(w)
      PROVE \/ rows'[s][d] = rows[s][d]
            \/ seg[w] = s /\ Doc(w) = d /\ rows'[s][d] = rows[s][d] - seen[w] + 1
  BY <1>4 DEF CommitIndex, TypeOK
<1>5. ASSUME NEW w \in Workers, FinishCancelled(w) PROVE rows'[s][d] = rows[s][d]
  BY <1>2, <1>5, WorkerJob DEF FinishCancelled, Active
<1> QED
  BY NextCases, <1>1, <1>2, <1>3, <1>4, <1>5, QuietRequestFrame, QuietWorkerFrame,
     BrokerFrame DEF DeleteCommit

LEMMA RowsLockedKept ==
    ASSUME TypeOK, References, JobRowsMatch, RowsLocked, Next
    PROVE RowsLocked'
<1>0. ASSUME NEW w \in Workers, phase'[w] = "record", seg'[w] \in IndexSteps
      PROVE /\ Active(w) /\ wJob'[w] = wJob[w] /\ seg'[w] = seg[w] /\ Doc(w)' = Doc(w)
            /\ Present(Doc(w))' => Present(Doc(w))
  <2>1. Active(w) /\ wJob'[w] = wJob[w] /\ seg'[w] = seg[w]
    BY <1>0, IndexFrame DEF WriteIndex, Goto, Active
  <2> QED BY <2>1, PresentBefore
<1>1. ASSUME NEW u \in Workers, WriteIndex(u) PROVE RowsLocked'
  <2>1. rows' = rows /\ docStatus' = docStatus
    BY <1>1 DEF WriteIndex
  <2>2. u \in Workers /\ seen'[u] = rows[seg[u]][Doc(u)]
    BY <1>1 DEF WriteIndex, RowsToReplace, TypeOK
  <2>3. ASSUME NEW v \in Workers \ {u}, phase'[v] = "record", seg'[v] \in IndexSteps
        PROVE phase[v] = "record" /\ seg'[v] = seg[v] /\ seen'[v] = seen[v]
    BY <1>1, <2>3 DEF WriteIndex, Goto, TypeOK
  <2>4. ASSUME NEW v \in Workers \ {u}, phase'[v] = "record", seg'[v] = seg[u],
               Doc(v)' = Doc(u)
        PROVE seen'[v] = 0
    <3>1. seg'[v] \in IndexSteps /\ seg[u] = seg[v]
      BY <1>1, <2>4 DEF WriteIndex, Goto
    <3>2. At(v, "record", seg[u]) /\ Doc(v) = Doc(u)
      BY <2>3, <2>4, <3>1, <1>0 DEF At
    <3> QED BY <1>1, <2>3, <2>4, <3>1, <3>2 DEF WriteIndex
  <2> SUFFICES ASSUME NEW w \in Workers, phase'[w] = "record", seg'[w] \in IndexSteps
               PROVE  /\ Present(Doc(w))' => seen'[w] <= rows'[seg'[w]][Doc(w)']
                      /\ \A v \in Workers \ {w} :
                            phase'[v] = "record" /\ seg'[v] = seg'[w] /\ Doc(v)' = Doc(w)'
                            => seen'[v] = 0 \/ seen'[w] = 0
    BY DEF RowsLocked, At
  <2>5. Present(Doc(w))' => seen'[w] <= rows'[seg'[w]][Doc(w)']
    <3>1. CASE w = u
      <4>1. Doc(u) \in Docs /\ seg[u] \in IndexSteps
        BY <1>1, WorkerJob DEF WriteIndex, Active
      <4>2. rows[seg[u]][Doc(u)] \in Nat
        BY <4>1 DEF TypeOK
      <4> QED BY <2>1, <2>2, <3>1, <4>2, <1>0
    <3>2. CASE w # u
      BY <1>0, <2>1, <2>3, <3>2 DEF RowsLocked
    <3> QED BY <3>1, <3>2
  <2>6. ASSUME NEW v \in Workers \ {w}, phase'[v] = "record", seg'[v] = seg'[w],
               Doc(v)' = Doc(w)'
        PROVE seen'[v] = 0 \/ seen'[w] = 0
    <3>1. CASE w = u
      BY <1>0, <2>4, <2>6, <3>1
    <3>2. CASE v = u
      BY <1>0, <2>4, <2>6, <3>2
    <3>3. CASE w # u /\ v # u
      <4>1. At(v, "record", seg[w]) /\ Doc(v) = Doc(w)
        BY <1>0, <2>3, <2>6, <3>3 DEF At
      <4> QED BY <2>3, <2>6, <3>3, <4>1 DEF RowsLocked
    <3> QED BY <3>1, <3>2, <3>3
  <2> QED BY <2>5, <2>6
<1>2. CASE \A u \in Workers : ~WriteIndex(u)
  <2>1. ASSUME NEW w \in Workers, phase'[w] = "record", seg'[w] \in IndexSteps
        PROVE phase[w] = "record" /\ seg'[w] = seg[w] /\ seen'[w] = seen[w] /\ Doc(w)' = Doc(w)
    BY <1>0, <1>2, <2>1, IndexFrame
  <2> SUFFICES ASSUME NEW w \in Workers, phase'[w] = "record", seg'[w] \in IndexSteps
               PROVE  /\ Present(Doc(w))' => seen'[w] <= rows'[seg'[w]][Doc(w)']
                      /\ \A v \in Workers \ {w} :
                            phase'[v] = "record" /\ seg'[v] = seg'[w] /\ Doc(v)' = Doc(w)'
                            => seen'[v] = 0 \/ seen'[w] = 0
    BY DEF RowsLocked, At
  <2>2. ASSUME NEW v \in Workers \ {w}, phase'[v] = "record", seg'[v] = seg'[w],
               Doc(v)' = Doc(w)'
        PROVE seen'[v] = 0 \/ seen'[w] = 0
    BY <2>1, <2>2 DEF RowsLocked, At
  <2>3. ASSUME Present(Doc(w))' PROVE seen'[w] <= rows'[seg'[w]][Doc(w)']
    <3>1. Active(w) /\ Present(Doc(w)) /\ Doc(w) \in Docs
      BY <1>0, <2>3, WorkerJob
    <3>2. PICK d \in Docs : d = Doc(w)
      BY <3>1
    <3>3. PICK s \in IndexSteps : s = seg[w]
      BY <2>1
    <3>4. seen[w] <= rows[s][d] /\ rows[s][d] \in Nat /\ seen[w] \in Nat
      BY <2>1, <3>1, <3>2, <3>3 DEF RowsLocked, TypeOK
    <3>5. Present(d)'
      BY <2>1, <2>3, <3>2 DEF Present
    <3>6. CASE rows'[s][d] = rows[s][d]
      BY <2>1, <3>2, <3>3, <3>4, <3>6
    <3>7. ASSUME NEW u \in Workers, CommitIndex(u), seg[u] = s, Doc(u) = d,
                 rows'[s][d] = rows[s][d] - seen[u] + 1
          PROVE seen'[w] <= rows'[s][d]
      <4>1. u # w
        BY <3>7, <2>1 DEF CommitIndex, NextSegment, TypeOK
      <4>2. phase[u] = "record" /\ Present(Doc(u)) /\ seg[u] \in IndexSteps
        BY <3>7 DEF CommitIndex
      <4>3. seen[u] = 0 \/ seen[w] = 0
        BY <2>1, <3>2, <3>3, <3>7, <4>1, <4>2 DEF RowsLocked, At
      <4>4. seen[u] <= rows[s][d] /\ seen[u] \in Nat
        BY <3>7, <4>2 DEF RowsLocked, TypeOK
      <4> QED BY <2>1, <3>4, <3>7, <4>3, <4>4
    <3> QED BY <2>1, <3>2, <3>3, <3>5, <3>6, <3>7, RowsFrame
  <2> QED BY <2>2, <2>3
<1> QED BY <1>1, <1>2
-----------------------------------------------------------------------------
(***************************************************************************)
(* Receipts.                                                               *)
(***************************************************************************)
\* While its document stays, a job keeps its receipts.
LEMMA ReceiptsGrow ==
    ASSUME TypeOK, References, JobRowsMatch, Next, NEW j \in Jobs, Committed(j),
           Present(jobDoc[j])'
    PROVE receipts[j] \subseteq receipts'[j]
<1>0. jobDoc'[j] = jobDoc[j] /\ jobDoc[j] \in Docs
  BY JobsKept DEF Committed, JobRowsMatch, TypeOK
<1>1. ASSUME NEW d \in Docs, NEW i \in Jobs, CommitUpload(d, i) \/ RetryDocument(d, i)
      PROVE receipts' = receipts
  BY <1>1 DEF CommitUpload, RetryDocument, AddJob
<1>2. ASSUME NEW d \in Docs, HardDeleteDocument(d) PROVE receipts'[j] = receipts[j]
  BY <1>0, <1>2 DEF HardDeleteDocument, TypeOK, Present, LiveStatus
<1>3. ASSUME NEW w \in Workers, StartClaim(w) \/ CommitStatus(w) \/ MarkDeadLetter(w)
      PROVE receipts' = receipts
  BY <1>3 DEF StartClaim, CommitStatus, MarkDeadLetter
<1>4. ASSUME NEW w \in Workers, CommitCached(w) \/ CommitIndex(w) \/ CommitFinalize(w)
      PROVE receipts[j] \subseteq receipts'[j]
  BY <1>4 DEF CommitCached, CommitIndex, CommitFinalize, WriteReceipt, TypeOK
<1>5. ASSUME NEW w \in Workers, FinishCancelled(w) PROVE receipts'[j] = receipts[j]
  BY <1>2, <1>5, WorkerJob DEF FinishCancelled, Active
<1> QED
  BY NextCases, <1>1, <1>2, <1>3, <1>4, <1>5, QuietRequestFrame, QuietWorkerFrame,
     BrokerFrame DEF DeleteCommit

\* How a worker's position changes: a new delivery, a move within its segment, or
\* the commit that ends it.
LEMMA Moves ==
    ASSUME TypeOK, Next, NEW w \in Workers, Active(w)'
    PROVE \/ phase'[w] = "check" /\ seg'[w] = Claim
          \/ /\ Active(w) /\ wJob'[w] = wJob[w] /\ seg'[w] = seg[w]
             /\ phase'[w] \in {"work", "record"} =>
                   \/ hit'[w] = hit[w] /\ phase[w] \in {"work", "record"}
                   \/ hit'[w] = (seg[w] \in receipts[wJob[w]]) /\ UNCHANGED receipts
          \/ /\ Active(w) /\ wJob'[w] = wJob[w]
             /\ phase'[w] = "check" /\ seg'[w] = seg[w] + 1
             /\ \/ StartClaim(w) \/ CommitCached(w) \/ CommitStatus(w) \/ CommitIndex(w)
<1> USE DEF TypeOK, Active
<1>1. CASE Request \/ RequestStep
  BY <1>1 DEF Request, RequestStep, StageUpload, CommitUpload, RetryDocument, AddJob,
        DeleteCollect, SendIngestTask, SendFails, DeleteCommit, DeleteFiles, DeleteAborts
<1>2. CASE Broker
  BY <1>2 DEF Broker, Deliver, WorkerCrash, Redeliver, EndTask
<1>3. ASSUME NEW v \in Workers, WorkerStep(v), v # w
      PROVE /\ Active(w) /\ wJob'[w] = wJob[w] /\ seg'[w] = seg[w]
            /\ phase'[w] = phase[w] /\ hit'[w] = hit[w]
  BY <1>3, OthersStay
<1>4. CASE WorkerStep(w)
  <2>0. Active(w) /\ wJob'[w] = wJob[w]
    BY <1>4, OthersStay
  <2>1. CASE StartClaim(w) \/ CommitCached(w) \/ CommitStatus(w) \/ CommitIndex(w)
    BY <2>0, <2>1 DEF StartClaim, CommitCached, CommitStatus, CommitIndex, NextSegment
  <2>2. CASE CheckPassed(w)
    BY <2>0, <2>2 DEF CheckPassed, Goto, ReceiptFound
  <2>3. CASE ~(StartClaim(w) \/ CommitCached(w) \/ CommitStatus(w) \/ CommitIndex(w)
               \/ CheckPassed(w))
    <3>1. seg'[w] = seg[w]
      BY <1>4, <2>3 DEF WorkerStep, StartGone, StartLocked, CheckCancelled, OcrUpload,
            OcrUploadLost, OcrPoll, OcrRelease, Compute, WriteIndex, WriteMarkdown,
            OcrTransient, StepFails, StartFails, HandlerFails, CancelFails, Drop,
            CommitRefused, CommitFinalize, ExceptRecheck, MarkDeadLetter, DeadLetterStale,
            Reraise, FinishCancelled, Goto, Raise, EndTask
    <3>2. phase'[w] \in {"work", "record"} =>
             hit'[w] = hit[w] /\ phase[w] \in {"work", "record"}
      BY <1>4, <2>3 DEF WorkerStep, StartGone, StartLocked, CheckCancelled, OcrUpload,
            OcrUploadLost, OcrPoll, OcrRelease, Compute, WriteIndex, WriteMarkdown,
            OcrTransient, StepFails, StartFails, HandlerFails, CancelFails, Drop,
            CommitRefused, CommitFinalize, ExceptRecheck, MarkDeadLetter, DeadLetterStale,
            Reraise, FinishCancelled, Goto, Raise, EndTask, At
    <3> QED BY <2>0, <3>1, <3>2
  <2> QED BY <2>1, <2>2, <2>3
<1> QED BY <1>1, <1>2, <1>3, <1>4 DEF Next

LEMMA StepsRecordedKept ==
    ASSUME TypeOK, References, JobRowsMatch, StepsRecorded, Next
    PROVE StepsRecorded'
<1> SUFFICES ASSUME NEW w \in Workers, Active(w)', Present(Doc(w))'
             PROVE  /\ \A s \in ReceiptSteps : s < seg'[w] => s \in receipts'[wJob'[w]]
                    /\ hit'[w] /\ phase'[w] \in {"work", "record"}
                       => seg'[w] \in receipts'[wJob'[w]]
  BY DEF StepsRecorded
<1>1. CASE phase'[w] = "check" /\ seg'[w] = Claim
  BY <1>1 DEF ReceiptSteps, Claim
<1>2. CASE Active(w) /\ wJob'[w] = wJob[w]
  <2>0. Doc(w)' = Doc(w) /\ Present(Doc(w))
    BY <1>2, PresentBefore
  <2>1. PICK j \in Jobs : j = wJob[w] /\ Committed(j) /\ jobDoc[j] = Doc(w)
    BY <1>2 DEF References, Committed, Doc
  <2>2. Present(jobDoc[j])'
    BY <2>0, <2>1, JobsKept DEF Present
  <2>3. receipts[j] \subseteq receipts'[j]
    BY <2>1, <2>2, ReceiptsGrow
  <2>4. /\ \A s \in ReceiptSteps : s < seg[w] => s \in receipts[j]
        /\ hit[w] /\ phase[w] \in {"work", "record"} => seg[w] \in receipts[j]
    BY <1>2, <2>0, <2>1 DEF StepsRecorded
  <2>5. CASE seg'[w] = seg[w] /\ phase'[w] # "check"
    BY <1>2, <2>1, <2>3, <2>4, <2>5, Moves
  <2>6. CASE phase'[w] = "check" /\ seg'[w] = seg[w]
    BY <1>2, <2>1, <2>3, <2>4, <2>6
  <2>7. CASE /\ phase'[w] = "check" /\ seg'[w] = seg[w] + 1
             /\ StartClaim(w) \/ CommitCached(w) \/ CommitStatus(w) \/ CommitIndex(w)
    <3>1. seg[w] \in ReceiptSteps => seg[w] \in receipts'[j]
      <4>1. CASE StartClaim(w) \/ CommitStatus(w)
        BY <4>1 DEF StartClaim, CommitStatus, At, ReceiptSteps, Claim
      <4>2. CASE CommitCached(w) \/ CommitIndex(w)
        BY <2>1, <2>4, <4>2 DEF CommitCached, CommitIndex, WriteReceipt, TypeOK
      <4> QED BY <2>7, <4>1, <4>2
    <3>2. seg[w] \in 0..11
      BY DEF TypeOK, Segments
    <3>3. \A s \in ReceiptSteps : s < seg'[w] => s < seg[w] \/ s = seg[w]
      BY <2>7, <3>2 DEF ReceiptSteps
    <3> QED BY <1>2, <2>1, <2>3, <2>4, <2>7, <3>1, <3>3
  <2> QED BY <1>1, <2>5, <2>6, <2>7, Moves
<1> QED BY <1>1, <1>2, Moves

LEMMA SucceededKept ==
    ASSUME TypeOK, TypeOK', References, JobRowsMatch, JobRowsMatch', StepsRecorded,
           SucceededLedger, Next
    PROVE SucceededLedger'
<1> SUFFICES ASSUME NEW j \in Jobs, jobStatus'[j] = "succeeded"
             PROVE ReceiptSteps \subseteq receipts'[j]
  <2>1. \A j \in Jobs : receipts'[j] \subseteq ReceiptSteps
    BY DEF TypeOK
  <2> QED BY <2>1 DEF SucceededLedger
<1>1. CASE jobStatus[j] = "succeeded"
  <2>1. Committed(j) /\ receipts[j] = ReceiptSteps
    BY <1>1 DEF Committed, SucceededLedger
  <2>2. Present(jobDoc[j])'
    BY <2>1, JobsKept DEF JobRowsMatch, JobRowStatus, Present
  <2> QED BY <2>1, <2>2, ReceiptsGrow
<1>2. CASE jobStatus[j] # "succeeded"
  <2>1. ASSUME NEW d \in Docs, NEW i \in Jobs, CommitUpload(d, i) \/ RetryDocument(d, i)
        PROVE FALSE
    BY <1>2, <2>1 DEF CommitUpload, RetryDocument, AddJob, TypeOK
  <2>2. ASSUME NEW d \in Docs, HardDeleteDocument(d) PROVE FALSE
    BY <1>2, <2>2 DEF HardDeleteDocument
  <2>3. ASSUME NEW w \in Workers,
               \/ StartClaim(w) \/ CommitCached(w) \/ CommitStatus(w) \/ CommitIndex(w)
               \/ MarkDeadLetter(w)
        PROVE FALSE
    BY <1>2, <2>3 DEF StartClaim, CommitCached, CommitStatus, CommitIndex, MarkDeadLetter,
          TypeOK
  <2>4. ASSUME NEW w \in Workers, CommitFinalize(w) PROVE ReceiptSteps \subseteq receipts'[j]
    <3>1. wJob[w] = j
      BY <1>2, <2>4 DEF CommitFinalize, TypeOK
    <3>2. Active(w) /\ Present(Doc(w)) /\ seg[w] = Finalize /\ phase[w] = "record"
      BY <2>4 DEF CommitFinalize, At, Active
    <3>3. \A s \in ReceiptSteps : s < Finalize => s \in receipts[j]
      BY <3>1, <3>2 DEF StepsRecorded
    <3>4. hit[w] => Finalize \in receipts[j]
      BY <3>1, <3>2 DEF StepsRecorded
    <3>5. \A s \in ReceiptSteps : s < Finalize \/ s = Finalize
      BY DEF ReceiptSteps, Finalize
    <3>6. receipts'[j] = IF hit[w] THEN receipts[j] ELSE receipts[j] \cup {Finalize}
      BY <2>4, <3>1, <3>2 DEF CommitFinalize, WriteReceipt, TypeOK
    <3> QED BY <3>3, <3>4, <3>5, <3>6
  <2>5. ASSUME NEW w \in Workers, FinishCancelled(w) PROVE FALSE
    BY <2>2, <2>5, WorkerJob DEF FinishCancelled, Active
  <2> QED
    BY <1>2, NextCases, <2>1, <2>2, <2>3, <2>4, <2>5, QuietRequestFrame,
       QuietWorkerFrame, BrokerFrame DEF DeleteCommit
<1> QED BY <1>1, <1>2

-----------------------------------------------------------------------------
(***************************************************************************)
(* Rows and files.                                                         *)
(***************************************************************************)
\* While the document stays, an index that has rows keeps some.
LEMMA RowsStay ==
    ASSUME TypeOK, References, JobRowsMatch, RowsLocked, Next,
           NEW d \in Docs, Present(d)', NEW s \in IndexSteps, rows[s][d] > 0
    PROVE rows'[s][d] > 0
<1>1. ASSUME NEW w \in Workers, CommitIndex(w), seg[w] = s, Doc(w) = d,
             rows'[s][d] = rows[s][d] - seen[w] + 1
      PROVE rows'[s][d] > 0
  <2>1. seen[w] <= rows[s][d] /\ seen[w] \in Nat /\ rows[s][d] \in Nat
    BY <1>1 DEF CommitIndex, RowsLocked, TypeOK
  <2> QED BY <1>1, <2>1
<1> QED BY <1>1, RowsFrame

\* While the document stays, so do its files.
LEMMA FilesStay ==
    ASSUME TypeOK, References, JobRowsMatch, DataRowsMatch, Next,
           NEW d \in Docs, Present(d)'
    PROVE files[d] \subseteq files'[d]
<1>1. CASE Request
  <2>1. files' = files \/ \E e \in Docs : files' = [files EXCEPT ![e] = @ \cup {"pdf"}]
    BY <1>1 DEF Request, StageUpload, CommitUpload, RetryDocument, AddJob, DeleteCollect
  <2> QED BY <2>1, SMTT(30) DEF TypeOK
<1>2. CASE RequestStep
  <2>1. ASSUME NEW e \in Docs, DeleteFiles(e) PROVE files[d] \subseteq files'[d]
    <3>1. docStatus'[e] = "deleted"
      BY <2>1 DEF DeleteFiles, DataRowsMatch
    <3>2. e # d
      BY <3>1 DEF Present, LiveStatus
    <3> QED BY <2>1, <3>2 DEF DeleteFiles, TypeOK
  <2>2. ASSUME NEW e \in Docs, DeleteCommit(e) \/ DeleteAborts(e) PROVE files' = files
    BY <2>2 DEF DeleteCommit, DeleteAborts
  <2>3. ASSUME NEW j \in Jobs, SendIngestTask(j) \/ SendFails(j) PROVE files' = files
    BY <2>3 DEF SendIngestTask, SendFails
  <2> QED BY <1>2, <2>1, <2>2, <2>3 DEF RequestStep
<1>3. ASSUME NEW w \in Workers, WorkerStep(w) PROVE files[d] \subseteq files'[d]
  <2>1. CASE FinishCancelled(w)
    <3>1. Doc(w) \in Docs
      BY <2>1, WorkerJob DEF FinishCancelled, Active
    <3>2. docStatus'[Doc(w)] \notin LiveStatus
      BY <2>1, <3>1 DEF FinishCancelled, HardDeleteDocument, Present, LiveStatus, TypeOK
    <3>3. Doc(w) # d
      BY <3>2 DEF Present
    <3> QED BY <2>1, <3>1, <3>3 DEF FinishCancelled, TypeOK
  <2>2. CASE WriteIndex(w) \/ WriteMarkdown(w)
    BY <2>2 DEF WriteIndex, WriteMarkdown, TypeOK
  <2>3. CASE ~(FinishCancelled(w) \/ WriteIndex(w) \/ WriteMarkdown(w))
    <3>1. files' = files
      BY <1>3, <2>3 DEF WorkerStep, StartGone, StartLocked, StartClaim, CheckCancelled,
            CheckPassed, OcrUpload, OcrUploadLost, OcrPoll, OcrRelease, Compute,
            OcrTransient, StepFails, StartFails, HandlerFails, CancelFails, Drop,
            CommitRefused, CommitCached, CommitStatus, CommitIndex, CommitFinalize,
            ExceptRecheck, MarkDeadLetter, DeadLetterStale, Reraise
    <3> QED BY <3>1
  <2> QED BY <2>1, <2>2, <2>3
<1> QED BY <1>1, <1>2, <1>3, BrokerFrame DEF Next

LEMMA PdfKeptKept ==
    ASSUME TypeOK, References, JobRowsMatch, DataRowsMatch, PdfKept, Next
    PROVE PdfKept'
<1> SUFFICES ASSUME NEW d \in Docs, Present(d)' PROVE "pdf" \in files'[d]
  BY DEF PdfKept
<1>1. ASSUME ~Present(d) PROVE "pdf" \in files[d]
  <2>1. ASSUME NEW e \in Docs, NEW j \in Jobs, CommitUpload(e, j) \/ RetryDocument(e, j)
        PROVE "pdf" \in files[d]
    BY <1>1, <2>1 DEF CommitUpload, RetryDocument, AddJob, TypeOK, Present, LiveStatus
  <2>2. ASSUME NEW e \in Docs, HardDeleteDocument(e) PROVE FALSE
    BY <1>1, <2>2 DEF HardDeleteDocument, TypeOK, Present, LiveStatus
  <2>3. ASSUME NEW w \in Workers, FinishCancelled(w) PROVE FALSE
    BY <2>2, <2>3, WorkerJob DEF FinishCancelled, Active
  <2> QED
    BY <1>1, NextCases, <2>1, <2>2, <2>3, LiveCommits, QuietRequestFrame,
       QuietWorkerFrame, BrokerFrame DEF DeleteCommit, Present
<1> QED BY <1>1, FilesStay DEF PdfKept

\* Only the writer of the image files or of the markdown brings a worker to the
\* commit of the asset rows or of the final segment.
LEMMA FileFrame ==
    ASSUME TypeOK, Next, NEW w \in Workers,
           phase'[w] = "record", seg'[w] \in {AssetRegister, Finalize},
           ~WriteIndex(w), ~WriteMarkdown(w)
    PROVE phase[w] = "record" /\ seg'[w] = seg[w] /\ wJob'[w] = wJob[w]
<1>1. CASE Request \/ RequestStep
  BY <1>1 DEF Request, RequestStep, StageUpload, CommitUpload, RetryDocument, AddJob,
        DeleteCollect, SendIngestTask, SendFails, DeleteCommit, DeleteFiles, DeleteAborts
<1>2. CASE Broker
  BY <1>2 DEF Broker, Deliver, WorkerCrash, Redeliver, EndTask, TypeOK
<1>3. ASSUME NEW v \in Workers, WorkerStep(v), v # w
      PROVE phase[w] = "record" /\ seg'[w] = seg[w] /\ wJob'[w] = wJob[w]
  BY <1>3, OthersStay
<1>4. ~WorkerStep(w)
  BY DEF WorkerStep, StartGone, StartLocked, StartClaim, CheckCancelled, CheckPassed,
        OcrUpload, OcrUploadLost, OcrPoll, OcrRelease, Compute,
        OcrTransient, StepFails, StartFails, HandlerFails, CancelFails, Drop, CommitRefused,
        CommitCached, CommitStatus, CommitIndex, CommitFinalize, ExceptRecheck,
        MarkDeadLetter, DeadLetterStale, Reraise, FinishCancelled, Goto, Raise, NextSegment,
        EndTask, At, TypeOK, UploadToOcr, PollAndFetchOcr, ReleaseOcr, ParseOutline,
        SectionChunk, EmbedBatch, BeginIndexing, AssetRegister, Finalize
<1> QED BY <1>1, <1>2, <1>3, <1>4 DEF Next

LEMMA StepsWrittenKept ==
    ASSUME TypeOK, References, JobRowsMatch, DataRowsMatch, RowsLocked, StepsWritten, Next
    PROVE StepsWritten'
<1> SUFFICES ASSUME NEW w \in Workers, Active(w)', Present(Doc(w))'
             PROVE  /\ \A s \in IndexSteps : s < seg'[w] => rows'[s][Doc(w)'] > 0
                    /\ (phase'[w] = "record" /\ seg'[w] = AssetRegister) \/ seg'[w] = Finalize
                       => "assets" \in files'[Doc(w)']
                    /\ phase'[w] = "record" /\ seg'[w] = Finalize
                       => "markdown" \in files'[Doc(w)']
  BY DEF StepsWritten, At
<1> USE DEF IndexSteps, TrackAWrite, TrackBWrite, AssetRegister, Finalize, Claim
<1>1. CASE phase'[w] = "check" /\ seg'[w] = Claim
  BY <1>1
<1>2. CASE Active(w) /\ wJob'[w] = wJob[w]
  <2>1. Doc(w)' = Doc(w) /\ Present(Doc(w)) /\ Doc(w) \in Docs
    BY <1>2, PresentBefore, WorkerJob
  <2>2. PICK d \in Docs : d = Doc(w) /\ d = Doc(w)' /\ Present(d) /\ Present(d)'
    BY <2>1 DEF Present
  <2>3. files[d] \subseteq files'[d]
    BY <2>2, FilesStay
  <2>4. \A s \in IndexSteps : rows[s][d] > 0 => rows'[s][d] > 0
    BY <2>2, RowsStay
  <2>5. /\ \A s \in IndexSteps : s < seg[w] => rows[s][d] > 0
        /\ (phase[w] = "record" /\ seg[w] = AssetRegister) \/ seg[w] = Finalize
           => "assets" \in files[d]
        /\ phase[w] = "record" /\ seg[w] = Finalize => "markdown" \in files[d]
    BY <1>2, <2>2 DEF StepsWritten, At
  <2>6. CASE seg'[w] = seg[w]
    <3>1. \A s \in IndexSteps : s < seg'[w] => rows'[s][d] > 0
      BY <2>4, <2>5, <2>6
    <3>2. CASE WriteIndex(w)
      <4>1. seg[w] = AssetRegister => "assets" \in files'[d]
        BY <2>2, <3>2, ZenonT(40) DEF WriteIndex, TypeOK
      <4>2. seg[w] # Finalize
        BY <3>2 DEF WriteIndex
      <4> QED BY <2>2, <2>6, <3>1, <4>1, <4>2
    <3>3. CASE WriteMarkdown(w)
      <4>1. seg[w] = Finalize /\ "markdown" \in files'[d]
        BY <2>2, <3>3, ZenonT(40) DEF WriteMarkdown, At, TypeOK
      <4> QED BY <2>2, <2>3, <2>5, <2>6, <3>1, <4>1
    <3>4. CASE ~WriteIndex(w) /\ ~WriteMarkdown(w)
      <4>1. phase'[w] = "record" /\ seg'[w] \in {AssetRegister, Finalize}
            => phase[w] = "record"
        BY <3>4, FileFrame
      <4> QED BY <2>2, <2>3, <2>5, <2>6, <3>1, <4>1
    <3> QED BY <3>2, <3>3, <3>4
  <2>7. CASE /\ phase'[w] = "check" /\ seg'[w] = seg[w] + 1
             /\ StartClaim(w) \/ CommitCached(w) \/ CommitStatus(w)
    <3>1. seg[w] \in 0..7
      BY <2>7 DEF StartClaim, CommitCached, CommitStatus, At, CachedSteps, StatusSteps,
            UploadToOcr, PollAndFetchOcr, ReleaseOcr, ParseOutline, SectionChunk,
            EmbedBatch, BeginIndexing
    <3>2. \A s \in IndexSteps : ~(s < seg'[w])
      BY <2>7, <3>1
    <3> QED BY <2>7, <3>1, <3>2
  <2>8. CASE /\ phase'[w] = "check" /\ seg'[w] = seg[w] + 1
             /\ CommitIndex(w)
    <3>1. seg[w] \in IndexSteps /\ phase[w] = "record"
      BY <2>8 DEF CommitIndex
    <3>2. rows'[seg[w]][d] > 0
      <4>1. PICK s \in IndexSteps : s = seg[w]
        BY <3>1
      <4>2. rows'[s][d] = rows[s][d] - seen[w] + 1
        BY <2>2, <2>8, <4>1, ZenonT(40) DEF CommitIndex, TypeOK
      <4>3. seen[w] <= rows[seg[w]][Doc(w)]
        BY <2>1, <3>1 DEF RowsLocked
      <4>4. seen[w] \in Nat /\ rows[s][d] \in Nat
        BY <4>1 DEF TypeOK
      <4> QED BY <2>2, <4>1, <4>2, <4>3, <4>4
    <3>3. \A s \in IndexSteps : s < seg'[w] => s < seg[w] \/ s = seg[w]
      BY <2>8, <3>1
    <3>4. \A s \in IndexSteps : s < seg'[w] => rows'[s][d] > 0
      BY <2>4, <2>5, <3>2, <3>3
    <3>5. seg'[w] = Finalize => "assets" \in files'[d]
      BY <2>3, <2>5, <2>8, <3>1
    <3> QED BY <2>2, <2>8, <3>4, <3>5
  <2> QED BY <1>1, <2>6, <2>7, <2>8, Moves
<1> QED BY <1>1, <1>2, Moves

LEMMA ReadyKept ==
    ASSUME TypeOK, TypeOK', References, JobRowsMatch, DataRowsMatch, RowsLocked,
           StepsWritten, PdfKept, ReadyComplete, Next
    PROVE ReadyComplete'
<1> SUFFICES ASSUME NEW d \in Docs, docStatus'[d] = "ready"
             PROVE  /\ parseRow'[d]
                    /\ \A s \in IndexSteps : rows'[s][d] > 0
                    /\ FileKinds \subseteq files'[d]
  <2>1. \A d \in Docs : files'[d] \subseteq FileKinds
    BY DEF TypeOK
  <2> QED BY <2>1 DEF ReadyComplete
<1>1. Present(d)'
  BY DEF Present, LiveStatus
<1>2. CASE docStatus[d] = "ready" /\ parseRow'[d] = parseRow[d]
  BY <1>1, <1>2, RowsStay, FilesStay DEF ReadyComplete
<1>3. ASSUME NEW w \in Workers, CommitFinalize(w), Doc(w) = d
      PROVE  /\ parseRow'[d]
             /\ \A s \in IndexSteps : rows[s][d] > 0
             /\ FileKinds \subseteq files[d]
  <2>1. Active(w) /\ Present(d) /\ At(w, "record", Finalize)
    BY <1>3 DEF CommitFinalize, At, Active
  <2>2. \A s \in IndexSteps : s < Finalize
    BY DEF IndexSteps, TrackAWrite, TrackBWrite, AssetRegister, Finalize
  <2>3. \A s \in IndexSteps : rows[s][d] > 0
    BY <1>3, <2>1, <2>2 DEF StepsWritten, At
  <2>4. {"assets", "markdown"} \subseteq files[d]
    BY <1>3, <2>1 DEF StepsWritten, At
  <2>5. "pdf" \in files[d]
    BY <2>1 DEF PdfKept
  <2>6. parseRow'[d]
    BY <1>3 DEF CommitFinalize, TypeOK
  <2> QED BY <2>3, <2>4, <2>5, <2>6 DEF FileKinds
<1>4. \/ docStatus[d] = "ready" /\ parseRow'[d] = parseRow[d]
      \/ \E w \in Workers : CommitFinalize(w) /\ Doc(w) = d
  <2> USE DEF TypeOK
  <2>1. ASSUME NEW e \in Docs, NEW j \in Jobs, CommitUpload(e, j) \/ RetryDocument(e, j)
        PROVE docStatus[d] = "ready" /\ parseRow'[d] = parseRow[d]
    BY <2>1 DEF CommitUpload, RetryDocument, AddJob
  <2>2. ASSUME NEW e \in Docs, HardDeleteDocument(e)
        PROVE docStatus[d] = "ready" /\ parseRow'[d] = parseRow[d]
    <3>1. e # d
      BY <2>2 DEF HardDeleteDocument, Present, LiveStatus
    <3>2. docStatus'[d] = docStatus[d]
      BY <2>2, <3>1 DEF HardDeleteDocument
    <3>3. parseRow' = [parseRow EXCEPT ![e] = FALSE]
      BY <2>2 DEF HardDeleteDocument
    <3>4. parseRow'[d] = parseRow[d]
      BY <3>1, <3>3, ZenonT(30)
    <3> QED BY <3>2, <3>4
  <2>3. ASSUME NEW w \in Workers,
               \/ StartClaim(w) \/ CommitCached(w) \/ CommitStatus(w) \/ CommitIndex(w)
               \/ MarkDeadLetter(w)
        PROVE docStatus[d] = "ready" /\ parseRow'[d] = parseRow[d]
    <3>1. CASE StartClaim(w) \/ MarkDeadLetter(w)
      BY <3>1 DEF StartClaim, MarkDeadLetter
    <3>2. CASE CommitStatus(w)
      <4>1. Doc(w) # d
        BY <3>2 DEF CommitStatus
      <4> QED BY <3>2, <4>1 DEF CommitStatus
    <3>3. CASE CommitCached(w) \/ CommitIndex(w)
      BY <3>3 DEF CommitCached, CommitIndex
    <3> QED BY <2>3, <3>1, <3>2, <3>3
  <2>4. ASSUME NEW w \in Workers, CommitFinalize(w), Doc(w) # d
        PROVE docStatus[d] = "ready" /\ parseRow'[d] = parseRow[d]
    BY <2>4, ZenonT(40) DEF CommitFinalize
  <2>5. ASSUME NEW w \in Workers, FinishCancelled(w)
        PROVE docStatus[d] = "ready" /\ parseRow'[d] = parseRow[d]
    BY <2>2, <2>5, WorkerJob DEF FinishCancelled, Active
  <2> QED
    BY NextCases, <2>1, <2>2, <2>3, <2>4, <2>5, QuietRequestFrame, QuietWorkerFrame,
       BrokerFrame DEF DeleteCommit
<1> QED BY <1>1, <1>2, <1>3, <1>4, RowsStay, FilesStay

-----------------------------------------------------------------------------
(***************************************************************************)
(* Nothing is forgotten.                                                   *)
(***************************************************************************)
\* A worker's step changes the status of its own document only, and takes
\* nothing from the queue or from the requests.
LEMMA WorkerReach ==
    ASSUME TypeOK, NEW w \in Workers, WorkerStep(w)
    PROVE /\ UNCHANGED <<jobDoc, unsent, lost>>
          /\ queue \subseteq queue'
          /\ \A d \in Docs : d # Doc(w) => docStatus'[d] = docStatus[d]
<1>1. CASE StartClaim(w) \/ CommitStatus(w) \/ CommitFinalize(w) \/ MarkDeadLetter(w)
  BY <1>1 DEF StartClaim, CommitStatus, CommitFinalize, AckOrCrash, Restore, Enqueue,
     MarkDeadLetter, TypeOK
<1>2. CASE CommitCached(w) \/ CommitIndex(w)
  BY <1>2 DEF CommitCached, CommitIndex
<1>3. CASE FinishCancelled(w)
  BY <1>3 DEF FinishCancelled, HardDeleteDocument, AckOrCrash, Restore, Enqueue, TypeOK
<1>4. CASE Reraise(w)
  BY <1>4 DEF Reraise, Enqueue
<1>5. CASE QuietStep(w) /\ ~Reraise(w)
  <2>1. UNCHANGED queue
    BY <1>5 DEF QuietStep, StartGone, StartLocked, CheckCancelled, CheckPassed, OcrUpload,
          OcrUploadLost, OcrPoll, OcrRelease, Compute, WriteIndex, WriteMarkdown,
          OcrTransient, StepFails, StartFails, HandlerFails, CancelFails, Drop,
             CommitRefused, ExceptRecheck, DeadLetterStale
  <2> QED BY <1>5, <2>1, QuietWorkerFrame
<1> QED BY <1>1, <1>2, <1>3, <1>4, <1>5 DEF WorkerStep, QuietStep

\* A document's unreported run is forgotten when a run of it begins.
LEMMA DroppedStays ==
    ASSUME TypeOK, References, JobRowsMatch, Next, NEW d \in Docs, ~WasDropped(d)',
           \A w \in Workers : StartClaim(w) => Doc(w) # d
    PROVE ~WasDropped(d)
<1> SUFFICES ASSUME NEW j \in dropped, jobDoc[j] = d PROVE FALSE
  BY DEF WasDropped
<1>1. j \in dropped'
  BY DroppedSources DEF Doc
<1>2. jobDoc'[j] = d
  BY JobsKept DEF References, Committed
<1> QED BY <1>1, <1>2 DEF WasDropped

LEMMA SettleRequest ==
    ASSUME TypeOK, References, JobRowsMatch, UnsettledInHand, Request \/ RequestStep,
           NEW d \in Docs, docStatus'[d] \in LiveStatus \ Settled, ~WasDropped(d)'
    PROVE WillSettle(d)'
<1> USE DEF TypeOK
<1>0. UNCHANGED taskVars
  BY DEF Request, RequestStep, StageUpload, CommitUpload, RetryDocument, AddJob,
        DeleteCollect, SendIngestTask, SendFails, DeleteCommit, DeleteFiles, DeleteAborts
<1>a. ~WasDropped(d)
  <2>1. \A w \in Workers : ~StartClaim(w)
    BY <1>0 DEF StartClaim, NextSegment, At, Claim
  <2> QED BY <2>1, DroppedStays DEF Next
<1>1. ASSUME NEW e \in Docs, NEW j \in Jobs, AddJob(e, j) PROVE WillSettle(d)'
  <2>1. CASE e = d
    BY <1>1, <2>1 DEF AddJob, WillSettle
  <2>2. CASE e # d
    <3>1. docStatus'[d] = docStatus[d] /\ WillSettle(d)
      BY <1>a, <1>1, <2>2 DEF AddJob, UnsettledInHand
    <3>2. \A i \in Jobs : jobDoc[i] = d => jobDoc'[i] = d
      BY <1>1, <2>2, ConstantsAssumption DEF AddJob, JobRowsMatch
    <3>3. CASE docStatus[d] = "pending" /\ \E i \in unsent \cup lost : jobDoc[i] = d
      BY <1>1, <3>1, <3>2, <3>3 DEF AddJob, WillSettle
    <3>4. CASE \E m \in queue : jobDoc[m.job] = d
      BY <1>1, <3>2, <3>4 DEF AddJob, WillSettle, References, Committed
    <3>5. CASE \E w \in Workers : Active(w) /\ phase[w] # "raise" /\ Doc(w) = d
      <4>1. PICK w \in Workers : Active(w) /\ phase[w] # "raise" /\ Doc(w) = d
        BY <3>5
      <4>2. Active(w)' /\ phase'[w] # "raise" /\ Doc(w)' = d
        BY <1>1, <3>2, <4>1 DEF AddJob, Active, Doc, References, Committed
      <4> QED BY <4>2 DEF WillSettle
    <3> QED BY <3>1, <3>3, <3>4, <3>5 DEF WillSettle
  <2> QED BY <2>1, <2>2
<1>2. ASSUME UNCHANGED <<docStatus, jobDoc, queue>>,
             unsent \cup lost \subseteq unsent' \cup lost'
      PROVE WillSettle(d)'
  <2>1. WillSettle(d)
    BY <1>a, <1>2 DEF UnsettledInHand
  <2> QED BY <1>0, <1>2, <2>1 DEF WillSettle, Active, Doc
<1>3. ASSUME NEW j \in Jobs, SendIngestTask(j) PROVE WillSettle(d)'
  <2>1. WillSettle(d) /\ UNCHANGED <<docStatus, jobDoc, lost>>
    BY <1>a, <1>3 DEF SendIngestTask, UnsettledInHand
  <2>2. CASE jobDoc[j] = d
    <3>1. [job |-> j, tries |-> 0] \in queue'
      BY <1>3 DEF SendIngestTask, Enqueue
    <3> QED BY <2>1, <2>2, <3>1 DEF WillSettle
  <2>3. CASE jobDoc[j] # d
    BY <1>0, <1>3, <2>1, <2>3 DEF SendIngestTask, Enqueue, WillSettle, Active, Doc
  <2> QED BY <2>2, <2>3
<1>4. ASSUME NEW e \in Docs, DeleteCommit(e) PROVE WillSettle(d)'
  <2>1. docStatus'[d] = docStatus[d] /\ UNCHANGED <<jobDoc, queue, unsent, lost>>
    BY <1>4 DEF DeleteCommit, HardDeleteDocument, LiveStatus
  <2>2. WillSettle(d)
    BY <1>a, <2>1 DEF UnsettledInHand
  <2> QED BY <1>0, <2>1, <2>2 DEF WillSettle, Active, Doc
<1>5. CASE Request
  BY <1>1, <1>2, <1>5 DEF Request, StageUpload, CommitUpload, RetryDocument, DeleteCollect
<1>6. ASSUME NEW j \in Jobs, SendFails(j) PROVE WillSettle(d)'
  BY <1>2, <1>6 DEF SendFails
<1>7. ASSUME NEW e \in Docs, DeleteFiles(e) \/ DeleteAborts(e) PROVE WillSettle(d)'
  BY <1>2, <1>7 DEF DeleteFiles, DeleteAborts
<1> QED BY <1>3, <1>4, <1>5, <1>6, <1>7 DEF RequestStep

\* A claim is a step of one worker.
LEMMA ClaimIsOwn ==
    ASSUME TypeOK, NEW w \in Workers, WorkerStep(w), NEW v \in Workers, StartClaim(v)
    PROVE v = w
<1>1. phase'[v] # phase[v] \/ seg'[v] # seg[v]
  BY DEF StartClaim, NextSegment, At, TypeOK, Claim
<1> QED BY <1>1, OthersStay

LEMMA BrokerNoClaim ==
    ASSUME Broker, TypeOK, NEW w \in Workers
    PROVE ~StartClaim(w)
BY BrokerFrame DEF Broker, Deliver, WorkerCrash, Redeliver, EndTask, StartClaim, NextSegment,
   At, TypeOK, Claim

LEMMA SettleBroker ==
    ASSUME TypeOK, References, JobRowsMatch, UnsettledInHand, Broker,
           NEW d \in Docs, docStatus'[d] \in LiveStatus \ Settled, ~WasDropped(d)'
    PROVE WillSettle(d)'
<1> USE DEF TypeOK
<1>a. ~WasDropped(d)
  <2>1. \A w \in Workers : StartClaim(w) => Doc(w) # d
    BY BrokerNoClaim
  <2> QED BY <2>1, DroppedStays DEF Next
<1>0. WillSettle(d) /\ UNCHANGED <<docStatus, jobDoc, unsent, lost>>
  BY <1>a, BrokerFrame DEF UnsettledInHand
<1>1. ASSUME NEW w \in Workers, NEW m \in queue, Deliver(w, m) PROVE WillSettle(d)'
  <2>1. CASE jobDoc[m.job] = d
    <3>1. Active(w)' /\ phase'[w] # "raise" /\ Doc(w)' = d
      BY <1>0, <1>1, <2>1 DEF Deliver, Active, Doc
    <3> QED BY <3>1 DEF WillSettle
  <2>2. CASE jobDoc[m.job] # d
    <3>1. ASSUME NEW v \in Workers, Active(v), phase[v] # "raise", Doc(v) = d
          PROVE WillSettle(d)'
      <4>1. Active(v)' /\ phase'[v] # "raise" /\ Doc(v)' = d
        BY <1>0, <1>1, <3>1 DEF Deliver, Active, Doc
      <4> QED BY <4>1 DEF WillSettle
    <3> QED BY <1>0, <1>1, <2>2, <3>1 DEF Deliver, WillSettle
  <2> QED BY <2>1, <2>2
<1>2. ASSUME NEW w \in Workers, WorkerCrash(w) \/ Redeliver(w) PROVE WillSettle(d)'
  <2>1. [job |-> wJob[w], tries |-> wTries[w]] \in queue' /\ queue \subseteq queue'
    BY <1>2 DEF WorkerCrash, Redeliver, Restore, Enqueue
  <2>2. ASSUME NEW v \in Workers, Active(v), phase[v] # "raise", Doc(v) = d
        PROVE WillSettle(d)'
    <3>1. CASE v = w
      BY <1>0, <2>1, <2>2, <3>1 DEF WillSettle, Doc
    <3>2. CASE v # w
      <4>1. Active(v)' /\ phase'[v] # "raise" /\ Doc(v)' = d
        BY <1>0, <1>2, <2>2, <3>2 DEF WorkerCrash, Redeliver, EndTask, Active, Doc
      <4> QED BY <4>1 DEF WillSettle
    <3> QED BY <3>1, <3>2
  <2> QED BY <1>0, <2>1, <2>2 DEF WillSettle
<1> QED BY <1>1, <1>2 DEF Broker

LEMMA SettleWorker ==
    ASSUME TypeOK, References, JobRowsMatch, CancelledAreGone, UnsettledInHand,
           NEW w \in Workers, WorkerStep(w),
           NEW d \in Docs, docStatus'[d] \in LiveStatus \ Settled, ~WasDropped(d)'
    PROVE WillSettle(d)'
<1>0. UNCHANGED <<jobDoc, unsent, lost>> /\ queue \subseteq queue'
  BY WorkerReach
<1>1. ASSUME NEW v \in Workers, v # w, Active(v), phase[v] # "raise", Doc(v) = d
      PROVE WillSettle(d)'
  <2>1. Active(v)' /\ phase'[v] # "raise" /\ Doc(v)' = d
    BY <1>0, <1>1, OthersStay DEF Active, Doc
  <2> QED BY <2>1 DEF WillSettle
<1>2. ASSUME docStatus'[d] = docStatus[d], Doc(w) # d \/ phase[w] = "raise"
      PROVE WillSettle(d)'
  <2>1. ~WasDropped(d)
    <3>1. \A v \in Workers : StartClaim(v) => Doc(v) # d
      BY <1>2, ClaimIsOwn DEF StartClaim, At
    <3> QED BY <3>1, DroppedStays DEF Next
  <2>2. WillSettle(d)
    BY <1>2, <2>1 DEF UnsettledInHand
  <2> QED BY <1>0, <1>1, <1>2, <2>2 DEF WillSettle
<1>3. CASE Doc(w) # d
  BY <1>2, <1>3, WorkerReach
<1>4. CASE Doc(w) = d /\ Active(w)' /\ phase'[w] # "raise"
  <2>1. Doc(w)' = d
    BY <1>0, <1>4, OthersStay DEF Doc, Active
  <2> QED BY <1>4, <2>1 DEF WillSettle
<1>5. CASE Doc(w) = d /\ ~(Active(w)' /\ phase'[w] # "raise")
  <2>1. \/ StartLocked(w) \/ CommitFinalize(w) \/ Reraise(w) \/ FinishCancelled(w)
        \/ MarkDeadLetter(w) \/ DeadLetterStale(w)
        \/ StartFails(w) \/ HandlerFails(w) \/ CancelFails(w)
    <3>0. phase \in [Workers -> Phases]
      BY DEF TypeOK
    <3>1. phase'[w] \in {"idle", "raise"}
      BY <1>5 DEF Active
    <3>2. ~(StartGone(w) \/ StartClaim(w) \/ CheckCancelled(w) \/ CheckPassed(w))
      BY <3>0, <3>1 DEF StartGone, StartClaim, CheckCancelled, CheckPassed, Goto, NextSegment
    <3>3. ~\E s \in Sessions : OcrUpload(w, s)
      BY <3>0, <3>1 DEF OcrUpload, Goto
    <3>4. ASSUME NEW s \in Sessions, OcrUploadLost(w, s) PROVE FALSE
      BY <3>0, <3>1, <3>4 DEF OcrUploadLost, At
    <3>5. ~(OcrPoll(w) \/ OcrRelease(w) \/ Compute(w) \/ WriteIndex(w) \/ WriteMarkdown(w))
      BY <3>0, <3>1 DEF OcrPoll, OcrRelease, Compute, WriteIndex, WriteMarkdown, Goto
    <3>6. ~(OcrTransient(w) \/ StepFails(w) \/ CommitRefused(w) \/ ExceptRecheck(w))
      BY <3>0, <3>1 DEF OcrTransient, StepFails, StartFails, HandlerFails, CancelFails,
         Drop, CommitRefused, ExceptRecheck, Raise, Goto
    <3>7. ~(CommitCached(w) \/ CommitStatus(w) \/ CommitIndex(w))
      BY <3>0, <3>1 DEF CommitCached, CommitStatus, CommitIndex, NextSegment
    <3> QED BY <3>2, <3>3, <3>4, <3>5, <3>6, <3>7 DEF WorkerStep
  <2>2. CASE StartLocked(w)
    <3>1. PICK v \in Workers \ {w} : wJob[v] = wJob[w] /\ LocksJob(v)
      BY <2>2 DEF StartLocked
    <3>2. Active(v) /\ phase[v] # "raise" /\ Doc(v) = d
      BY <1>5, <3>1 DEF LocksJob, At, Active, Doc
    <3> QED BY <1>1, <3>2
  <2>3. CASE CommitFinalize(w) \/ MarkDeadLetter(w)
    BY <1>5, <2>3 DEF CommitFinalize, MarkDeadLetter, TypeOK, Settled
  <2>4. CASE FinishCancelled(w)
    BY <1>5, <2>4 DEF FinishCancelled, HardDeleteDocument, Present, LiveStatus, TypeOK
  <2>5. CASE DeadLetterStale(w)
    BY <1>5, <2>5 DEF DeadLetterStale, Present
  <2>6. CASE Reraise(w)
    BY <1>2, <2>6 DEF Reraise
  <2>7. CASE StartFails(w) \/ HandlerFails(w)
    BY <1>0, <1>5, <2>7 DEF StartFails, HandlerFails, Drop, WasDropped, Doc
  <2>8. CASE CancelFails(w)
    BY <1>5, <2>8 DEF CancelFails, CancelledAreGone, Present
  <2> QED BY <2>1, <2>2, <2>3, <2>4, <2>5, <2>6, <2>7, <2>8
<1> QED BY <1>3, <1>4, <1>5

-----------------------------------------------------------------------------
(***************************************************************************)
(* The inductive invariant.                                                *)
(***************************************************************************)
LEMMA InductiveInit == Init => Inductive
<1> SUFFICES ASSUME Init PROVE Inductive
  OBVIOUS
<1> USE DEF Init
<1>1. TypeOK
  BY ConstantsAssumption DEF TypeOK, Phases, Segments, Claim
<1>2. References /\ JobRowsMatch /\ CancelledAreGone
  BY DEF References, JobRowsMatch, CancelledAreGone, JobRowStatus, Active
<1>3. DataRowsMatch
  BY DEF DataRowsMatch
<1>4. RowsLocked /\ StepsRecorded /\ StepsWritten
  BY DEF RowsLocked, StepsRecorded, StepsWritten, Active
<1>5. PdfKept /\ SucceededLedger /\ ReadyComplete /\ UnsettledInHand
  BY DEF PdfKept, SucceededLedger, ReadyComplete, UnsettledInHand, Present, LiveStatus
<1> QED BY <1>1, <1>2, <1>3, <1>4, <1>5 DEF Inductive

LEMMA InductiveNext == Inductive /\ [Next]_vars => Inductive'
<1> SUFFICES ASSUME Inductive, [Next]_vars PROVE Inductive'
  OBVIOUS
<1>1. CASE Next
  <2> USE <1>1 DEF Inductive
  <2>1. TypeOK'
    BY TypeRequest, TypeBroker, TypeWorker DEF Next
  <2>2. References' /\ JobRowsMatch' /\ CancelledAreGone'
    BY ReferencesKept, JobRowsKept, CancelledKept
  <2>3. DataRowsMatch' /\ RowsLocked' /\ StepsRecorded' /\ StepsWritten' /\ PdfKept'
    BY DataRowsKept, RowsLockedKept, StepsRecordedKept, StepsWrittenKept, PdfKeptKept
  <2>4. SucceededLedger' /\ ReadyComplete'
    BY <2>1, <2>2, SucceededKept, ReadyKept
  <2>5. UnsettledInHand'
    BY SettleRequest, SettleBroker, SettleWorker DEF Next, UnsettledInHand
  <2> QED BY <2>1, <2>2, <2>3, <2>4, <2>5
<1>2. CASE UNCHANGED vars
  <2> USE <1>2 DEF Inductive, vars
  <2>1. TypeOK'
    BY DEF TypeOK
  <2>2. References' /\ JobRowsMatch' /\ DataRowsMatch' /\ CancelledAreGone' /\ RowsLocked'
    BY DEF References, Committed, JobRowsMatch, DataRowsMatch, CancelledAreGone, RowsLocked,
       Active, At, Doc, Present
  <2>3. StepsRecorded' /\ StepsWritten' /\ PdfKept' /\ SucceededLedger' /\ ReadyComplete'
    BY DEF StepsRecorded, StepsWritten, PdfKept, SucceededLedger, ReadyComplete,
       Active, At, Doc, Present
  <2>4. UnsettledInHand'
    BY DEF UnsettledInHand, WillSettle, WasDropped, Active, Doc
  <2> QED BY <2>1, <2>2, <2>3, <2>4
<1> QED BY <1>1, <1>2

\* The strengthened invariant holds in every reachable state, for any number of
\* documents, jobs, sessions and workers and any bounds.
THEOREM InductiveInvariant == Spec => []Inductive
BY InductiveInit, InductiveNext, PTL DEF Spec

-----------------------------------------------------------------------------
(***************************************************************************)
(* The properties.                                                         *)
(***************************************************************************)
\* Every variable keeps its type; in particular a row count never goes negative,
\* which rests on the locks that DELETE takes on the rows it replaces.
THEOREM TypeCorrect == Spec => []TypeOK
<1>1. Inductive => TypeOK
  BY DEF Inductive
<1> QED BY <1>1, InductiveInvariant, PTL

\* A deleted document leaves no row behind, whatever its workers were doing when
\* hard_delete_documents committed.
THEOREM NothingOrphaned == Spec => []NoOrphanRows
<1>1. Inductive => NoOrphanRows
  BY DEF Inductive, JobRowsMatch, DataRowsMatch, NoOrphanRows
<1> QED BY <1>1, InductiveInvariant, PTL

\* A document shown as ready is completely indexed and on disk, although other
\* jobs, redeliveries and deletions of it may be running.
THEOREM ReadyIsComplete == Spec => []ReadyComplete
<1>1. Inductive => ReadyComplete
  BY DEF Inductive
<1> QED BY <1>1, InductiveInvariant, PTL

\* A job is marked succeeded only with a receipt of every step.
THEOREM SuccessIsRecorded == Spec => []SucceededLedger
<1>1. Inductive => SucceededLedger
  BY DEF Inductive
<1> QED BY <1>1, InductiveInvariant, PTL

\* A document is left neither ready nor failed with nobody working on it in two
\* ways only: its job is committed and its task never sent, or the last run of
\* one of its jobs ended outside the exception handler.
THEOREM NobodyStranded == Spec => []StrandedOnlyIfDropped
<1>1. Inductive => StrandedOnlyIfDropped
  BY DEF Inductive, UnsettledInHand, WillSettle, WasDropped, StrandedOnlyIfDropped,
     InCustody
<1> QED BY <1>1, InductiveInvariant, PTL

\* No worker deletes a document that is still there: _finish_cancelled_ingest
\* runs the deletion only for a document a request has deleted.
THEOREM OnlyRequestsDeleteDocuments == Spec => OnlyRequestsDelete
<1>1. ASSUME Inductive, [Next]_vars, NEW d \in Docs, Present(d), ~Present(d)'
      PROVE delPhase[d] = "collected"
  <2> USE DEF Inductive
  <2>1. Next
    BY <1>1 DEF vars, Present
  <2>2. ASSUME NEW e \in Docs, NEW j \in Jobs, CommitUpload(e, j) \/ RetryDocument(e, j)
        PROVE FALSE
    BY <1>1, <2>2 DEF CommitUpload, RetryDocument, AddJob, TypeOK, Present, LiveStatus
  <2>3. ASSUME NEW e \in Docs, HardDeleteDocument(e) PROVE e = d
    BY <1>1, <2>3 DEF HardDeleteDocument, TypeOK, Present
  <2>4. ASSUME NEW w \in Workers, FinishCancelled(w) PROVE FALSE
    <3>1. Doc(w) \in Docs /\ ~Present(Doc(w))
      BY <1>1, <2>4, WorkerJob DEF FinishCancelled, Active, CancelledAreGone
    <3> QED BY <1>1, <2>3, <2>4, <3>1 DEF FinishCancelled
  <2>5. ASSUME NEW e \in Docs, DeleteCommit(e) PROVE delPhase[d] = "collected"
    BY <2>3, <2>5 DEF DeleteCommit
  <2>6. ASSUME QuietRequest \/ Broker \/ \E w \in Workers : QuietStep(w) PROVE FALSE
    BY <1>1, <2>6, QuietRequestFrame, QuietWorkerFrame, BrokerFrame DEF Present
  <2> QED
    BY <1>1, <2>1, NextCases, <2>2, <2>4, <2>5, <2>6, LiveCommits
<1>2. Inductive /\ [Next]_vars
      => [\A d \in Docs : Present(d) /\ ~Present(d)' => delPhase[d] = "collected"]_vars
  BY <1>1
<1> QED BY <1>2, InductiveInvariant, PTL DEF Spec, OnlyRequestsDelete

-----------------------------------------------------------------------------
(***************************************************************************)
(* The OCR session: recorded once, released before success; and the        *)
(* receipts as the steps of an ordered ledger.                             *)
(***************************************************************************)
\* The session of a job is recorded once.
LEMMA SessionStays ==
    ASSUME TypeOK, References, JobRowsMatch, Next, NEW j \in Jobs, Committed(j),
           UploadToOcr \in receipts[j], Present(jobDoc[j])'
    PROVE upSession'[j] = upSession[j]
<1>0. jobDoc'[j] = jobDoc[j] /\ jobDoc[j] \in Docs
  BY JobsKept DEF Committed, JobRowsMatch, TypeOK
<1>1. ASSUME NEW d \in Docs, NEW i \in Jobs, CommitUpload(d, i) \/ RetryDocument(d, i)
      PROVE upSession' = upSession
  BY <1>1 DEF CommitUpload, RetryDocument, AddJob
<1>2. ASSUME NEW d \in Docs, HardDeleteDocument(d) PROVE upSession'[j] = upSession[j]
  BY <1>0, <1>2 DEF HardDeleteDocument, TypeOK, Present, LiveStatus
<1>3. ASSUME NEW w \in Workers,
             \/ StartClaim(w) \/ CommitStatus(w) \/ CommitIndex(w) \/ CommitFinalize(w)
             \/ MarkDeadLetter(w)
      PROVE upSession' = upSession
  BY <1>3 DEF StartClaim, CommitStatus, CommitIndex, CommitFinalize, MarkDeadLetter
<1>4. ASSUME NEW w \in Workers, CommitCached(w) PROVE upSession'[j] = upSession[j]
  <2>1. CASE wJob[w] = j /\ seg[w] = UploadToOcr
    BY <1>4, <2>1 DEF CommitCached, ReceiptClash, ReceiptFound, ReceiptSteps, StatusSteps,
          UploadToOcr, ReleaseOcr, BeginIndexing
  <2>2. CASE ~(wJob[w] = j /\ seg[w] = UploadToOcr)
    BY <1>4, <2>2 DEF CommitCached, TypeOK
  <2> QED BY <2>1, <2>2
<1>5. ASSUME NEW w \in Workers, FinishCancelled(w) PROVE upSession'[j] = upSession[j]
  BY <1>2, <1>5, WorkerJob DEF FinishCancelled, Active
<1> QED
  BY NextCases, <1>1, <1>2, <1>3, <1>4, <1>5, QuietRequestFrame, QuietWorkerFrame,
     BrokerFrame DEF DeleteCommit

\* A session removed from the OCR service does not come back.
LEMMA GoneSessionStays ==
    ASSUME TypeOK, Next, NEW s \in Sessions, session[s] = "gone"
    PROVE session'[s] = "gone"
<1>1. CASE Request \/ RequestStep
  BY <1>1 DEF Request, RequestStep, StageUpload, CommitUpload, RetryDocument, AddJob,
        DeleteCollect, SendIngestTask, SendFails, DeleteCommit, DeleteFiles, DeleteAborts
<1>2. ASSUME NEW w \in Workers, WorkerStep(w) PROVE session'[s] = "gone"
  <2>1. CASE FinishCancelled(w) \/ CancelFails(w) \/ OcrRelease(w)
    BY <2>1 DEF FinishCancelled, CancelFails, OcrRelease, DeleteSession
  <2>2. CASE \E t \in Sessions : OcrUpload(w, t) \/ OcrUploadLost(w, t)
    BY <2>2 DEF OcrUpload, OcrUploadLost, TypeOK
  <2>3. CASE ~(\/ FinishCancelled(w) \/ CancelFails(w) \/ OcrRelease(w)
               \/ \E t \in Sessions : OcrUpload(w, t) \/ OcrUploadLost(w, t))
    <3>1. session' = session
      BY <1>2, <2>3 DEF WorkerStep, StartGone, StartLocked, StartClaim, CheckCancelled,
            CheckPassed, OcrPoll, Compute, WriteIndex, WriteMarkdown, OcrTransient,
            StepFails, StartFails, HandlerFails, CancelFails, Drop, CommitRefused,
            CommitCached, CommitStatus, CommitIndex, CommitFinalize, ExceptRecheck,
            MarkDeadLetter, DeadLetterStale, Reraise
    <3> QED BY <3>1
  <2> QED BY <2>1, <2>2, <2>3
<1> QED BY <1>1, <1>2, BrokerFrame DEF Next

LEMMA UploadRecordedKept ==
    ASSUME TypeOK, References, JobRowsMatch, JobRowsMatch', UploadRecorded, FreshKnown, Next
    PROVE UploadRecorded'
<1> USE DEF UploadRecorded, TypeOK
<1>1. ASSUME NEW d \in Docs, NEW j \in Jobs, CommitUpload(d, j) \/ RetryDocument(d, j)
      PROVE UploadRecorded'
  BY <1>1 DEF CommitUpload, RetryDocument, AddJob, JobRowStatus
<1>2. ASSUME NEW d \in Docs, HardDeleteDocument(d) PROVE UploadRecorded'
  BY <1>2 DEF HardDeleteDocument
<1>3. CASE QuietRequest \/ Broker \/ \E w \in Workers : QuietStep(w)
  BY <1>3, QuietRequestFrame, QuietWorkerFrame, BrokerFrame
<1>4. ASSUME NEW w \in Workers,
             \/ StartClaim(w) \/ CommitStatus(w) \/ CommitIndex(w) \/ CommitFinalize(w)
             \/ MarkDeadLetter(w)
      PROVE UploadRecorded'
  <2>1. upSession' = upSession
    BY <1>4 DEF StartClaim, CommitStatus, CommitIndex, CommitFinalize, MarkDeadLetter
  <2>2. ASSUME NEW j \in Jobs, UploadToOcr \in receipts'[j] PROVE UploadToOcr \in receipts[j]
    <3>1. receipts' = receipts \/ (WriteReceipt(w) /\ seg[w] # UploadToOcr)
      BY <1>4 DEF StartClaim, CommitStatus, CommitIndex, CommitFinalize, MarkDeadLetter, At,
            IndexSteps, UploadToOcr, TrackAWrite, TrackBWrite, AssetRegister, Finalize
    <3> QED BY <2>2, <3>1, SMTT(30) DEF WriteReceipt
  <2>3. \A j \in Jobs : jobStatus'[j] \notin JobRowStatus => jobStatus[j] \notin JobRowStatus
    BY <1>4, LiveCommits
  <2> QED BY <2>1, <2>2, <2>3
<1>5. ASSUME NEW w \in Workers, CommitCached(w) PROVE UploadRecorded'
  <2>1. wJob[w] \in Jobs /\ jobStatus' = jobStatus
    BY <1>5, WorkerJob DEF CommitCached, Active
  <2>2. CASE hit[w] \/ seg[w] # UploadToOcr
    <3>1. upSession' = upSession
      BY <1>5, <2>2 DEF CommitCached
    <3>2. ASSUME NEW j \in Jobs, UploadToOcr \in receipts'[j]
          PROVE UploadToOcr \in receipts[j]
      BY <1>5, <2>2, <3>2 DEF CommitCached, WriteReceipt
    <3> QED BY <2>1, <3>1, <3>2
  <2>3. CASE ~hit[w] /\ seg[w] = UploadToOcr
    <3>1. fresh[w] \in Sessions
      BY <1>5, <2>3 DEF CommitCached, FreshKnown, At
    <3>2. upSession' = [upSession EXCEPT ![wJob[w]] = fresh[w]]
      BY <1>5, <2>3 DEF CommitCached
    <3>3. jobStatus[wJob[w]] \in JobRowStatus
      BY <1>5, <2>3, WorkerRow DEF CommitCached, WritesRows, Active
    <3>4. \A j \in Jobs \ {wJob[w]} : receipts'[j] = receipts[j]
      BY <1>5 DEF CommitCached, WriteReceipt
    <3> QED BY <2>1, <3>1, <3>2, <3>3, <3>4
  <2> QED BY <2>2, <2>3
<1>6. ASSUME NEW w \in Workers, FinishCancelled(w) PROVE UploadRecorded'
  BY <1>2, <1>6, WorkerJob DEF FinishCancelled, Active
<1> QED BY NextCases, <1>1, <1>2, <1>3, <1>4, <1>5, <1>6 DEF DeleteCommit

LEMMA FreshKnownKept ==
    ASSUME TypeOK, FreshKnown, Next
    PROVE FreshKnown'
<1> SUFFICES ASSUME NEW w \in Workers, phase'[w] = "record", seg'[w] = UploadToOcr, ~hit'[w]
             PROVE fresh'[w] \in Sessions
  BY DEF FreshKnown, At
<1>1. CASE Request \/ RequestStep
  BY <1>1 DEF Request, RequestStep, StageUpload, CommitUpload, RetryDocument, AddJob,
        DeleteCollect, SendIngestTask, SendFails, DeleteCommit, DeleteFiles, DeleteAborts,
        FreshKnown, At
<1>2. CASE Broker
  BY <1>2 DEF Broker, Deliver, WorkerCrash, Redeliver, EndTask, TypeOK, FreshKnown, At
<1>3. ASSUME NEW v \in Workers, WorkerStep(v), v # w PROVE fresh'[w] \in Sessions
  BY <1>3, OthersStay DEF FreshKnown, At
<1>4. ASSUME NEW s \in Sessions, OcrUpload(w, s) PROVE fresh'[w] \in Sessions
  BY <1>4 DEF OcrUpload, TypeOK
<1>5. ~StartGone(w) /\ ~StartLocked(w) /\ ~StartClaim(w) /\ ~CheckCancelled(w)
      /\ ~CheckPassed(w) /\ ~OcrPoll(w) /\ ~OcrRelease(w) /\ ~Compute(w)
  BY DEF StartGone, StartLocked, StartClaim, CheckCancelled, CheckPassed, OcrPoll,
        OcrRelease, Compute, Goto, NextSegment, EndTask, At, TypeOK, UploadToOcr,
        PollAndFetchOcr, ReleaseOcr, ParseOutline, SectionChunk, EmbedBatch, BeginIndexing
<1>6. ~WriteIndex(w) /\ ~WriteMarkdown(w) /\ ~OcrTransient(w) /\ ~StepFails(w)
      /\ ~StartFails(w) /\ ~HandlerFails(w)
      /\ ~CancelFails(w) /\ ~CommitRefused(w) /\ ~CommitCached(w) /\ ~CommitStatus(w) /\ ~CommitIndex(w)
  BY DEF WriteIndex, WriteMarkdown, OcrTransient, StepFails, StartFails, HandlerFails,
        CancelFails, Drop, CommitRefused, CommitCached, CommitStatus, CommitIndex, Goto,
        Raise, NextSegment, EndTask, At, TypeOK, IndexSteps, UploadToOcr, TrackAWrite,
        TrackBWrite, AssetRegister, Finalize
<1>7. ~CommitFinalize(w) /\ ~ExceptRecheck(w) /\ ~MarkDeadLetter(w) /\ ~DeadLetterStale(w)
      /\ ~Reraise(w) /\ ~FinishCancelled(w)
  BY DEF CommitFinalize, ExceptRecheck, MarkDeadLetter, DeadLetterStale, Reraise,
        FinishCancelled, Goto, EndTask, TypeOK
<1>8. ASSUME NEW s \in Sessions, OcrUploadLost(w, s) PROVE FALSE
  BY <1>8 DEF OcrUploadLost, At
<1> QED BY <1>1, <1>2, <1>3, <1>4, <1>5, <1>6, <1>7, <1>8 DEF Next, WorkerStep

-----------------------------------------------------------------------------
(***************************************************************************)
(* What a worker holds.                                                    *)
(***************************************************************************)
\* A worker's ocr_session_id changes when it reads the receipt and when it has
\* released the session.
LEMMA HeldFrame ==
    ASSUME TypeOK, Next, NEW w \in Workers, Active(w)'
    PROVE \/ phase'[w] = "check" /\ seg'[w] = Claim
          \/ Active(w) /\ held'[w] = held[w]
          \/ CheckPassed(w) /\ seg[w] = PollAndFetchOcr
          \/ OcrRelease(w)
<1> USE DEF TypeOK, Active
<1>1. CASE Request \/ RequestStep
  BY <1>1 DEF Request, RequestStep, StageUpload, CommitUpload, RetryDocument, AddJob,
        DeleteCollect, SendIngestTask, SendFails, DeleteCommit, DeleteFiles, DeleteAborts
<1>2. CASE Broker
  BY <1>2 DEF Broker, Deliver, WorkerCrash, Redeliver, EndTask
<1>3. ASSUME NEW v \in Workers, WorkerStep(v), v # w
      PROVE Active(w) /\ held'[w] = held[w]
  BY <1>3, OthersStay
<1>4. CASE WorkerStep(w) /\ ~CheckPassed(w) /\ ~OcrRelease(w)
  BY <1>4 DEF WorkerStep, StartGone, StartLocked, StartClaim, CheckCancelled, OcrUpload,
        OcrUploadLost, OcrPoll, Compute, WriteIndex, WriteMarkdown, OcrTransient,
        StepFails, StartFails, HandlerFails, CancelFails, Drop, CommitRefused, CommitCached,
        CommitStatus, CommitIndex, CommitFinalize, ExceptRecheck, MarkDeadLetter,
        DeadLetterStale, Reraise, FinishCancelled, EndTask, At
<1>5. CASE CheckPassed(w)
  BY <1>5 DEF CheckPassed, PollAndFetchOcr
<1> QED BY <1>1, <1>2, <1>3, <1>4, <1>5 DEF Next

\* How a worker comes to hold a transaction that has released the session.
LEMMA ReleaseFrame ==
    ASSUME TypeOK, Next, NEW w \in Workers,
           phase'[w] \in {"work", "record"}, ~CheckPassed(w), ~OcrRelease(w)
    PROVE phase[w] = phase'[w] \/ (phase[w] = "work" /\ seg[w] # ReleaseOcr)
<1>1. CASE Request \/ RequestStep
  BY <1>1 DEF Request, RequestStep, StageUpload, CommitUpload, RetryDocument, AddJob,
        DeleteCollect, SendIngestTask, SendFails, DeleteCommit, DeleteFiles, DeleteAborts
<1>2. CASE Broker
  BY <1>2 DEF Broker, Deliver, WorkerCrash, Redeliver, EndTask, TypeOK
<1>3. ASSUME NEW v \in Workers, WorkerStep(v), v # w PROVE phase[w] = phase'[w]
  BY <1>3, OthersStay
<1>4. CASE OcrPoll(w) \/ Compute(w) \/ WriteIndex(w) \/ WriteMarkdown(w)
           \/ \E s \in Sessions : OcrUpload(w, s) \/ OcrUploadLost(w, s)
  BY <1>4 DEF OcrPoll, Compute, WriteIndex, WriteMarkdown, OcrUpload, OcrUploadLost, At,
        IndexSteps, UploadToOcr, PollAndFetchOcr, ReleaseOcr, ParseOutline, SectionChunk,
        EmbedBatch, BeginIndexing, TrackAWrite, TrackBWrite, AssetRegister, Finalize
<1>5. ~StartGone(w) /\ ~StartLocked(w) /\ ~StartClaim(w) /\ ~CheckCancelled(w)
      /\ ~OcrTransient(w) /\ ~StepFails(w)
      /\ ~StartFails(w) /\ ~HandlerFails(w)
      /\ ~CancelFails(w) /\ ~CommitRefused(w)
  BY DEF StartGone, StartLocked, StartClaim, CheckCancelled, OcrTransient, StepFails,
        StartFails, HandlerFails, CancelFails, Drop, CommitRefused, Goto, Raise,
        NextSegment, EndTask, TypeOK
<1>6. ~CommitCached(w) /\ ~CommitStatus(w) /\ ~CommitIndex(w) /\ ~CommitFinalize(w)
      /\ ~ExceptRecheck(w) /\ ~MarkDeadLetter(w) /\ ~DeadLetterStale(w) /\ ~Reraise(w)
      /\ ~FinishCancelled(w)
  BY DEF CommitCached, CommitStatus, CommitIndex, CommitFinalize, ExceptRecheck,
        MarkDeadLetter, DeadLetterStale, Reraise, FinishCancelled, Goto, NextSegment,
        EndTask, TypeOK
<1> QED BY <1>1, <1>2, <1>3, <1>4, <1>5, <1>6 DEF Next, WorkerStep

LEMMA SessionHeldKept ==
    ASSUME TypeOK, References, JobRowsMatch, StepsRecorded, UploadRecorded, SessionHeld, Next
    PROVE SessionHeld'
<1> USE DEF UploadToOcr, PollAndFetchOcr, ReleaseOcr, Claim
<1> SUFFICES ASSUME NEW w \in Workers, Active(w)', Present(Doc(w))'
             PROVE  /\ \/ seg'[w] = PollAndFetchOcr /\ phase'[w] \in {"work", "record"}
                       \/ seg'[w] = ReleaseOcr /\ phase'[w] \in {"check", "work"}
                       => held'[w] = upSession'[wJob'[w]]
                    /\ (phase'[w] = "record" /\ seg'[w] = ReleaseOcr) \/ seg'[w] > ReleaseOcr
                       => session'[upSession'[wJob'[w]]] = "gone"
  BY DEF SessionHeld, At
<1>1. CASE phase'[w] = "check" /\ seg'[w] = Claim
  BY <1>1
<1>2. CASE Active(w) /\ wJob'[w] = wJob[w] /\ ~(phase'[w] = "check" /\ seg'[w] = Claim)
  <2>0. Doc(w)' = Doc(w) /\ Present(Doc(w)) /\ seg[w] \in 0..11
    BY <1>2, PresentBefore DEF TypeOK, Segments
  <2>1. PICK j \in Jobs : j = wJob[w] /\ Committed(j) /\ jobDoc[j] = Doc(w)
    BY <1>2 DEF References, Committed, Doc
  <2>2. Present(jobDoc[j])'
    BY <2>0, <2>1, JobsKept DEF Present
  <2>3. seg[w] > UploadToOcr => UploadToOcr \in receipts[j]
    BY <1>2, <2>0, <2>1 DEF StepsRecorded, ReceiptSteps, StatusSteps, BeginIndexing
  <2>4. seg[w] > UploadToOcr => upSession'[j] = upSession[j] /\ upSession[j] \in Sessions
    BY <2>1, <2>2, <2>3, SessionStays DEF UploadRecorded
  <2>5. /\ \/ seg[w] = PollAndFetchOcr /\ phase[w] \in {"work", "record"}
           \/ seg[w] = ReleaseOcr /\ phase[w] \in {"check", "work"}
           => held[w] = upSession[j]
        /\ (phase[w] = "record" /\ seg[w] = ReleaseOcr) \/ seg[w] > ReleaseOcr
           => session[upSession[j]] = "gone"
    BY <1>2, <2>0, <2>1 DEF SessionHeld, At
  <2>6. (phase[w] = "record" /\ seg[w] = ReleaseOcr) \/ seg[w] > ReleaseOcr
        => session'[upSession'[j]] = "gone"
    BY <2>0, <2>4, <2>5, GoneSessionStays
  <2>7. CASE CheckPassed(w)
    <3>1. seg'[w] = seg[w] /\ phase[w] = "check" /\ phase'[w] = "work"
          /\ upSession' = upSession
      BY <2>7 DEF CheckPassed, Goto, TypeOK
    <3>2. CASE seg[w] = PollAndFetchOcr
      BY <1>2, <2>1, <2>7, <3>1, <3>2 DEF CheckPassed, TypeOK
    <3>3. CASE seg[w] # PollAndFetchOcr
      BY <1>2, <2>1, <2>5, <2>6, <2>7, <3>1, <3>3 DEF CheckPassed
    <3> QED BY <3>2, <3>3
  <2>8. CASE OcrRelease(w)
    <3>1. seg[w] = ReleaseOcr /\ seg'[w] = seg[w] /\ phase'[w] = "record" /\ phase[w] = "work"
      BY <2>8 DEF OcrRelease, At, Goto, TypeOK
    <3>2. held[w] = upSession[j] /\ upSession'[j] = upSession[j] /\ upSession[j] \in Sessions
      BY <2>4, <2>5, <3>1
    <3>3. session'[upSession[j]] = "gone"
      BY <2>8, <3>2 DEF OcrRelease, DeleteSession
    <3> QED BY <1>2, <2>1, <3>1, <3>2, <3>3
  <2>9. CASE ~CheckPassed(w) /\ ~OcrRelease(w)
    <3>1. held'[w] = held[w]
      BY <1>2, <2>9, HeldFrame
    <3>2. phase'[w] \in {"work", "record"}
          => phase[w] = phase'[w] \/ (phase[w] = "work" /\ seg[w] # ReleaseOcr)
      BY <2>9, ReleaseFrame
    <3>3. CASE seg'[w] = seg[w] /\ phase'[w] # "check"
      BY <1>2, <2>0, <2>1, <2>4, <2>5, <2>6, <3>1, <3>2, <3>3
    <3>4. CASE /\ phase'[w] = "check" /\ seg'[w] = seg[w] + 1
               /\ StartClaim(w) \/ CommitCached(w) \/ CommitStatus(w) \/ CommitIndex(w)
      <4>1. seg[w] \in {PollAndFetchOcr, ReleaseOcr} => phase[w] = "record"
        BY <3>4 DEF StartClaim, At, CommitCached, CommitStatus, CommitIndex
      <4> QED BY <1>2, <2>0, <2>1, <2>4, <2>5, <2>6, <3>1, <3>4, <4>1
    <3>5. CASE seg'[w] = seg[w] /\ phase'[w] = "check"
      <4>1. phase[w] = "check"
        <5>1. ASSUME WorkerStep(w) PROVE FALSE
          <6>1. CASE StartClaim(w) \/ CommitCached(w) \/ CommitStatus(w) \/ CommitIndex(w)
            <7>1. seg' = [seg EXCEPT ![w] = @ + 1]
              BY <6>1 DEF StartClaim, CommitCached, CommitStatus, CommitIndex, NextSegment
            <7>2. seg'[w] = seg[w] + 1
              BY <7>1 DEF TypeOK
            <7> QED BY <2>0, <3>5, <7>2
          <6>2. CASE /\ ~StartClaim(w) /\ ~CommitCached(w) /\ ~CommitStatus(w)
                     /\ ~CommitIndex(w)
            BY <5>1, <3>5, <6>2 DEF WorkerStep, StartGone, StartLocked, CheckCancelled,
               CheckPassed, OcrUpload, OcrUploadLost, OcrPoll, OcrRelease, Compute,
               WriteIndex, WriteMarkdown, OcrTransient, StepFails, StartFails, HandlerFails,
               CancelFails, Drop, CommitRefused, CommitFinalize, ExceptRecheck,
               MarkDeadLetter, DeadLetterStale, Reraise, FinishCancelled, Goto, Raise,
               EndTask, At, TypeOK
          <6> QED BY <6>1, <6>2
        <5>2. ASSUME NEW v \in Workers, WorkerStep(v) PROVE phase[w] = "check"
          BY <3>5, <5>1, <5>2, OthersStay
        <5>3. CASE Request \/ RequestStep
          BY <3>5, <5>3 DEF Request, RequestStep, StageUpload, CommitUpload, RetryDocument,
             AddJob, DeleteCollect, SendIngestTask, SendFails, DeleteCommit, DeleteFiles,
             DeleteAborts
        <5>4. CASE Broker
          BY <1>2, <3>5, <5>4 DEF Broker, Deliver, WorkerCrash, Redeliver, EndTask,
             Active, TypeOK
        <5> QED BY <5>2, <5>3, <5>4 DEF Next
      <4> QED BY <1>2, <2>0, <2>1, <2>4, <2>5, <2>6, <3>1, <3>5, <4>1
    <3> QED BY <1>2, <3>3, <3>4, <3>5, Moves
  <2> QED BY <2>7, <2>8, <2>9
<1> QED BY <1>1, <1>2, Moves

LEMMA ReleasedKept ==
    ASSUME TypeOK, References, JobRowsMatch, JobRowsMatch', StepsRecorded, SucceededLedger,
           UploadRecorded, SessionHeld, SucceededReleasesOcr, Next
    PROVE SucceededReleasesOcr'
<1> SUFFICES ASSUME NEW j \in Jobs, jobStatus'[j] = "succeeded"
             PROVE upSession'[j] \in Sessions /\ session'[upSession'[j]] = "gone"
  BY ConstantsAssumption DEF SucceededReleasesOcr
<1>1. ASSUME Committed(j), UploadToOcr \in receipts[j], session[upSession[j]] = "gone"
      PROVE upSession'[j] \in Sessions /\ session'[upSession'[j]] = "gone"
  <2>1. Present(jobDoc[j])'
    BY <1>1, JobsKept DEF JobRowsMatch, JobRowStatus, Present
  <2>2. upSession'[j] = upSession[j] /\ upSession[j] \in Sessions
    BY <1>1, <2>1, SessionStays DEF UploadRecorded
  <2> QED BY <1>1, <2>2, GoneSessionStays
<1>2. CASE jobStatus[j] = "succeeded"
  <2>1. UploadToOcr \in receipts[j]
    BY <1>2 DEF SucceededLedger, ReceiptSteps, StatusSteps, UploadToOcr, ReleaseOcr,
          BeginIndexing
  <2> QED BY <1>1, <1>2, <2>1 DEF Committed, SucceededReleasesOcr
<1>3. CASE jobStatus[j] # "succeeded"
  <2>1. ASSUME NEW d \in Docs, NEW i \in Jobs, CommitUpload(d, i) \/ RetryDocument(d, i)
        PROVE FALSE
    BY <1>3, <2>1 DEF CommitUpload, RetryDocument, AddJob, TypeOK
  <2>2. ASSUME NEW d \in Docs, HardDeleteDocument(d) PROVE FALSE
    BY <1>3, <2>2 DEF HardDeleteDocument
  <2>3. ASSUME NEW w \in Workers,
               \/ StartClaim(w) \/ CommitCached(w) \/ CommitStatus(w) \/ CommitIndex(w)
               \/ MarkDeadLetter(w)
        PROVE FALSE
    BY <1>3, <2>3 DEF StartClaim, CommitCached, CommitStatus, CommitIndex, MarkDeadLetter,
          TypeOK
  <2>4. ASSUME NEW w \in Workers, CommitFinalize(w)
        PROVE upSession'[j] \in Sessions /\ session'[upSession'[j]] = "gone"
    <3>1. wJob[w] = j /\ Active(w) /\ Present(Doc(w)) /\ seg[w] = Finalize
      BY <1>3, <2>4 DEF CommitFinalize, At, Active, TypeOK
    <3>2. UploadToOcr \in receipts[j]
      BY <3>1 DEF StepsRecorded, ReceiptSteps, StatusSteps, UploadToOcr, ReleaseOcr,
            BeginIndexing, Finalize
    <3>3. session[upSession[j]] = "gone"
      BY <3>1 DEF SessionHeld, ReleaseOcr, Finalize
    <3>4. Committed(j)
      BY <3>1 DEF References
    <3> QED BY <1>1, <3>2, <3>3, <3>4
  <2>5. ASSUME NEW w \in Workers, FinishCancelled(w) PROVE FALSE
    BY <2>2, <2>5, WorkerJob DEF FinishCancelled, Active
  <2> QED
    BY <1>3, NextCases, <2>1, <2>2, <2>3, <2>4, <2>5, QuietRequestFrame,
       QuietWorkerFrame, BrokerFrame DEF DeleteCommit
<1> QED BY <1>2, <1>3

LEMMA SessionsInit == Init => SessionsInductive
<1> SUFFICES ASSUME Init PROVE SessionsInductive
  OBVIOUS
<1>1. Inductive
  BY InductiveInit
<1>2. UploadRecorded /\ FreshKnown /\ SessionHeld /\ SucceededReleasesOcr
  BY DEF Init, UploadRecorded, FreshKnown, SessionHeld, SucceededReleasesOcr, At, Active
<1> QED BY <1>1, <1>2 DEF SessionsInductive

LEMMA SessionsNext == SessionsInductive /\ [Next]_vars => SessionsInductive'
<1> SUFFICES ASSUME SessionsInductive, [Next]_vars PROVE SessionsInductive'
  OBVIOUS
<1>1. Inductive /\ Inductive'
  BY InductiveNext DEF SessionsInductive
<1>2. CASE Next
  BY <1>1, <1>2, UploadRecordedKept, FreshKnownKept, SessionHeldKept, ReleasedKept
  DEF SessionsInductive, Inductive
<1>3. CASE UNCHANGED vars
  BY <1>1, <1>3 DEF vars, SessionsInductive, UploadRecorded, FreshKnown, SessionHeld,
     SucceededReleasesOcr, At, Active, Doc, Present
<1> QED BY <1>2, <1>3

\* The invariant about sessions holds in every reachable state.
THEOREM SessionsInvariant == Spec => []SessionsInductive
BY SessionsInit, SessionsNext, PTL DEF Spec

\* A job that reports success has released the OCR session it recorded, however
\* often it was delivered, resumed or run side by side with itself.
THEOREM SuccessReleasesOcr == Spec => []SucceededReleasesOcr
<1>1. SessionsInductive => SucceededReleasesOcr
  BY DEF SessionsInductive
<1> QED BY <1>1, SessionsInvariant, PTL

-----------------------------------------------------------------------------
(***************************************************************************)
(* Who has a job in hand.                                                  *)
(***************************************************************************)
\* A worker's step hands its job to nobody, or back to the broker as it ends (a
\* retry, or a worker lost before it acknowledged).
LEMMA WorkerHands ==
    ASSUME TypeOK, NEW w \in Workers, WorkerStep(w)
    PROVE /\ UNCHANGED <<unsent, redeliveries>>
          /\ \/ UNCHANGED queue
             \/ /\ phase' = [phase EXCEPT ![w] = "idle"] /\ Active(w)
                /\ \E n \in Int : queue' = queue \cup {[job |-> wJob[w], tries |-> n]}
<1>1. UNCHANGED <<unsent, redeliveries>>
  BY DEF WorkerStep, StartGone, StartLocked, StartClaim, CheckCancelled, CheckPassed,
     OcrUpload, OcrUploadLost, OcrPoll, OcrRelease, Compute, WriteIndex, WriteMarkdown,
     OcrTransient, StepFails, StartFails, HandlerFails, CancelFails, Drop, CommitRefused,
     CommitCached, CommitStatus, CommitIndex, CommitFinalize, ExceptRecheck, MarkDeadLetter,
     DeadLetterStale, Reraise, FinishCancelled
<1>2. CASE Reraise(w)
  <2>1. wTries[w] + 1 \in Int
    BY DEF TypeOK
  <2> QED BY <1>1, <1>2, <2>1 DEF Reraise, EndTask, Enqueue, Active
<1>3. CASE CommitFinalize(w) \/ FinishCancelled(w)
  <2>1. wTries[w] \in Int
    BY DEF TypeOK
  <2> QED
    BY <1>1, <1>3, <2>1 DEF CommitFinalize, FinishCancelled, AckOrCrash, Restore, EndTask,
       Enqueue, At, Active
<1>4. CASE ~Reraise(w) /\ ~CommitFinalize(w) /\ ~FinishCancelled(w)
  BY <1>1, <1>4 DEF WorkerStep, StartGone, StartLocked, StartClaim, CheckCancelled,
     CheckPassed, OcrUpload, OcrUploadLost, OcrPoll, OcrRelease, Compute, WriteIndex,
     WriteMarkdown, OcrTransient, StepFails, StartFails, HandlerFails, CancelFails, Drop,
     CommitRefused, CommitCached, CommitStatus, CommitIndex, ExceptRecheck, MarkDeadLetter,
     DeadLetterStale
<1> QED BY <1>2, <1>3, <1>4

\* Only the broker delivers a message twice at a time.
LEMMA NoneRedelivered ==
    ASSUME TypeOK, Next, redeliveries' = 0
    PROVE redeliveries = 0 /\ \A w \in Workers : ~Redeliver(w)
<1>1. CASE Request \/ RequestStep
  BY <1>1 DEF Request, RequestStep, StageUpload, CommitUpload, RetryDocument, AddJob,
     DeleteCollect, SendIngestTask, SendFails, DeleteCommit, DeleteFiles, DeleteAborts, Redeliver,
     TypeOK
<1>2. CASE Broker
  BY <1>2 DEF Broker, Deliver, WorkerCrash, Redeliver, TypeOK
<1>3. ASSUME NEW w \in Workers, WorkerStep(w) PROVE redeliveries = 0
  BY <1>3, WorkerHands
<1>4. ~ \E w \in Workers : Redeliver(w)
  BY DEF Redeliver, TypeOK
<1> QED BY <1>1, <1>2, <1>3, <1>4 DEF Next

LEMMA SoleCustodyKept ==
    ASSUME TypeOK, References, SoleCustody, Next
    PROVE SoleCustody'
<1> SUFFICES ASSUME redeliveries' = 0 PROVE SoleCustody'
  BY DEF SoleCustody
<1>0. redeliveries = 0 /\ \A w \in Workers : ~Redeliver(w)
  BY NoneRedelivered
<1> USE <1>0 DEF Active
<1>1. ASSUME NEW d \in Docs, NEW j \in Jobs, AddJob(d, j) PROVE SoleCustody'
  <2>1. (\A m \in queue : m.job # j) /\ (\A w \in Workers : Active(w) => wJob[w] # j)
    BY <1>1 DEF AddJob, References, Committed
  <2> QED BY <1>1, <2>1 DEF AddJob, SoleCustody
<1>2. ASSUME NEW j \in Jobs, SendIngestTask(j) PROVE SoleCustody'
  BY <1>2 DEF SendIngestTask, Enqueue, SoleCustody
<1>3. ASSUME NEW j \in Jobs, SendFails(j) PROVE SoleCustody'
  BY <1>3 DEF SendFails, SoleCustody
<1>4. ASSUME NEW d \in Docs,
             \/ StageUpload(d) \/ DeleteCollect(d) \/ DeleteCommit(d) \/ DeleteFiles(d)
             \/ DeleteAborts(d)
      PROVE SoleCustody'
  BY <1>4 DEF StageUpload, DeleteCollect, DeleteCommit, DeleteFiles, DeleteAborts, SoleCustody
<1>5. ASSUME NEW w \in Workers, NEW m \in queue, Deliver(w, m) PROVE SoleCustody'
  BY <1>5 DEF Deliver, SoleCustody, TypeOK
<1>6. ASSUME NEW w \in Workers, NEW n \in Int, Active(w), UNCHANGED unsent,
             queue' = queue \cup {[job |-> wJob[w], tries |-> n]},
             phase'[w] = "idle",
             \A v \in Workers \ {w} : phase'[v] = phase[v] /\ wJob'[v] = wJob[v]
      PROVE SoleCustody'
  BY <1>6 DEF SoleCustody
<1>7. ASSUME NEW w \in Workers, WorkerCrash(w) PROVE SoleCustody'
  <2>1. wTries[w] \in Int
    BY DEF TypeOK
  <2> QED BY <1>6, <1>7, <2>1 DEF WorkerCrash, Restore, Enqueue, EndTask, TypeOK
<1>8. ASSUME NEW w \in Workers, WorkerStep(w) PROVE SoleCustody'
  <2>1. CASE UNCHANGED queue
    BY <1>8, <2>1, WorkerHands, OthersStay DEF SoleCustody
  <2>2. CASE ~UNCHANGED queue
    <3>1. PICK n \in Int : queue' = queue \cup {[job |-> wJob[w], tries |-> n]}
      BY <1>8, <2>2, WorkerHands
    <3>2. phase'[w] = "idle" /\ Active(w) /\ UNCHANGED unsent
      BY <1>8, <2>2, WorkerHands DEF TypeOK
    <3> QED BY <1>6, <1>8, <3>1, <3>2, OthersStay
  <2> QED BY <2>1, <2>2
<1> QED
  BY <1>1, <1>2, <1>3, <1>4, <1>5, <1>7, <1>8
  DEF Next, Request, RequestStep, Broker, CommitUpload, RetryDocument

-----------------------------------------------------------------------------
(***************************************************************************)
(* Whose session is whose.                                                 *)
(***************************************************************************)
\* Nobody learns of a session, and no session comes into use.
SessionsDropped ==
    /\ \A j \in Jobs : upSession'[j] \in {upSession[j], NoSession}
    /\ \A w \in Workers :
          /\ held'[w] \in {held[w], NoSession}
          /\ fresh'[w] \in {fresh[w], NoSession}
          /\ held'[w] # NoSession /\ Active(w) => Active(w)' /\ wJob'[w] = wJob[w]
          /\ fresh'[w] # NoSession => session'[fresh[w]] = session[fresh[w]]
    /\ \A s \in Sessions : session[s] # "unused" => session'[s] # "unused"

LEMMA OwnedDropped ==
    ASSUME TypeOK, SessionsOwned, SessionsDropped
    PROVE SessionsOwned'
<1> USE ConstantsAssumption DEF TypeOK, SessionsOwned, SessionsDropped
<1>1. \A i, j \in Jobs : upSession'[i] \in Sessions /\ upSession'[i] = upSession'[j] => i = j
  OBVIOUS
<1>2. \A j \in Jobs : upSession'[j] \in Sessions => session'[upSession'[j]] # "unused"
  OBVIOUS
<1>3. ASSUME NEW w \in Workers, held'[w] \in Sessions
      PROVE /\ Active(w)' /\ session'[held'[w]] # "unused"
            /\ \A j \in Jobs \ {wJob'[w]} : upSession'[j] # held'[w]
  <2>1. held'[w] = held[w] /\ held[w] \in Sessions
    BY <1>3
  <2> QED BY <1>3, <2>1
<1>4. ASSUME NEW w \in Workers, fresh'[w] \in Sessions
      PROVE /\ session'[fresh'[w]] = "live"
            /\ \A j \in Jobs : upSession'[j] # fresh'[w]
            /\ \A v \in Workers : held'[v] # fresh'[w]
            /\ \A v \in Workers \ {w} : fresh'[v] # fresh'[w]
  <2>1. fresh'[w] = fresh[w] /\ fresh[w] \in Sessions
    BY <1>4
  <2> QED BY <1>4, <2>1
<1> QED BY <1>1, <1>2, <1>3, <1>4

\* The steps of a worker that move session ids.
SessionStep(w) ==
    \/ CheckPassed(w) \/ OcrRelease(w) \/ CommitCached(w) \/ FinishCancelled(w)
    \/ CancelFails(w)
    \/ \E s \in Sessions : OcrUpload(w, s) \/ OcrUploadLost(w, s)

LEMMA OtherWorkerSteps ==
    ASSUME TypeOK, NEW w \in Workers, WorkerStep(w), ~SessionStep(w)
    PROVE /\ UNCHANGED <<session, upSession>>
          /\ held'[w] \in {held[w], NoSession} /\ fresh'[w] \in {fresh[w], NoSession}
          /\ held'[w] # NoSession => Active(w)'
<1> USE ConstantsAssumption
    DEF TypeOK, SessionStep, Active, At, Goto, Raise, NextSegment, EndTask
<1>1. CASE StartGone(w) \/ StartLocked(w) \/ StartClaim(w) \/ CheckCancelled(w)
  BY <1>1 DEF StartGone, StartLocked, StartClaim, CheckCancelled
<1>2. CASE OcrPoll(w) \/ Compute(w) \/ WriteIndex(w) \/ WriteMarkdown(w)
  BY <1>2 DEF OcrPoll, Compute, WriteIndex, WriteMarkdown
<1>3. CASE OcrTransient(w) \/ StepFails(w) \/ CommitRefused(w) \/ StartFails(w) \/ HandlerFails(w)
  BY <1>3 DEF OcrTransient, StepFails, CommitRefused, StartFails, HandlerFails, Drop
<1>4. CASE CommitStatus(w) \/ CommitIndex(w) \/ CommitFinalize(w)
  BY <1>4 DEF CommitStatus, CommitIndex, CommitFinalize
<1>5. CASE ExceptRecheck(w) \/ MarkDeadLetter(w) \/ DeadLetterStale(w) \/ Reraise(w)
  BY <1>5 DEF ExceptRecheck, MarkDeadLetter, DeadLetterStale, Reraise
<1> QED BY <1>1, <1>2, <1>3, <1>4, <1>5 DEF WorkerStep

LEMMA RequestDrops ==
    ASSUME TypeOK, Request \/ RequestStep
    PROVE SessionsDropped /\ UNCHANGED <<session, held, fresh>>
BY DEF Request, RequestStep, StageUpload, CommitUpload, RetryDocument, AddJob, DeleteCollect,
   SendIngestTask, SendFails, DeleteCommit, DeleteFiles, DeleteAborts, HardDeleteDocument,
   SessionsDropped, TypeOK, Active

LEMMA BrokerDrops ==
    ASSUME TypeOK, SessionsOwned, Broker
    PROVE SessionsDropped
<1> USE ConstantsAssumption DEF TypeOK, SessionsDropped, Active
<1>1. ASSUME NEW w \in Workers, NEW m \in queue, Deliver(w, m) PROVE SessionsDropped
  BY <1>1 DEF Deliver
<1>2. ASSUME NEW w \in Workers, WorkerCrash(w) PROVE SessionsDropped
  BY <1>2 DEF WorkerCrash, EndTask
<1>3. ASSUME NEW w \in Workers, Redeliver(w) PROVE SessionsDropped
  BY <1>3 DEF Redeliver
<1> QED BY <1>1, <1>2, <1>3 DEF Broker

LEMMA SessionsOwnedKept ==
    ASSUME TypeOK, References, JobRowsMatch, FreshKnown, SessionsOwned, Next
    PROVE SessionsOwned'
<1>1. CASE Request \/ RequestStep
  BY <1>1, RequestDrops, OwnedDropped
<1>2. CASE Broker
  BY <1>2, BrokerDrops, OwnedDropped
<1>3. ASSUME NEW w \in Workers, WorkerStep(w), ~SessionStep(w) PROVE SessionsOwned'
  <2>1. SessionsDropped
    BY <1>3, OtherWorkerSteps, OthersStay DEF SessionsDropped, Active, TypeOK
  <2> QED BY <2>1, OwnedDropped
<1>4. ASSUME NEW w \in Workers, CheckPassed(w) PROVE SessionsOwned'
  <2>1. wJob[w] \in Jobs
    BY <1>4, WorkerJob DEF CheckPassed, Active
  <2>2. UNCHANGED <<session, upSession, fresh, wJob>> /\ \A v \in Workers : Active(v) => Active(v)'
    BY <1>4 DEF CheckPassed, Goto, Active, TypeOK
  <2>3. Active(w)'
    BY <1>4 DEF CheckPassed, Goto, Active, TypeOK
  <2>4. CASE seg[w] # PollAndFetchOcr
    <3>1. held' = held
      BY <1>4, <2>4 DEF CheckPassed
    <3>2. SessionsDropped
      BY <2>2, <3>1 DEF SessionsDropped, TypeOK
    <3> QED BY <3>2, OwnedDropped
  <2>5. CASE seg[w] = PollAndFetchOcr
    <3>1. held' = [held EXCEPT ![w] = upSession[wJob[w]]]
      BY <1>4, <2>5 DEF CheckPassed
    <3> USE ConstantsAssumption DEF SessionsOwned, TypeOK
    <3>2. ASSUME NEW v \in Workers, held'[v] \in Sessions
          PROVE /\ Active(v)' /\ session'[held'[v]] # "unused"
                /\ \A j \in Jobs \ {wJob'[v]} : upSession'[j] # held'[v]
      <4>1. CASE v = w
        BY <2>1, <2>2, <2>3, <3>1, <3>2, <4>1
      <4>2. CASE v # w
        BY <2>2, <3>1, <3>2, <4>2
      <4> QED BY <4>1, <4>2
    <3>3. ASSUME NEW v \in Workers, fresh'[v] \in Sessions, NEW u \in Workers
          PROVE held'[u] # fresh'[v]
      BY <2>1, <2>2, <3>1, <3>3
    <3>4. ASSUME NEW v \in Workers, fresh'[v] \in Sessions
          PROVE /\ session'[fresh'[v]] = "live"
                /\ \A j \in Jobs : upSession'[j] # fresh'[v]
                /\ \A u \in Workers \ {v} : fresh'[u] # fresh'[v]
      BY <2>2, <3>4
    <3> QED BY <2>2, <3>2, <3>3, <3>4
  <2> QED BY <2>4, <2>5
<1>5. ASSUME NEW w \in Workers, OcrRelease(w) PROVE SessionsOwned'
  <2>1. /\ UNCHANGED <<upSession, fresh, wJob>>
        /\ held' = [held EXCEPT ![w] = NoSession]
        /\ \A v \in Workers : Active(v) => Active(v)'
    BY <1>5 DEF OcrRelease, Goto, Active, TypeOK
  <2>2. \A s \in Sessions : session'[s] = IF s = held[w] THEN "gone" ELSE session[s]
    BY <1>5 DEF OcrRelease, DeleteSession
  <2>3. SessionsDropped
    BY <2>1, <2>2 DEF SessionsDropped, SessionsOwned, TypeOK
  <2> QED BY <2>3, OwnedDropped
<1>6. ASSUME NEW w \in Workers, CommitCached(w) PROVE SessionsOwned'
  <2>1. wJob[w] \in Jobs
    BY <1>6, WorkerJob DEF CommitCached, Active
  <2>2. /\ UNCHANGED <<session, held, wJob>>
        /\ fresh' = [fresh EXCEPT ![w] = NoSession]
        /\ \A v \in Workers : Active(v) => Active(v)'
    BY <1>6 DEF CommitCached, NextSegment, Active, TypeOK
  <2>3. CASE upSession' = upSession
    <3>1. SessionsDropped
      BY <2>2, <2>3 DEF SessionsDropped, TypeOK
    <3> QED BY <3>1, OwnedDropped
  <2>4. CASE upSession' # upSession
    <3>1. upSession' = [upSession EXCEPT ![wJob[w]] = fresh[w]] /\ fresh[w] \in Sessions
      BY <1>6, <2>4 DEF CommitCached, FreshKnown, At
    <3> QED BY <2>1, <2>2, <3>1, ConstantsAssumption DEF SessionsOwned, TypeOK
  <2> QED BY <2>3, <2>4
<1>7. ASSUME NEW w \in Workers, FinishCancelled(w) \/ CancelFails(w) PROVE SessionsOwned'
  <2>1. \A j \in Jobs : upSession'[j] \in {upSession[j], NoSession}
    BY <1>7 DEF FinishCancelled, CancelFails, HardDeleteDocument
  <2>2. /\ held' = [held EXCEPT ![w] = NoSession] /\ fresh' = [fresh EXCEPT ![w] = NoSession]
        /\ \A v \in Workers \ {w} : wJob'[v] = wJob[v] /\ (Active(v) => Active(v)')
    BY <1>7 DEF FinishCancelled, CancelFails, EndTask, Active, TypeOK
  <2>3. \A s \in Sessions : session'[s] = session[s] \/ (s = held[w] /\ session'[s] = "gone")
    BY <1>7 DEF FinishCancelled, CancelFails, DeleteSession
  <2>4. SessionsDropped
    BY <2>1, <2>2, <2>3 DEF SessionsDropped, SessionsOwned, TypeOK
  <2> QED BY <2>4, OwnedDropped
<1>8. ASSUME NEW w \in Workers, NEW s \in Sessions, OcrUpload(w, s) PROVE SessionsOwned'
  <2>1. UNCHANGED <<upSession, held, wJob>> /\ \A v \in Workers : Active(v) => Active(v)'
    BY <1>8 DEF OcrUpload, Goto, Active, TypeOK
  <2>2. fresh' = [fresh EXCEPT ![w] = s] /\ session' = [session EXCEPT ![s] = "live"]
        /\ session[s] = "unused"
    BY <1>8 DEF OcrUpload
  <2> QED BY <2>1, <2>2, ConstantsAssumption DEF SessionsOwned, TypeOK
<1>9. ASSUME NEW w \in Workers, NEW s \in Sessions, OcrUploadLost(w, s) PROVE SessionsOwned'
  <2>1. SessionsDropped
    BY <1>9 DEF OcrUploadLost, SessionsDropped, SessionsOwned, Active, TypeOK
  <2> QED BY <2>1, OwnedDropped
<1> QED
  BY <1>1, <1>2, <1>3, <1>4, <1>5, <1>6, <1>7, <1>8, <1>9 DEF Next, SessionStep

\* A live session is deleted by the worker that holds its id only.
LEMMA SessionEnds ==
    ASSUME TypeOK, Next, NEW s \in Sessions, session[s] = "live", session'[s] # "live"
    PROVE \E w \in Workers : (OcrRelease(w) \/ FinishCancelled(w) \/ CancelFails(w)) /\ held[w] = s
<1>1. ~(Request \/ RequestStep \/ Broker)
  BY RequestDrops, BrokerFrame
<1>2. ASSUME NEW w \in Workers, WorkerStep(w)
      PROVE (OcrRelease(w) \/ FinishCancelled(w) \/ CancelFails(w)) /\ held[w] = s
  <2>1. SessionStep(w)
    BY <1>2, OtherWorkerSteps
  <2>2. ~CheckPassed(w) /\ ~CommitCached(w)
    BY DEF CheckPassed, CommitCached
  <2>3. ASSUME NEW t \in Sessions, OcrUpload(w, t) \/ OcrUploadLost(w, t) PROVE FALSE
    BY <2>3 DEF OcrUpload, OcrUploadLost, TypeOK
  <2>4. CASE OcrRelease(w) \/ FinishCancelled(w) \/ CancelFails(w)
    BY <2>4 DEF OcrRelease, FinishCancelled, CancelFails, DeleteSession
  <2> QED BY <2>1, <2>2, <2>3, <2>4 DEF SessionStep
<1> QED BY <1>1, <1>2 DEF Next

\* The receipt of the upload comes with the session just uploaded.
LEMMA UploadSource ==
    ASSUME TypeOK, References, JobRowsMatch, FreshKnown, Next,
           NEW j \in Jobs, UploadToOcr \notin receipts[j], UploadToOcr \in receipts'[j]
    PROVE \E w \in Workers : fresh[w] \in Sessions /\ upSession'[j] = fresh[w] /\ session' = session
<1>1. ASSUME NEW d \in Docs, NEW i \in Jobs, CommitUpload(d, i) \/ RetryDocument(d, i)
      PROVE FALSE
  BY <1>1 DEF CommitUpload, RetryDocument, AddJob
<1>2. ASSUME NEW d \in Docs, HardDeleteDocument(d) PROVE FALSE
  BY <1>2 DEF HardDeleteDocument
<1>3. ASSUME NEW w \in Workers, StartClaim(w) \/ CommitStatus(w) \/ MarkDeadLetter(w) PROVE FALSE
  BY <1>3 DEF StartClaim, CommitStatus, MarkDeadLetter
<1>4. ASSUME NEW w \in Workers, CommitIndex(w) \/ CommitFinalize(w) PROVE FALSE
  <2>1. seg[w] # UploadToOcr /\ WriteReceipt(w)
    BY <1>4 DEF CommitIndex, CommitFinalize, At, IndexSteps, UploadToOcr, TrackAWrite,
          TrackBWrite, AssetRegister, Finalize
  <2> QED BY <2>1 DEF WriteReceipt, TypeOK
<1>5. ASSUME NEW w \in Workers, CommitCached(w)
      PROVE fresh[w] \in Sessions /\ upSession'[j] = fresh[w] /\ session' = session
  <2>1. ~hit[w] /\ seg[w] = UploadToOcr /\ wJob[w] = j
    BY <1>5 DEF CommitCached, WriteReceipt, TypeOK
  <2> QED BY <1>5, <2>1 DEF CommitCached, FreshKnown, At, TypeOK
<1>6. ASSUME NEW w \in Workers, FinishCancelled(w) PROVE FALSE
  BY <1>2, <1>6, WorkerJob DEF FinishCancelled, Active
<1> QED
  BY NextCases, <1>1, <1>2, <1>3, <1>4, <1>5, <1>6, QuietRequestFrame, QuietWorkerFrame,
     BrokerFrame DEF DeleteCommit

LEMMA LiveUntilPolledKept ==
    ASSUME TypeOK, References, JobRowsMatch, JobRowsMatch', CancelledAreGone, StepsRecorded,
           UploadRecorded, FreshKnown, SessionsOwned, LiveUntilPolled, Next
    PROVE LiveUntilPolled'
<1> SUFFICES ASSUME NEW j \in Jobs, jobStatus'[j] \in JobRowStatus,
                    UploadToOcr \in receipts'[j], PollAndFetchOcr \notin receipts'[j]
             PROVE session'[upSession'[j]] = "live"
  BY DEF LiveUntilPolled
<1>1. CASE UploadToOcr \notin receipts[j]
  BY <1>1, UploadSource DEF SessionsOwned
<1>2. CASE UploadToOcr \in receipts[j]
  <2>1. Committed(j) /\ jobStatus[j] \in JobRowStatus /\ Present(jobDoc[j])
    BY <1>2 DEF JobRowsMatch, Committed, JobRowStatus
  <2>2. Present(jobDoc[j])'
    BY DEF JobRowsMatch
  <2>3. jobDoc'[j] = jobDoc[j]
    BY <2>1, JobsKept
  <2>4. PollAndFetchOcr \notin receipts[j]
    BY <2>1, <2>2, <2>3, ReceiptsGrow DEF Present
  <2>5. upSession'[j] = upSession[j] /\ upSession[j] \in Sessions
    BY <1>2, <2>1, <2>2, <2>3, SessionStays DEF UploadRecorded, Present
  <2>6. session[upSession[j]] = "live"
    BY <1>2, <2>1, <2>4 DEF LiveUntilPolled
  <2>7. ASSUME NEW w \in Workers, OcrRelease(w) \/ FinishCancelled(w) \/ CancelFails(w),
               held[w] = upSession[j]
        PROVE FALSE
    <3>1. wJob[w] = j /\ Active(w) /\ Doc(w) = jobDoc[j]
      BY <2>5, <2>7 DEF SessionsOwned, Doc
    <3>2. CASE OcrRelease(w)
      BY <2>1, <2>4, <3>1, <3>2 DEF OcrRelease, At, StepsRecorded, ReceiptSteps, StatusSteps,
            PollAndFetchOcr, ReleaseOcr, BeginIndexing
    <3>3. CASE FinishCancelled(w) \/ CancelFails(w)
      BY <2>1, <3>1, <3>3 DEF FinishCancelled, CancelFails, CancelledAreGone
    <3> QED BY <2>7, <3>2, <3>3
  <2> QED BY <2>5, <2>6, <2>7, SessionEnds
<1> QED BY <1>1, <1>2

\* Where the session id of a worker comes from.
LEMMA HeldSources ==
    ASSUME TypeOK, SessionsOwned, Next, NEW w \in Workers, held'[w] # NoSession
    PROVE \/ held'[w] = held[w]
          \/ /\ CheckPassed(w) /\ held'[w] = upSession[wJob[w]]
             /\ \A v \in Workers \ {w} : held'[v] = held[v]
<1>1. CASE Request \/ RequestStep
  BY <1>1, RequestDrops
<1>2. CASE Broker
  BY <1>2, BrokerDrops DEF SessionsDropped
<1>3. ASSUME NEW v \in Workers, WorkerStep(v), v # w PROVE held'[w] = held[w]
  BY <1>3, OthersStay
<1>4. CASE WorkerStep(w) /\ ~SessionStep(w)
  BY <1>4, OtherWorkerSteps
<1>5. CASE OcrRelease(w) \/ CommitCached(w) \/ FinishCancelled(w) \/ CancelFails(w)
           \/ \E s \in Sessions : OcrUpload(w, s) \/ OcrUploadLost(w, s)
  BY <1>5 DEF OcrRelease, CommitCached, FinishCancelled, CancelFails, OcrUpload,
     OcrUploadLost, EndTask, TypeOK
<1>6. CASE CheckPassed(w)
  BY <1>6 DEF CheckPassed, TypeOK
<1> QED BY <1>1, <1>2, <1>3, <1>4, <1>5, <1>6 DEF Next, SessionStep

LEMMA HeldApartKept ==
    ASSUME TypeOK, References, SoleCustody, SessionsOwned, HeldApart, Next
    PROVE HeldApart'
<1> SUFFICES ASSUME redeliveries' = 0,
                    NEW w \in Workers, NEW v \in Workers, v # w,
                    held'[w] \in Sessions, held'[v] = held'[w]
             PROVE FALSE
  BY DEF HeldApart
<1>0. redeliveries = 0
  BY NoneRedelivered
<1>1. ASSUME NEW x \in Workers, NEW y \in Workers, x # y, CheckPassed(x),
             upSession[wJob[x]] \in Sessions, held[y] = upSession[wJob[x]]
      PROVE FALSE
  <2>1. Active(x)
    BY <1>1 DEF CheckPassed, Active
  <2>2. Active(y) /\ (wJob[x] \in Jobs => wJob[y] = wJob[x])
    BY <1>1 DEF SessionsOwned
  <2>3. wJob[x] \in Jobs
    BY <2>1 DEF References, Committed
  <2> QED BY <1>0, <1>1, <2>1, <2>2, <2>3 DEF SoleCustody
<1>2. held'[w] # NoSession /\ held'[v] # NoSession
  BY ConstantsAssumption
<1>3. CASE held'[w] = held[w] /\ held'[v] = held[v]
  BY <1>0, <1>3 DEF HeldApart
<1>4. CASE held'[w] # held[w]
  BY <1>1, <1>2, <1>4, HeldSources
<1>5. CASE held'[v] # held[v]
  BY <1>1, <1>2, <1>5, HeldSources
<1> QED BY <1>3, <1>4, <1>5

\* A worker that works was at work, or has just passed the check.
LEMMA WorkFrame ==
    ASSUME TypeOK, Next, NEW w \in Workers, phase'[w] = "work", ~CheckPassed(w)
    PROVE phase[w] = "work" /\ seg'[w] = seg[w] /\ hit'[w] = hit[w] /\ held'[w] = held[w]
<1>1. CASE Request \/ RequestStep
  BY <1>1 DEF Request, RequestStep, StageUpload, CommitUpload, RetryDocument, AddJob,
        DeleteCollect, SendIngestTask, SendFails, DeleteCommit, DeleteFiles, DeleteAborts
<1>2. CASE Broker
  BY <1>2 DEF Broker, Deliver, WorkerCrash, Redeliver, EndTask, TypeOK
<1>3. ASSUME NEW v \in Workers, WorkerStep(v), v # w
      PROVE phase[w] = "work" /\ seg'[w] = seg[w] /\ hit'[w] = hit[w] /\ held'[w] = held[w]
  BY <1>3, OthersStay
<1>4. CASE \E s \in Sessions : OcrUploadLost(w, s)
  BY <1>4 DEF OcrUploadLost
<1>5. CASE WorkerStep(w) /\ ~ \E s \in Sessions : OcrUploadLost(w, s)
  BY <1>5 DEF WorkerStep, StartGone, StartLocked, StartClaim, CheckCancelled, OcrUpload,
        OcrPoll, OcrRelease, Compute, WriteIndex, WriteMarkdown, OcrTransient, StepFails,
        StartFails, HandlerFails, CancelFails, Drop, CommitRefused, CommitCached,
        CommitStatus, CommitIndex, CommitFinalize, ExceptRecheck, MarkDeadLetter,
        DeadLetterStale, Reraise, FinishCancelled, Goto, Raise, NextSegment, EndTask, TypeOK
<1> QED BY <1>1, <1>2, <1>3, <1>4, <1>5 DEF Next

LEMMA PollsLiveKept ==
    ASSUME TypeOK, References, JobRowsMatch, StepsRecorded, UploadRecorded, LiveUntilPolled,
           HeldApart, PollsLiveSession, Next
    PROVE PollsLiveSession'
<1> SUFFICES ASSUME redeliveries' = 0, NEW w \in Workers, phase'[w] = "work",
                    seg'[w] = PollAndFetchOcr, ~hit'[w]
             PROVE held'[w] \in Sessions /\ session'[held'[w]] = "live"
  BY ConstantsAssumption DEF PollsLiveSession, At
<1>0. redeliveries = 0
  BY NoneRedelivered
<1>1. CASE CheckPassed(w)
  <2>1. /\ seg[w] = PollAndFetchOcr /\ Active(w) /\ Present(Doc(w)) /\ session' = session
        /\ jobStatus[wJob[w]] \in JobRowStatus
    BY <1>1 DEF CheckPassed, Goto, Active, IsCancelledOrDeleted, UploadToOcr, PollAndFetchOcr
  <2>2. wJob[w] \in Jobs
    BY <2>1, WorkerJob
  <2>3. UploadToOcr \in receipts[wJob[w]]
    BY <2>1 DEF StepsRecorded, ReceiptSteps, StatusSteps, UploadToOcr, PollAndFetchOcr,
          ReleaseOcr, BeginIndexing
  <2>4. PollAndFetchOcr \notin receipts[wJob[w]] /\ held'[w] = upSession[wJob[w]]
    BY <1>1, <2>1 DEF CheckPassed, ReceiptFound, TypeOK
  <2> QED BY <2>1, <2>2, <2>3, <2>4 DEF LiveUntilPolled, UploadRecorded
<1>2. CASE ~CheckPassed(w)
  <2>1. /\ phase[w] = "work" /\ seg[w] = PollAndFetchOcr /\ held'[w] = held[w]
        /\ held[w] \in Sessions /\ session[held[w]] = "live"
    BY <1>0, <1>2, WorkFrame DEF PollsLiveSession, At, TypeOK
  <2>2. ASSUME NEW v \in Workers, OcrRelease(v) \/ FinishCancelled(v) \/ CancelFails(v),
               held[v] = held[w]
        PROVE FALSE
    <3>1. v = w
      BY <1>0, <2>1, <2>2 DEF HeldApart
    <3> QED
      BY <2>1, <2>2, <3>1 DEF OcrRelease, FinishCancelled, CancelFails, At, PollAndFetchOcr, ReleaseOcr
  <2> QED BY <2>1, <2>2, SessionEnds
<1> QED BY <1>1, <1>2

-----------------------------------------------------------------------------
(***************************************************************************)
(* One copy of the index.                                                  *)
(***************************************************************************)
\* A job that is its document's only one was so before.
LEMMA OneJobBefore ==
    ASSUME TypeOK, References, JobRowsMatch, Next, NEW d \in Docs, OneJob(d)'
    PROVE OneJob(d)
<1> SUFFICES ASSUME NEW i \in Jobs, NEW j \in Jobs, jobDoc[i] = d, jobDoc[j] = d PROVE i = j
  BY DEF OneJob
<1>1. Committed(i) /\ Committed(j)
  BY ConstantsAssumption DEF JobRowsMatch, Committed
<1>2. jobDoc'[i] = d /\ jobDoc'[j] = d
  BY <1>1, JobsKept
<1> QED BY <1>2 DEF OneJob

\* The only job of a document has one worker.
LEMMA OneWorker ==
    ASSUME TypeOK, References, JobRowsMatch, SoleCustody, redeliveries = 0,
           NEW v \in Workers, NEW w \in Workers, Active(v), Active(w),
           Doc(v) = Doc(w), OneJob(Doc(w))
    PROVE v = w
<1>1. wJob[v] \in Jobs /\ wJob[w] \in Jobs
  BY WorkerJob
<1>2. wJob[v] = wJob[w]
  BY <1>1 DEF OneJob, Doc
<1> QED BY <1>2 DEF SoleCustody

LEMMA SeenAllKept ==
    ASSUME TypeOK, References, JobRowsMatch, SoleCustody, SeenAll, Next
    PROVE SeenAll'
<1> SUFFICES ASSUME redeliveries' = 0, NEW w \in Workers, phase'[w] = "record",
                    seg'[w] \in IndexSteps, Present(Doc(w))', OneJob(Doc(w))'
             PROVE seen'[w] = rows'[seg'[w]][Doc(w)']
  BY DEF SeenAll
<1>0. redeliveries = 0
  BY NoneRedelivered
<1>1. Active(w) /\ wJob'[w] = wJob[w] /\ seg'[w] = seg[w]
  BY IndexFrame DEF WriteIndex, Goto, Active
<1>2. Doc(w)' = Doc(w) /\ Present(Doc(w)) /\ Doc(w) \in Docs
  BY <1>1, PresentBefore, WorkerJob
<1>3. PICK d \in Docs : d = Doc(w)
  BY <1>2
<1>4. OneJob(d)' /\ Present(d)'
  BY <1>2, <1>3 DEF OneJob, Present
<1>5. OneJob(d)
  BY <1>4, OneJobBefore
<1>6. CASE WriteIndex(w)
  BY <1>2, <1>6 DEF WriteIndex, RowsToReplace, Goto, TypeOK
<1>7. CASE ~WriteIndex(w)
  <2>1. phase[w] = "record" /\ seen'[w] = seen[w]
    BY <1>7, IndexFrame
  <2>2. PICK s \in IndexSteps : s = seg[w]
    BY <1>1
  <2>3. seen[w] = rows[s][d]
    BY <1>0, <1>1, <1>2, <1>3, <1>5, <2>1, <2>2 DEF SeenAll
  <2>4. ASSUME NEW u \in Workers, CommitIndex(u), Doc(u) = d PROVE FALSE
    <3>1. u = w
      BY <1>0, <1>1, <1>3, <1>5, <2>4, OneWorker DEF CommitIndex, Active
    <3> QED BY <2>4, <3>1 DEF CommitIndex, NextSegment, TypeOK
  <2>5. rows'[s][d] = rows[s][d]
    BY <1>4, <2>4, RowsFrame
  <2> QED BY <1>1, <1>2, <1>3, <2>1, <2>2, <2>3, <2>5
<1> QED BY <1>6, <1>7

LEMMA SingleCopyKept ==
    ASSUME TypeOK, References, JobRowsMatch, DataRowsMatch', SeenAll, SingleIndexCopy, Next
    PROVE SingleIndexCopy'
<1> SUFFICES ASSUME redeliveries' = 0, NEW d \in Docs, NEW s \in IndexSteps, OneJob(d)'
             PROVE rows'[s][d] <= 1
  BY DEF SingleIndexCopy
<1>0. redeliveries = 0 /\ OneJob(d)
  BY NoneRedelivered, OneJobBefore
<1>1. CASE ~Present(d)'
  BY <1>1 DEF DataRowsMatch, Present
<1>2. CASE Present(d)'
  <2>1. CASE rows'[s][d] = rows[s][d]
    BY <1>0, <2>1 DEF SingleIndexCopy
  <2>2. ASSUME NEW w \in Workers, CommitIndex(w), seg[w] = s, Doc(w) = d,
               rows'[s][d] = rows[s][d] - seen[w] + 1
        PROVE rows'[s][d] <= 1
    <3>1. seen[w] = rows[s][d]
      BY <1>0, <2>2 DEF SeenAll, CommitIndex
    <3>2. rows[s][d] \in Nat
      BY DEF TypeOK
    <3> QED BY <2>2, <3>1, <3>2
  <2> QED BY <1>2, <2>1, <2>2, RowsFrame
<1> QED BY <1>1, <1>2

-----------------------------------------------------------------------------
(***************************************************************************)
(* The invariant of custody.                                               *)
(***************************************************************************)
LEMMA CustodyInit == Init => CustodyInductive
<1> SUFFICES ASSUME Init PROVE CustodyInductive
  OBVIOUS
<1>1. SessionsInductive
  BY SessionsInit
<1>2. SoleCustody /\ SessionsOwned /\ HeldApart
  BY ConstantsAssumption DEF Init, SoleCustody, SessionsOwned, HeldApart, Active
<1>3. LiveUntilPolled /\ SeenAll /\ PollsLiveSession /\ SingleIndexCopy
  BY DEF Init, LiveUntilPolled, SeenAll, PollsLiveSession, SingleIndexCopy, At
<1> QED BY <1>1, <1>2, <1>3 DEF CustodyInductive

LEMMA CustodyNext == CustodyInductive /\ [Next]_vars => CustodyInductive'
<1> SUFFICES ASSUME CustodyInductive, [Next]_vars PROVE CustodyInductive'
  OBVIOUS
<1>1. SessionsInductive /\ SessionsInductive'
  BY SessionsNext DEF CustodyInductive
<1>2. /\ TypeOK /\ References /\ JobRowsMatch /\ JobRowsMatch' /\ DataRowsMatch'
      /\ CancelledAreGone /\ StepsRecorded /\ UploadRecorded /\ FreshKnown
  BY <1>1 DEF SessionsInductive, Inductive
<1>3. CASE Next
  <2> USE <1>2, <1>3 DEF CustodyInductive
  <2>1. SoleCustody' /\ SessionsOwned' /\ LiveUntilPolled'
    BY SoleCustodyKept, SessionsOwnedKept, LiveUntilPolledKept
  <2>2. HeldApart' /\ PollsLiveSession'
    BY HeldApartKept, PollsLiveKept
  <2>3. SeenAll' /\ SingleIndexCopy'
    BY SeenAllKept, SingleCopyKept
  <2> QED BY <1>1, <2>1, <2>2, <2>3
<1>4. CASE UNCHANGED vars
  <2> USE <1>4 DEF vars, CustodyInductive
  <2>1. SoleCustody' /\ SessionsOwned' /\ HeldApart'
    BY DEF SoleCustody, SessionsOwned, HeldApart, Active
  <2>2. LiveUntilPolled' /\ PollsLiveSession'
    BY DEF LiveUntilPolled, PollsLiveSession, At
  <2>3. SeenAll' /\ SingleIndexCopy'
    BY DEF SeenAll, SingleIndexCopy, OneJob, Doc, Present
  <2> QED BY <1>1, <2>1, <2>2, <2>3
<1> QED BY <1>3, <1>4

\* Who has which job and which session, in every reachable state.
THEOREM CustodyInvariant == Spec => []CustodyInductive
BY CustodyInit, CustodyNext, PTL DEF Spec

\* However often a job is resumed, it never polls a session that it has already
\* released, as long as the broker delivers nothing twice at a time.
THEOREM ResumedPollsAreLive == Spec => []PollsLiveSession
<1>1. CustodyInductive => PollsLiveSession
  BY DEF CustodyInductive
<1> QED BY <1>1, CustodyInvariant, PTL

\* However often the only job of a document is resumed, it leaves one copy of
\* each index, as long as the broker delivers nothing twice at a time.
THEOREM OneIndexCopy == Spec => []SingleIndexCopy
<1>1. CustodyInductive => SingleIndexCopy
  BY DEF CustodyInductive
<1> QED BY <1>1, CustodyInvariant, PTL

-----------------------------------------------------------------------------
(***************************************************************************)
(* The receipts implement StepLedger.                                      *)
(***************************************************************************)
LEMMA LedgerFirst == Ledger!FirstStep = UploadToOcr
<1>1. UploadToOcr \in ReceiptSteps /\ \A t \in ReceiptSteps : UploadToOcr <= t
  BY DEF ReceiptSteps, StatusSteps, UploadToOcr, ReleaseOcr, BeginIndexing
<1>2. \A s \in ReceiptSteps : (\A t \in ReceiptSteps : s <= t) => s = UploadToOcr
  BY <1>1 DEF ReceiptSteps, UploadToOcr
<1> QED BY <1>1, <1>2 DEF Ledger!FirstStep

LEMMA LedgerInit == Init => Ledger!Init
BY DEF Init, Ledger!Init, LedgerState, JobRowStatus

LEMMA LedgerOpens ==
    ASSUME SessionsInductive, NEW d \in Docs, NEW j \in Jobs, AddJob(d, j)
    PROVE Ledger!Open(j)
<1>1. jobStatus' = [jobStatus EXCEPT ![j] = "queued"] /\ jobStatus \in [Jobs -> JobRowStatus \cup {"none", "gone"}]
  BY DEF AddJob, SessionsInductive, Inductive, TypeOK
<1>2. LedgerState[j] = "none"
  BY DEF AddJob, LedgerState, JobRowStatus
<1>3. LedgerState' = [LedgerState EXCEPT ![j] = "open"]
  BY <1>1 DEF LedgerState, JobRowStatus
<1> QED BY <1>2, <1>3 DEF AddJob, Ledger!Open

LEMMA LedgerCloses ==
    ASSUME SessionsInductive, NEW d \in Docs, HardDeleteDocument(d)
    PROVE \E J \in SUBSET Jobs : Ledger!Close(J)
<1> DEFINE J == {j \in Jobs : jobDoc[j] = d /\ jobStatus[j] \in JobRowStatus}
<1> USE DEF SessionsInductive, Inductive
<1>1. \A j \in J : LedgerState[j] = "open"
  BY DEF LedgerState
<1>2. ASSUME NEW j \in Jobs
      PROVE /\ LedgerState'[j] = (IF j \in J THEN "closed" ELSE LedgerState[j])
            /\ receipts'[j] = (IF j \in J THEN {} ELSE receipts[j])
            /\ upSession'[j] = (IF j \in J THEN NoSession ELSE upSession[j])
  <2>1. CASE j \in J
    BY <2>1 DEF HardDeleteDocument, LedgerState, JobRowStatus
  <2>2. CASE j \notin J /\ jobDoc[j] = d
    <3>1. jobStatus[j] \notin JobRowStatus /\ jobStatus[j] # "none"
      BY <2>2, ConstantsAssumption DEF JobRowsMatch
    <3>2. receipts[j] = {} /\ upSession[j] = NoSession
      BY <3>1 DEF JobRowsMatch, UploadRecorded
    <3> QED BY <2>2, <3>1, <3>2 DEF HardDeleteDocument, LedgerState, JobRowStatus
  <2>3. CASE jobDoc[j] # d
    BY <2>3 DEF HardDeleteDocument, LedgerState
  <2> QED BY <2>1, <2>2, <2>3
<1>3. LedgerState' = [j \in Jobs |-> IF j \in J THEN "closed" ELSE LedgerState[j]]
  BY <1>2 DEF LedgerState
<1>4. receipts' = [j \in Jobs |-> IF j \in J THEN {} ELSE receipts[j]]
  BY <1>2 DEF HardDeleteDocument
<1>5. upSession' = [j \in Jobs |-> IF j \in J THEN NoSession ELSE upSession[j]]
  BY <1>2 DEF HardDeleteDocument
<1>6. Ledger!Close(J)
  BY <1>1, <1>3, <1>4, <1>5 DEF Ledger!Close
<1> QED BY <1>6

LEMMA LedgerRecords ==
    ASSUME SessionsInductive, NEW w \in Workers, seg[w] \in ReceiptSteps, ~hit[w],
           phase[w] = "record", Present(Doc(w)), ~ReceiptClash(w), WriteReceipt(w),
           upSession' = IF seg[w] = UploadToOcr
                        THEN [upSession EXCEPT ![wJob[w]] = fresh[w]] ELSE upSession,
           LedgerState' = LedgerState
    PROVE \E p \in Sessions : Ledger!Record(wJob[w], seg[w], p)
<1> USE DEF SessionsInductive, Inductive
<1>1. wJob[w] \in Jobs /\ jobStatus[wJob[w]] \in JobRowStatus
  BY WorkerRow DEF Active
<1>2. LedgerState[wJob[w]] = "open"
  BY <1>1 DEF LedgerState
<1>3. seg[w] \notin receipts[wJob[w]]
  BY DEF ReceiptClash, ReceiptFound
<1>4. \A t \in ReceiptSteps : t < seg[w] => t \in receipts[wJob[w]]
  BY DEF StepsRecorded, Active
<1>5. receipts' = [receipts EXCEPT ![wJob[w]] = @ \cup {seg[w]}]
  BY DEF WriteReceipt
<1>6. CASE seg[w] = UploadToOcr
  <2>1. fresh[w] \in Sessions
    BY <1>6 DEF FreshKnown, At
  <2>2. Ledger!Record(wJob[w], seg[w], fresh[w])
    BY <1>2, <1>3, <1>4, <1>5, <1>6, LedgerFirst DEF Ledger!Record
  <2> QED BY <2>1, <2>2
<1>7. CASE seg[w] # UploadToOcr
  <2>1. UploadToOcr \in receipts[wJob[w]]
    BY <1>4, <1>7 DEF ReceiptSteps, StatusSteps, UploadToOcr, ReleaseOcr, BeginIndexing
  <2>2. upSession[wJob[w]] \in Sessions
    BY <1>1, <2>1 DEF UploadRecorded
  <2>3. Ledger!Record(wJob[w], seg[w], upSession[wJob[w]])
    BY <1>2, <1>3, <1>4, <1>5, <1>7, LedgerFirst DEF Ledger!Record
  <2> QED BY <2>2, <2>3
<1> QED BY <1>6, <1>7

LEMMA LedgerCommits ==
    ASSUME SessionsInductive, NEW w \in Workers,
           \/ StartClaim(w) \/ CommitCached(w) \/ CommitStatus(w) \/ CommitIndex(w)
           \/ CommitFinalize(w) \/ MarkDeadLetter(w)
    PROVE \/ UNCHANGED <<LedgerState, receipts, upSession>>
          \/ \E p \in Sessions : wJob[w] \in Jobs /\ seg[w] \in ReceiptSteps
                                 /\ Ledger!Record(wJob[w], seg[w], p)
<1> USE DEF SessionsInductive, Inductive
<1>0. wJob[w] \in Jobs
  BY WorkerJob DEF Active, At, StartClaim, CommitCached, CommitStatus, CommitIndex,
     CommitFinalize, MarkDeadLetter
<1>1. LedgerState' = LedgerState
  <2>1. ASSUME NEW j \in Jobs PROVE LedgerState'[j] = LedgerState[j]
    BY LiveCommits DEF LedgerState
  <2> QED BY <2>1 DEF LedgerState
<1>2. CASE StartClaim(w) \/ CommitStatus(w) \/ MarkDeadLetter(w)
  BY <1>1, <1>2 DEF StartClaim, CommitStatus, MarkDeadLetter
<1>3. CASE hit[w] /\ (CommitCached(w) \/ CommitIndex(w) \/ CommitFinalize(w))
  <2>1. upSession' = upSession /\ WriteReceipt(w)
    BY <1>3 DEF CommitCached, CommitIndex, CommitFinalize
  <2>2. receipts' = [receipts EXCEPT ![wJob[w]] = @]
    BY <1>3, <2>1 DEF WriteReceipt
  <2>3. receipts' = receipts
    BY <2>2 DEF TypeOK
  <2> QED BY <1>1, <2>1, <2>3
<1>4. CASE ~hit[w] /\ (CommitCached(w) \/ CommitIndex(w) \/ CommitFinalize(w))
  <2> USE DEF UploadToOcr, PollAndFetchOcr, ReleaseOcr, ParseOutline, SectionChunk,
          EmbedBatch, BeginIndexing, TrackAWrite, TrackBWrite, AssetRegister, Finalize
  <2>1. seg[w] \in ReceiptSteps
    BY <1>4 DEF CommitCached, CommitIndex, CommitFinalize, At, CachedSteps, IndexSteps,
       ReceiptSteps, StatusSteps
  <2>2. phase[w] = "record" /\ Present(Doc(w)) /\ ~ReceiptClash(w) /\ WriteReceipt(w)
    BY <1>4 DEF CommitCached, CommitIndex, CommitFinalize, At, WritesRows
  <2>3. upSession' = IF seg[w] = UploadToOcr
                     THEN [upSession EXCEPT ![wJob[w]] = fresh[w]] ELSE upSession
    BY <1>4 DEF CommitCached, CommitIndex, CommitFinalize, At, IndexSteps
  <2> HIDE DEF UploadToOcr, PollAndFetchOcr, ReleaseOcr, ParseOutline, SectionChunk,
          EmbedBatch, BeginIndexing, TrackAWrite, TrackBWrite, AssetRegister, Finalize
  <2> QED BY <1>0, <1>1, <1>4, <2>1, <2>2, <2>3, LedgerRecords
<1> QED BY <1>2, <1>3, <1>4

LEMMA LedgerNext ==
    SessionsInductive /\ [Next]_vars => [Ledger!Next]_(Ledger!ledger)
<1> SUFFICES ASSUME SessionsInductive, [Next]_vars
             PROVE Ledger!Next \/ UNCHANGED <<LedgerState, receipts, upSession>>
  BY DEF Ledger!ledger
<1>1. ASSUME UNCHANGED dbVars PROVE UNCHANGED <<LedgerState, receipts, upSession>>
  BY <1>1 DEF LedgerState
<1>2. ASSUME NEW d \in Docs, NEW j \in Jobs, CommitUpload(d, j) \/ RetryDocument(d, j)
      PROVE Ledger!Next
  BY <1>2, LedgerOpens DEF CommitUpload, RetryDocument, Ledger!Next
<1>3. ASSUME NEW d \in Docs, HardDeleteDocument(d) PROVE Ledger!Next
  BY <1>3, LedgerCloses DEF Ledger!Next
<1>4. ASSUME NEW w \in Workers,
             \/ StartClaim(w) \/ CommitCached(w) \/ CommitStatus(w) \/ CommitIndex(w)
             \/ CommitFinalize(w) \/ MarkDeadLetter(w)
      PROVE Ledger!Next \/ UNCHANGED <<LedgerState, receipts, upSession>>
  BY <1>4, LedgerCommits DEF Ledger!Next
<1>5. ASSUME NEW w \in Workers, FinishCancelled(w) PROVE Ledger!Next
  BY <1>3, <1>5, WorkerJob DEF FinishCancelled, Active, SessionsInductive, Inductive
<1>6. CASE UNCHANGED vars
  BY <1>1, <1>6 DEF vars
<1>7. CASE Next
  BY <1>7, NextCases, <1>1, <1>2, <1>3, <1>4, <1>5, QuietRequestFrame, QuietWorkerFrame,
     BrokerFrame DEF DeleteCommit
<1> QED BY <1>6, <1>7

\* The receipts of every job form the ordered, write-once record of StepLedger,
\* whatever is delivered twice, crashes, or is deleted meanwhile.
THEOREM ReceiptsImplementLedger == Spec => ImplementsLedger
<1>1. Init => Ledger!Init
  BY LedgerInit
<1>2. SessionsInductive /\ [Next]_vars => [Ledger!Next]_(Ledger!ledger)
  BY LedgerNext
<1> QED BY <1>1, <1>2, SessionsInvariant, PTL DEF Spec, ImplementsLedger, Ledger!Spec
=============================================================================
