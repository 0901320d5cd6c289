----------------------------- MODULE OcrProofs -----------------------------
EXTENDS OcrService, FiniteSetTheorems, TLAPS

(***************************************************************************)
(* Proofs about the OCR service for every set of sessions, queue size and  *)
(* number of restarts.                                                     *)
(***************************************************************************)

\* Before its upload a session is nowhere.
UnusedIsBlank ==
    \A s \in Sessions \ used : meta[s] = "none" /\ thread[s] = "none" /\ s \notin queue

\* A waiting session has not been touched by the worker.
QueuedIsUntouched ==
    \A s \in queue : meta[s] \in {"queued", "none"} /\ thread[s] = "none"

\* The worker's session is the one it says it is running.
WorkerMatches ==
    /\ worker \in {"waiting", "dead"} => cur = NoSession
    /\ worker = "running" =>
          /\ cur \in Sessions /\ cur \in used /\ cur \notin queue
          /\ meta[cur] \in {"running", "none"}
    /\ worker = "callback" /\ cur # NoSession =>
          cur \in used /\ cur \notin queue /\ thread[cur] = "none"

\* A thread that succeeded has written the result, or its session was deleted.
ResultWritten ==
    \A s \in Sessions \ deleted : thread[s] = "ok" => result[s]

OcrInductive ==
    /\ TypeOK /\ IsFiniteSet(queue)
    /\ UnusedIsBlank /\ QueuedIsUntouched /\ WorkerMatches /\ ResultWritten
    /\ CompletedIsServable /\ AbandonedThreadIsFailed

LEMMA OcrInit == Init => OcrInductive
<1> SUFFICES ASSUME Init PROVE OcrInductive
  OBVIOUS
<1> USE OcrConstants DEF Init
<1>1. IsFiniteSet(queue) /\ Cardinality(queue) = 0
  BY FS_EmptySet
<1>2. TypeOK
  BY <1>1 DEF TypeOK
<1>3. UnusedIsBlank /\ QueuedIsUntouched /\ WorkerMatches /\ ResultWritten
  BY DEF UnusedIsBlank, QueuedIsUntouched, WorkerMatches, ResultWritten
<1>4. CompletedIsServable /\ AbandonedThreadIsFailed
  BY DEF CompletedIsServable, AbandonedThreadIsFailed
<1> QED BY <1>1, <1>2, <1>3, <1>4 DEF OcrInductive

\* The queue stays finite and within its capacity.
LEMMA QueueBounded ==
    ASSUME TypeOK, IsFiniteSet(queue), Next
    PROVE IsFiniteSet(queue)' /\ Cardinality(queue') <= QueueSize
<1> USE OcrConstants DEF TypeOK
<1>0. Cardinality(queue) \in Nat
  BY FS_CardinalityType
<1>1. ASSUME NEW s \in Sessions, queue' = queue \cup {s}, ~QueueFull
      PROVE IsFiniteSet(queue') /\ Cardinality(queue') <= QueueSize
  <2>1. /\ IsFiniteSet(queue \cup {s})
        /\ Cardinality(queue \cup {s}) = IF s \in queue THEN Cardinality(queue)
                                         ELSE Cardinality(queue) + 1
    BY FS_AddElement
  <2> QED BY <1>0, <1>1, <2>1 DEF QueueFull
<1>2. ASSUME NEW s \in Sessions, queue' = queue \ {s}
      PROVE IsFiniteSet(queue') /\ Cardinality(queue') <= QueueSize
  <2>1. /\ IsFiniteSet(queue \ {s})
        /\ Cardinality(queue \ {s}) = IF s \in queue THEN Cardinality(queue) - 1
                                      ELSE Cardinality(queue)
    BY FS_RemoveElement
  <2> QED BY <1>0, <1>2, <2>1
<1>3. ASSUME queue' = {} PROVE IsFiniteSet(queue') /\ Cardinality(queue') <= QueueSize
  BY <1>3, FS_EmptySet
<1>4. \/ queue' = queue \/ queue' = {}
      \/ \E s \in Sessions : queue' = queue \ {s}
      \/ \E s \in Sessions : queue' = queue \cup {s} /\ ~QueueFull
  BY DEF Next, Client, WorkerLoop, ThreadEnds, Upload, DeleteSession, Expire,
     RemoveDirectory, UploadFails, TakeTask, TakeDeleted, TakeBreaks, TakeFails,
     ThreadSucceeds, ThreadFails, ProcessingEnds, ProcessingTimesOut, ResultNotRecorded,
     RecordBreaks, Finish, CallbackEnds, Restart
<1> QED BY <1>1, <1>2, <1>3, <1>4

LEMMA OcrNext == OcrInductive /\ [Next]_vars => OcrInductive'
<1> SUFFICES ASSUME OcrInductive, [Next]_vars PROVE OcrInductive'
  OBVIOUS
<1> USE OcrConstants DEF OcrInductive, TypeOK, Statuses
<1> DEFINE Rest == /\ UnusedIsBlank /\ QueuedIsUntouched /\ WorkerMatches /\ ResultWritten
                   /\ AbandonedThreadIsFailed
<1> DEFINE Served == \A s \in Sessions \ deleted : meta[s] = "completed" => result[s]
<1>0. (CompletedIsServable <=> Served) /\ (CompletedIsServable <=> Served)'
  BY DEF CompletedIsServable, MarkdownAnswer
<1> USE DEF UnusedIsBlank, QueuedIsUntouched, WorkerMatches, ResultWritten,
        AbandonedThreadIsFailed
<1>1. ASSUME NEW s \in Sessions, NEW p \in Priorities, Upload(s, p), Cardinality(queue') <= QueueSize
      PROVE TypeOK' /\ Rest' /\ Served'
  BY <1>0, <1>1 DEF Upload
<1>2. ASSUME NEW s \in Sessions, RemoveDirectory(s) PROVE TypeOK' /\ Rest' /\ Served'
  BY <1>0, <1>2 DEF RemoveDirectory
<1>3. ASSUME NEW s \in Sessions, TakeTask(s), Cardinality(queue') <= QueueSize
      PROVE TypeOK' /\ Rest' /\ Served'
  BY <1>0, <1>3 DEF TakeTask, IsNext
<1>4. ASSUME NEW s \in Sessions, TakeDeleted(s), Cardinality(queue') <= QueueSize
      PROVE TypeOK' /\ Rest' /\ Served'
  BY <1>0, <1>4 DEF TakeDeleted, IsNext
<1>5. ASSUME NEW s \in Sessions, ThreadSucceeds(s) PROVE TypeOK' /\ Rest' /\ Served'
  BY <1>0, <1>5 DEF ThreadSucceeds
<1>6. ASSUME NEW s \in Sessions, ThreadFails(s) PROVE TypeOK' /\ Rest' /\ Served'
  BY <1>0, <1>6 DEF ThreadFails
<1>7. ASSUME ProcessingEnds PROVE TypeOK' /\ Rest' /\ Served'
  BY <1>0, <1>7 DEF ProcessingEnds, Finish, Outcome
<1>8. ASSUME ProcessingTimesOut PROVE TypeOK' /\ Rest' /\ Served'
  BY <1>0, <1>8 DEF ProcessingTimesOut, Finish
<1>9. ASSUME CallbackEnds PROVE TypeOK' /\ Rest' /\ Served'
  BY <1>0, <1>9 DEF CallbackEnds
<1>10. ASSUME Restart, Cardinality(queue') <= QueueSize PROVE TypeOK' /\ Rest' /\ Served'
  BY <1>0, <1>10 DEF Restart
<1>11. CASE UNCHANGED vars
  BY <1>0, <1>11 DEF vars
<1>13. ASSUME NEW s \in Sessions, UploadFails(s) PROVE TypeOK' /\ Rest' /\ Served'
  BY <1>0, <1>13 DEF UploadFails, WriteFails
<1>14. ASSUME NEW s \in Sessions, TakeBreaks(s), Cardinality(queue') <= QueueSize
       PROVE TypeOK' /\ Rest' /\ Served'
  BY <1>0, <1>14 DEF TakeBreaks, WriteFails, IsNext
<1>15. ASSUME NEW s \in Sessions, TakeFails(s), Cardinality(queue') <= QueueSize
       PROVE TypeOK' /\ Rest' /\ Served'
  BY <1>0, <1>15 DEF TakeFails, WriteFails, IsNext
<1>16. ASSUME ResultNotRecorded PROVE TypeOK' /\ Rest' /\ Served'
  BY <1>0, <1>16 DEF ResultNotRecorded, WriteFails, Finish
<1>17. ASSUME RecordBreaks PROVE TypeOK' /\ Rest' /\ Served'
  BY <1>0, <1>17 DEF RecordBreaks, WriteFails, Outcome
<1>12. CASE Next
  <2>1. IsFiniteSet(queue)' /\ Cardinality(queue') <= QueueSize
    BY <1>12, QueueBounded
  <2> QED
    BY <1>0, <1>12, <2>1, <1>1, <1>2, <1>3, <1>4, <1>5, <1>6, <1>7, <1>8, <1>9, <1>10,
       <1>13, <1>14, <1>15, <1>16, <1>17
    DEF Next, Client, WorkerLoop, ThreadEnds, DeleteSession, Expire
<1> QED BY <1>11, <1>12

\* The strengthened invariant of the OCR service.
THEOREM OcrInvariant == Spec => []OcrInductive
BY OcrInit, OcrNext, PTL DEF Spec

\* The bounded queue and the session records keep their types across time-outs,
\* deletions and restarts.
THEOREM OcrTypeCorrect == Spec => []TypeOK
<1>1. OcrInductive => TypeOK
  BY DEF OcrInductive
<1> QED BY <1>1, OcrInvariant, PTL

\* GET /result/{id}/markdown answers every completed session that nobody deleted.
THEOREM CompletedCanBeFetched == Spec => []CompletedIsServable
<1>1. OcrInductive => CompletedIsServable
  BY DEF OcrInductive
<1> QED BY <1>1, OcrInvariant, PTL

\* A thread left behind by wait_for belongs to a session already given up.
THEOREM AbandonedThreadsAreFailed == Spec => []AbandonedThreadIsFailed
<1>1. OcrInductive => AbandonedThreadIsFailed
  BY DEF OcrInductive
<1> QED BY <1>1, OcrInvariant, PTL

\* The files agree with the queue and the worker as long as the process lives,
\* whatever is deleted and whatever times out on the way.
THEOREM MetadataMatches == Spec => []MetaMatchesProcess
<1>1. Init => MetaMatchesProcess
  BY DEF Init, MetaMatchesProcess
<1>2. OcrInductive /\ MetaMatchesProcess /\ [Next]_vars => MetaMatchesProcess'
  <2> SUFFICES ASSUME OcrInductive, MetaMatchesProcess, [Next]_vars, restarts' = 0
               PROVE MetaMatchesProcess'
    BY DEF MetaMatchesProcess
  <2> USE DEF MetaMatchesProcess, OcrInductive, TypeOK
  <2>1. CASE UNCHANGED vars
    BY <2>1 DEF vars
  <2>2. CASE Client \/ \E s \in Sessions : Expire(s)
    <3>1. ASSUME NEW s \in Sessions, UploadFails(s) PROVE MetaMatchesProcess'
      BY <3>1 DEF UploadFails, WriteFails
    <3>2. ASSUME NEW s \in Sessions, NEW p \in Priorities, Upload(s, p)
          PROVE MetaMatchesProcess'
      BY <3>2 DEF Upload
    <3>3. ASSUME NEW s \in Sessions, RemoveDirectory(s) PROVE MetaMatchesProcess'
      BY <3>3 DEF RemoveDirectory
    <3> QED BY <2>2, <3>1, <3>2, <3>3 DEF Client, Expire, DeleteSession
  <2>3. CASE \E s \in Sessions : TakeTask(s) \/ TakeDeleted(s) \/ TakeBreaks(s) \/ TakeFails(s)
    BY <2>3 DEF TakeTask, TakeDeleted, TakeBreaks, TakeFails, WriteFails, IsNext
  <2>4. CASE ProcessingEnds \/ ProcessingTimesOut \/ ResultNotRecorded \/ RecordBreaks
    BY <2>4 DEF ProcessingEnds, ProcessingTimesOut, ResultNotRecorded, RecordBreaks,
       WriteFails, WorkerMatches, Finish, Outcome
  <2>5. CASE CallbackEnds \/ ThreadEnds
    BY <2>5 DEF CallbackEnds, ThreadEnds, ThreadSucceeds, ThreadFails
  <2>6. CASE Restart
    BY <2>6 DEF Restart
  <2> QED BY <2>1, <2>2, <2>3, <2>4, <2>5, <2>6 DEF Next, WorkerLoop
<1> QED BY <1>1, <1>2, OcrInvariant, PTL DEF Spec

\* A completed or failed session never gets another outcome.
THEOREM OutcomesAreFinal == Spec => OutcomeIsFinal
<1>1. ASSUME OcrInductive, [Next]_vars, NEW s \in Sessions, meta[s] \in Terminal
      PROVE meta'[s] \in {meta[s], "none"}
  <2> USE <1>1 DEF OcrInductive, TypeOK, Terminal
  <2>1. CASE UNCHANGED vars
    BY <2>1 DEF vars
  <2>2. CASE Client \/ \E t \in Sessions : Expire(t)
    BY <2>2 DEF Client, Expire, Upload, UploadFails, DeleteSession, RemoveDirectory,
       UnusedIsBlank
  <2>3. CASE WorkerLoop
    BY <2>3 DEF WorkerLoop, TakeTask, TakeDeleted, TakeBreaks, TakeFails, IsNext,
       ProcessingEnds, ProcessingTimesOut, ResultNotRecorded, RecordBreaks, Finish,
       CallbackEnds, QueuedIsUntouched, WorkerMatches
  <2>4. CASE ThreadEnds \/ Restart
    BY <2>4 DEF ThreadEnds, ThreadSucceeds, ThreadFails, Restart
  <2> QED BY <2>1, <2>2, <2>3, <2>4 DEF Next
<1>2. OcrInductive /\ [Next]_vars
      => [\A s \in Sessions : meta[s] \in Terminal => meta'[s] \in {meta[s], "none"}]_vars
  BY <1>1
<1> QED BY <1>2, OcrInvariant, PTL DEF Spec, OutcomeIsFinal
=============================================================================
