----------------------------- MODULE OcrService -----------------------------
(***************************************************************************)
(* The self-hosted OCR service: HTTP handlers, a bounded priority queue in *)
(* memory, one worker loop, the model thread it awaits, the callback, the  *)
(* clean-up loop, and meta.json files that outlive the process.            *)
(*                                                                         *)
(* Handlers and loops share one asyncio event loop: what happens between   *)
(* two awaits is one action.  process_pdf runs in a thread, so it          *)
(* interleaves with everything, and a time-out abandons it without ending  *)
(* it.                                                                     *)
(***************************************************************************)
EXTENDS Integers, FiniteSets

CONSTANTS
    Sessions,          \* session ids (uuid4, never reused)
    Priorities,        \* priorities clients choose; smaller is served first
    NoSession,
    QueueSize,         \* capacity of task_queue
    MaxRestarts,       \* bound: restarts of the process
    MaxBroken          \* bound: sessions a write of whose metadata fails

ASSUME OcrConstants ==
    /\ NoSession \notin Sessions
    /\ Priorities \subseteq Int
    /\ QueueSize \in Nat \ {0}
    /\ MaxRestarts \in Nat
    /\ MaxBroken \in Nat

\* "torn": a write failed half-way, and meta.json does not parse.
Statuses == {"queued", "running", "completed", "failed", "torn"}
Terminal == {"completed", "failed"}

VARIABLES
    used,      \* ids handed out
    meta,      \* status in meta.json, "none" without a session directory
    prio,      \* priority given at the upload
    result,    \* whether output/result.md exists
    deleted,   \* sessions removed by DELETE or by the clean-up
    broken,    \* sessions a write of whose metadata failed
    queue,     \* task_queue
    worker,    \* _worker_loop: "waiting", "running", "callback", or "dead"
    cur,       \* the session the worker processes
    thread,    \* process_pdf: "none", "running", or finished with "ok" / "error"
    restarts

vars == <<used, meta, prio, result, deleted, broken, queue, worker, cur, thread, restarts>>

TypeOK ==
    /\ used \in SUBSET Sessions
    /\ meta \in [Sessions -> Statuses \cup {"none"}]
    /\ prio \in [Sessions -> Priorities \cup {0}]
    /\ result \in [Sessions -> BOOLEAN]
    /\ deleted \in SUBSET Sessions
    /\ broken \in SUBSET Sessions
    /\ queue \in SUBSET Sessions
    /\ Cardinality(queue) <= QueueSize
    /\ worker \in {"waiting", "running", "callback", "dead"}
    /\ cur \in Sessions \cup {NoSession}
    /\ thread \in [Sessions -> {"none", "running", "ok", "error"}]
    /\ restarts \in 0..MaxRestarts

Init ==
    /\ used = {}
    /\ meta = [s \in Sessions |-> "none"]
    /\ prio = [s \in Sessions |-> 0]
    /\ result = [s \in Sessions |-> FALSE]
    /\ deleted = {}
    /\ broken = {}
    /\ queue = {}
    /\ worker = "waiting"
    /\ cur = NoSession
    /\ thread = [s \in Sessions |-> "none"]
    /\ restarts = 0

-----------------------------------------------------------------------------
(***************************************************************************)
(* HTTP handlers.                                                          *)
(***************************************************************************)
\* Mutation: the capacity is not enforced.
NeverFull == FALSE

QueueFull == Cardinality(queue) >= QueueSize

\* upload_pdf: a full queue leaves a session marked failed and answers 429.
Upload(s, p) ==
    /\ s \notin used
    /\ used' = used \cup {s}
    /\ prio' = [prio EXCEPT ![s] = p]
    /\ IF QueueFull
       THEN meta' = [meta EXCEPT ![s] = "failed"] /\ UNCHANGED queue
       ELSE meta' = [meta EXCEPT ![s] = "queued"] /\ queue' = queue \cup {s}
    /\ UNCHANGED <<result, deleted, broken, worker, cur, thread, restarts>>

\* _write_meta of s fails: its directory, meta.json or status.txt cannot be
\* written, and an opened file stays empty.
WriteFails(s) ==
    /\ Cardinality(broken \cup {s}) <= MaxBroken
    /\ broken' = broken \cup {s}

\* upload_pdf ends in an error of one of its writes before anything is queued.
UploadFails(s) ==
    /\ s \notin used
    /\ WriteFails(s)
    /\ used' = used \cup {s}
    /\ \E left \in {"none", "queued", "torn"} \cup (IF QueueFull THEN {"failed"} ELSE {}) :
          meta' = [meta EXCEPT ![s] = left]
    /\ UNCHANGED <<prio, result, deleted, queue, worker, cur, thread, restarts>>

RemoveDirectory(s) ==
    /\ meta[s] # "none"
    /\ meta' = [meta EXCEPT ![s] = "none"]
    /\ result' = [result EXCEPT ![s] = FALSE]
    /\ deleted' = deleted \cup {s}
    /\ UNCHANGED <<used, prio, broken, queue, worker, cur, thread, restarts>>

\* DELETE /session: whatever the status, and without touching the queue.
DeleteSession(s) == RemoveDirectory(s)

\* _cleanup_loop removes by age only, a session still queued too: smaller
\* priorities overtake it for as long as clients send them.  The worker's own
\* session was written less than a time-out ago.
Expire(s) ==
    /\ s # cur
    /\ RemoveDirectory(s)

\* _ensure_completed, as GET /result/{id}/markdown answers it.
MarkdownAnswer(s) ==
    CASE meta[s] = "none" -> 404
      [] meta[s] \in {"queued", "running"} -> 202
      [] meta[s] \in {"failed", "torn"} -> 500
      [] meta[s] = "completed" -> IF result[s] THEN 200 ELSE 404

-----------------------------------------------------------------------------
(***************************************************************************)
(* The worker loop.                                                        *)
(***************************************************************************)
IsNext(s) == s \in queue /\ \A t \in queue : prio[s] <= prio[t]

\* _process_session up to the model call.
TakeTask(s) ==
    /\ worker = "waiting"
    /\ IsNext(s)
    /\ meta[s] # "none"
    /\ queue' = queue \ {s}
    /\ meta' = [meta EXCEPT ![s] = "running"]
    /\ thread' = [thread EXCEPT ![s] = "running"]
    /\ worker' = "running"
    /\ cur' = s
    /\ UNCHANGED <<used, prio, result, deleted, broken, restarts>>

\* _read_meta of a deleted session raises outside the try block: the exception
\* leaves _worker_loop and nobody restarts the task.
TakeDeleted(s) ==
    /\ worker = "waiting"
    /\ IsNext(s)
    /\ meta[s] = "none"
    /\ queue' = queue \ {s}
    /\ worker' = "dead"
    /\ UNCHANGED <<used, meta, prio, result, deleted, broken, cur, thread, restarts>>

\* The first write, before the try block, fails, or the second one and the one of
\* the exception handler do: the exception leaves _worker_loop.
TakeBreaks(s) ==
    /\ worker = "waiting"
    /\ IsNext(s)
    /\ meta[s] # "none"
    /\ WriteFails(s)
    /\ queue' = queue \ {s}
    /\ worker' = "dead"
    /\ \E left \in {"queued", "running", "failed", "torn"} : meta' = [meta EXCEPT ![s] = left]
    /\ UNCHANGED <<used, prio, result, deleted, cur, thread, restarts>>

\* Only the write within the try block fails: the session fails without a model call.
TakeFails(s) ==
    /\ worker = "waiting"
    /\ IsNext(s)
    /\ meta[s] # "none"
    /\ WriteFails(s)
    /\ queue' = queue \ {s}
    /\ worker' = "callback"
    /\ cur' = s
    /\ meta' = [meta EXCEPT ![s] = "failed"]
    /\ UNCHANGED <<used, prio, result, deleted, thread, restarts>>

\* Mutation: the thread itself marks the session completed when it ends.
ThreadCompletes(s) ==
    /\ thread[s] = "running"
    /\ meta[s] # "none"
    /\ meta' = [meta EXCEPT ![s] = "completed"]
    /\ result' = [result EXCEPT ![s] = TRUE]
    /\ thread' = [thread EXCEPT ![s] = IF s = cur THEN "ok" ELSE "none"]
    /\ UNCHANGED <<used, prio, deleted, broken, queue, worker, cur, restarts>>

\* The result is written where the session directory still exists.
ThreadSucceeds(s) ==
    /\ thread[s] = "running"
    /\ meta[s] # "none"
    /\ result' = [result EXCEPT ![s] = TRUE]
    /\ thread' = [thread EXCEPT ![s] = IF s = cur THEN "ok" ELSE "none"]
    /\ UNCHANGED <<used, meta, prio, deleted, broken, queue, worker, cur, restarts>>

ThreadFails(s) ==
    /\ thread[s] = "running"
    /\ thread' = [thread EXCEPT ![s] = IF s = cur THEN "error" ELSE "none"]
    /\ UNCHANGED <<used, meta, prio, result, deleted, broken, queue, worker, cur, restarts>>

\* Mutation: the worker does not look at how the model call ended.
CompletedAnyway == "completed"

Outcome == IF thread[cur] = "ok" THEN "completed" ELSE "failed"

\* _write_meta creates the session directory again if it was deleted.
Finish(status) ==
    /\ meta' = [meta EXCEPT ![cur] = status]
    /\ worker' = "callback"
    /\ UNCHANGED <<used, prio, result, deleted, queue, restarts>>

ProcessingEnds ==
    /\ worker = "running"
    /\ thread[cur] \in {"ok", "error"}
    /\ Finish(Outcome)
    /\ thread' = [thread EXCEPT ![cur] = "none"]
    /\ UNCHANGED <<broken, cur>>

\* A result is there, but its metadata cannot be written within the try block.
ResultNotRecorded ==
    /\ worker = "running"
    /\ thread[cur] = "ok"
    /\ WriteFails(cur)
    /\ Finish("failed")
    /\ thread' = [thread EXCEPT ![cur] = "none"]
    /\ UNCHANGED cur

\* The write of the exception handler fails too, or that of a time-out: the loop
\* ends, and a model call still running goes on.
RecordBreaks ==
    /\ worker = "running"
    /\ WriteFails(cur)
    /\ \E left \in {meta[cur], "failed", "torn", Outcome} : meta' = [meta EXCEPT ![cur] = left]
    /\ thread' = [thread EXCEPT ![cur] = IF @ = "running" THEN @ ELSE "none"]
    /\ worker' = "dead"
    /\ cur' = NoSession
    /\ UNCHANGED <<used, prio, result, deleted, queue, restarts>>

\* Mutation: a time-out does not reach the metadata.
TimeOutForgotten ==
    /\ worker = "running"
    /\ thread[cur] = "running"
    /\ worker' = "waiting"
    /\ cur' = NoSession
    /\ UNCHANGED <<used, meta, prio, result, deleted, broken, queue, thread, restarts>>

\* wait_for gives up and the lock is released; the thread goes on.
ProcessingTimesOut ==
    /\ worker = "running"
    /\ thread[cur] = "running"
    /\ Finish("failed")
    /\ cur' = NoSession
    /\ UNCHANGED <<broken, thread>>

\* Mutation: an error of the callback is not swallowed.
CallbackErrorEscapes ==
    /\ worker = "callback"
    /\ worker' \in {"waiting", "dead"}
    /\ cur' = NoSession
    /\ UNCHANGED <<used, meta, prio, result, deleted, broken, queue, thread, restarts>>

\* The callback was answered, refused or timed out.
CallbackEnds ==
    /\ worker = "callback"
    /\ worker' = "waiting"
    /\ cur' = NoSession
    /\ UNCHANGED <<used, meta, prio, result, deleted, broken, queue, thread, restarts>>

\* The process restarts: queue, worker and threads are gone, the files stay.
Restart ==
    /\ restarts < MaxRestarts
    /\ restarts' = restarts + 1
    /\ queue' = {}
    /\ worker' = "waiting"
    /\ cur' = NoSession
    /\ thread' = [s \in Sessions |-> "none"]
    /\ UNCHANGED <<used, meta, prio, result, deleted, broken>>

-----------------------------------------------------------------------------
WorkerLoop ==
    \/ \E s \in Sessions : TakeTask(s) \/ TakeDeleted(s) \/ TakeBreaks(s) \/ TakeFails(s)
    \/ ProcessingEnds \/ ProcessingTimesOut \/ ResultNotRecorded \/ RecordBreaks
    \/ CallbackEnds

ThreadEnds == \E s \in Sessions : ThreadSucceeds(s) \/ ThreadFails(s)

Client ==
    \/ \E s \in Sessions, p \in Priorities : Upload(s, p)
    \/ \E s \in Sessions : UploadFails(s) \/ DeleteSession(s)

Next == Client \/ WorkerLoop \/ ThreadEnds \/ (\E s \in Sessions : Expire(s)) \/ Restart

Spec == Init /\ [][Next]_vars

\* The event loop keeps running; clients, restarts and the clean-up owe nothing.
FairSpec == Spec /\ WF_vars(WorkerLoop)

-----------------------------------------------------------------------------
(***************************************************************************)
(* Properties.                                                             *)
(***************************************************************************)

\* A status of completed can be trusted: unless somebody deleted the session,
\* its markdown is there to fetch.
CompletedIsServable ==
    \A s \in Sessions \ deleted : meta[s] = "completed" => MarkdownAnswer(s) = 200

\* An outcome is final: a completed or failed session changes only by being
\* removed, although time-outs abandon threads that finish later.
OutcomeIsFinal ==
    [][\A s \in Sessions : meta[s] \in Terminal => meta'[s] \in {meta[s], "none"}]_vars

\* Until the process restarts the metadata agrees with it, but for sessions whose
\* metadata could not be written: a queued session is in the queue, a running one
\* is the worker's.
MetaMatchesProcess ==
    restarts = 0 =>
        \A s \in Sessions \ broken :
            /\ meta[s] = "queued" => s \in queue
            /\ meta[s] = "running" => worker = "running" /\ cur = s

\* A thread that runs without being awaited belongs to a session reported as
\* failed or already removed, unless that report could not be written.
AbandonedThreadIsFailed ==
    \A s \in Sessions \ broken :
        thread[s] # "none" /\ s # cur => meta[s] \in {"failed", "none"}

\* Every accepted session is eventually processed, failed or removed.
AcceptedIsProcessed ==
    \A s \in Sessions : meta[s] = "queued" ~> meta[s] # "queued"

\* The one loop serves as long as nobody takes its files away: no queued session
\* is removed, by a client or by the clean-up, and no write of metadata fails.
FilesStay == restarts = 0 /\ broken = {} /\ queue \cap deleted = {}

\* While the files stay, the loop survives every time-out, error and callback, and
\* every accepted session is processed or failed: once those overtaking it (as
\* many as the instance has sessions) are served, for nothing in the code bounds
\* how many smaller priorities pass it.
ProcessedWhileFilesStay == []FilesStay => AcceptedIsProcessed

=============================================================================
