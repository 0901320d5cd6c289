---------------------------- MODULE SearchExport ----------------------------
(***************************************************************************)
(* Search exports on the server: a request flushes the job's row, sends    *)
(* the Celery task and only then commits; the task marks the job running,  *)
(* searches, writes a zip and commits the outcome; a status request offers *)
(* a download of a succeeded job, which checks the row and then reads the  *)
(* file.  A worker that dies has its task delivered again (acks_late).     *)
(***************************************************************************)
EXTENDS Naturals, FiniteSets

CONSTANTS
    Jobs,       \* export requests, numbered in the order they are asked for
    None,
    MaxCrashes  \* bound: deaths of the worker

ASSUME ExportConstants == Jobs \subseteq Nat /\ None \notin Jobs /\ MaxCrashes \in Nat

VARIABLES
    job,        \* search_export_jobs: status, and whether file_path is set
    task,       \* the Celery task of the job and how far it is
    file,       \* the zip of the job
    download,   \* the job whose file a download request is about to read
    crashes,
    dropped,    \* history: jobs whose task ended and its outcome is in no row
    again       \* history: jobs whose task started again after it had succeeded

serverVars == <<job, task, file, download, crashes, dropped, again>>

Statuses == {"absent", "flushed", "pending", "running", "succeeded", "failed"}
Stages == {"none", "queued", "search", "writing", "written", "ack", "done"}
Committed == {"pending", "running", "succeeded", "failed"}

ServerTypeOK ==
    /\ job \in [Jobs -> [status: Statuses, path: BOOLEAN]]
    /\ task \in [Jobs -> Stages]
    /\ file \in [Jobs -> {"none", "partial", "whole"}]
    /\ download \in Jobs \cup {None}
    /\ crashes \in 0..MaxCrashes
    /\ dropped \in SUBSET Jobs /\ again \in SUBSET Jobs

ServerInit ==
    /\ job = [j \in Jobs |-> [status |-> "absent", path |-> FALSE]]
    /\ task = [j \in Jobs |-> "none"]
    /\ file = [j \in Jobs |-> "none"]
    /\ download = None
    /\ crashes = 0
    /\ dropped = {} /\ again = {}

-----------------------------------------------------------------------------
Step(j, from, to) == task[j] = from /\ task' = [task EXCEPT ![j] = to]
SetStatus(j, s) == job' = [job EXCEPT ![j].status = s]

\* create_export: the row is flushed and the task is sent ...
SendExport(j) ==
    /\ job[j].status = "absent" /\ Step(j, "none", "queued")
    /\ SetStatus(j, "flushed")
    /\ UNCHANGED <<file, download, crashes, dropped, again>>

\* ... before the commit, which can fail.
CommitExport(j) ==
    /\ job[j].status = "flushed"
    /\ SetStatus(j, "pending")
    /\ UNCHANGED <<task, file, download, crashes, dropped, again>>

AbortExport(j) ==
    /\ job[j].status = "flushed"
    /\ SetStatus(j, "absent")
    /\ UNCHANGED <<task, file, download, crashes, dropped, again>>

Drop(j) == dropped' = dropped \cup {j}

\* _run_export finds no job and is done.
TaskTooEarly(j) ==
    /\ job[j].status \notin Committed /\ Step(j, "queued", "done")
    /\ Drop(j)
    /\ UNCHANGED <<job, file, download, crashes, again>>

\* Reading the row, or the commit of "running", raises outside the try: Celery
\* acknowledges the task and the row stays as it was.
TaskStartFails(j) ==
    /\ Step(j, "queued", "ack")
    /\ Drop(j)
    /\ UNCHANGED <<job, file, download, crashes, again>>

TaskStarts(j) ==
    /\ job[j].status \in Committed /\ Step(j, "queued", "search")
    /\ SetStatus(j, "running")
    /\ again' = IF job[j].status = "succeeded" THEN again \cup {j} ELSE again
    /\ UNCHANGED <<file, download, crashes, dropped>>

\* ZipFile(path, "w") empties the file of an earlier run.
TaskOpensZip(j) ==
    /\ Step(j, "search", "writing")
    /\ file' = [file EXCEPT ![j] = "partial"]
    /\ UNCHANGED <<job, download, crashes, dropped, again>>

TaskClosesZip(j) ==
    /\ Step(j, "writing", "written")
    /\ file' = [file EXCEPT ![j] = "whole"]
    /\ UNCHANGED <<job, download, crashes, dropped, again>>

\* Mutation: the outcome is committed while the zip is being written.
WhileWriting(j) == task[j] \in {"writing", "written"}

AfterWriting(j) == task[j] = "written"

TaskSucceeds(j) ==
    /\ AfterWriting(j)
    /\ task' = [task EXCEPT ![j] = "ack"]
    /\ job' = [job EXCEPT ![j] = [status |-> "succeeded", path |-> TRUE]]
    /\ UNCHANGED <<file, download, crashes, dropped, again>>

\* The search or the zip raises: the job is failed, an earlier path stays.
TaskFails(j) ==
    /\ \E from \in {"search", "writing", "written"} : Step(j, from, "ack")
    /\ SetStatus(j, "failed")
    /\ UNCHANGED <<file, download, crashes, dropped, again>>

\* The handler's own commit raises: the database does not answer, or the commit
\* of the success failed and nothing rolled the session back.
HandlerFails(j) ==
    /\ \E from \in {"search", "writing", "written"} : Step(j, from, "ack")
    /\ Drop(j)
    /\ UNCHANGED <<job, file, download, crashes, again>>

TaskAcked(j) ==
    /\ Step(j, "ack", "done")
    /\ UNCHANGED <<job, file, download, crashes, dropped, again>>

\* task_acks_late, task_reject_on_worker_lost
AfterCrash == "queued"

WorkerDies(j) ==
    /\ crashes < MaxCrashes /\ crashes' = crashes + 1
    /\ \E from \in {"search", "writing", "written", "ack"} : Step(j, from, AfterCrash)
    /\ UNCHANGED <<job, file, download, dropped, again>>

-----------------------------------------------------------------------------
\* get_export_status: what a committed row answers.
Visible(j) == job[j].status \in Committed
Offers(j) == job[j].status = "succeeded" /\ job[j].path

\* download_export checks the row; the response opens the file later.
DownloadChecked(j) ==
    /\ download = None /\ Offers(j) /\ file[j] # "none"
    /\ download' = j
    /\ UNCHANGED <<job, task, file, crashes, dropped, again>>

DownloadSent ==
    /\ download # None
    /\ download' = None
    /\ UNCHANGED <<job, task, file, crashes, dropped, again>>

Work(j) ==
    \/ TaskTooEarly(j) \/ TaskStarts(j) \/ TaskStartFails(j)
    \/ TaskOpensZip(j) \/ TaskClosesZip(j) \/ TaskSucceeds(j)
    \/ TaskFails(j) \/ HandlerFails(j) \/ TaskAcked(j)

ServerStep(j) == Work(j) \/ WorkerDies(j) \/ DownloadChecked(j) \/ DownloadSent

-----------------------------------------------------------------------------
\* A download that was allowed reads a whole zip, unless the worker died
\* between the commit of the success and its acknowledgement: the task then
\* runs again over the file (search_export.py:31 sets a succeeded job back to
\* running, :68 empties the zip).
DownloadIsWhole ==
    \A j \in Jobs : download = j /\ j \notin again => file[j] = "whole"
=============================================================================
