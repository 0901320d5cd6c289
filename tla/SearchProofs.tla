---------------------------- MODULE SearchProofs ----------------------------
(***************************************************************************)
(* What holds of every behaviour of the search page against the server,    *)
(* for any number of exports, searches, status requests, visits and deaths *)
(* of the worker: a download reads a whole file, and the download offered  *)
(* is of the export asked for last.                                        *)
(***************************************************************************)
EXTENDS SearchStore, TLAPS

SearchTypeOK ==
    /\ asked \in Nat /\ flight \subseteq Nat /\ results \in Nat
    /\ loading \in BOOLEAN

StoreTypeOK ==
    /\ exportJob \in Jobs \cup {None} /\ offered \in Jobs \cup {None}
    /\ exportPolling \in BOOLEAN
    /\ creating \subseteq Jobs
    /\ polls \in [Slots -> [job: Jobs \cup {None}, answer: Answers]]
    /\ last \in Jobs \cup {None} /\ raced \in BOOLEAN

VisitTypeOK ==
    /\ visit \in Visits /\ open \in BOOLEAN
    /\ asker \in [Jobs -> Visits]
    /\ timers \subseteq Jobs /\ pollTimer \in [Visits -> Jobs \cup {None}]

PageTypeOK == SearchTypeOK /\ StoreTypeOK /\ VisitTypeOK

\* The zip of a task that has closed it is whole, and it stays whole as long as
\* the job is called succeeded: no run of its task is under way then.
ZipsAreClosed ==
    \A j \in Jobs :
        /\ task[j] = "written" => file[j] = "whole"
        /\ job[j].status = "succeeded" =>
              file[j] = "whole" /\ task[j] \in {"queued", "ack", "done"}

\* A download under way was allowed by a success that still stands, unless the
\* task was run again since.
DownloadsSucceeded ==
    \A j \in Jobs : download = j /\ j \notin again => job[j].status = "succeeded"

\* Unless an export was asked for over the remains of another, all the page
\* still has under way is about the export asked for last.
RemainsOfLast ==
    ~raced =>
        /\ creating \subseteq {last}
        /\ timers # {} => exportJob = last
        /\ \A i \in Slots : polls[i] # NoPoll => polls[i].job = last

SearchInductive ==
    /\ ServerTypeOK /\ PageTypeOK
    /\ ZipsAreClosed /\ DownloadsSucceeded
    /\ RemainsOfLast /\ OffersLastExport

ServerInductive == ServerTypeOK /\ ZipsAreClosed /\ DownloadsSucceeded

-----------------------------------------------------------------------------
(* The server *)

LEMMA ServerStarts == ServerInit => ServerInductive
  BY ExportConstants
     DEF ServerInit, ServerInductive, ServerTypeOK, ZipsAreClosed, DownloadsSucceeded,
         Statuses, Stages

\* The creation of an export: no action of it makes or leaves a success.
LEMMA ServeKeepsServer ==
  ASSUME ServerInductive, NEW j \in Jobs,
         SendExport(j) \/ CommitExport(j) \/ AbortExport(j)
  PROVE  ServerInductive'
<1> USE DEF ServerInductive, ServerTypeOK, Statuses, Stages, SetStatus, Step
<1>1. CASE SendExport(j)
  BY <1>1 DEF SendExport, ZipsAreClosed, DownloadsSucceeded
<1>2. CASE CommitExport(j)
  BY <1>2 DEF CommitExport, ZipsAreClosed, DownloadsSucceeded
<1>3. CASE AbortExport(j)
  BY <1>3 DEF AbortExport, ZipsAreClosed, DownloadsSucceeded
<1>4. QED
  BY <1>1, <1>2, <1>3

\* The task: it touches the zip only while the job is not a success, and a
\* success follows a closed zip.
LEMMA WorkKeepsServer ==
  ASSUME ServerInductive, NEW j \in Jobs, Work(j)
  PROVE  ServerInductive'
<1> USE DEF ServerInductive, ServerTypeOK, Statuses, Stages, Committed, SetStatus, Step
<1>1. CASE TaskTooEarly(j)
  BY <1>1 DEF TaskTooEarly, Drop, ZipsAreClosed, DownloadsSucceeded
<1>2. CASE TaskStarts(j)
  BY <1>2 DEF TaskStarts, ZipsAreClosed, DownloadsSucceeded
<1>3. CASE TaskStartFails(j)
  BY <1>3 DEF TaskStartFails, Drop, ZipsAreClosed, DownloadsSucceeded
<1>4. CASE TaskOpensZip(j)
  BY <1>4 DEF TaskOpensZip, ZipsAreClosed, DownloadsSucceeded
<1>5. CASE TaskClosesZip(j)
  BY <1>5 DEF TaskClosesZip, ZipsAreClosed, DownloadsSucceeded
<1>6. CASE TaskSucceeds(j)
  BY <1>6 DEF TaskSucceeds, AfterWriting, ZipsAreClosed, DownloadsSucceeded
<1>7. CASE TaskFails(j)
  BY <1>7 DEF TaskFails, ZipsAreClosed, DownloadsSucceeded
<1>8. CASE HandlerFails(j)
  BY <1>8 DEF HandlerFails, Drop, ZipsAreClosed, DownloadsSucceeded
<1>9. CASE TaskAcked(j)
  BY <1>9 DEF TaskAcked, ZipsAreClosed, DownloadsSucceeded
<1>10. QED
  BY <1>1, <1>2, <1>3, <1>4, <1>5, <1>6, <1>7, <1>8, <1>9 DEF Work

LEMMA ServerStepKeepsServer ==
  ASSUME ServerInductive, NEW j \in Jobs, ServerStep(j)
  PROVE  ServerInductive'
<1> USE DEF ServerInductive, ServerTypeOK, Statuses, Stages, Step
<1>1. CASE Work(j)
  BY <1>1, WorkKeepsServer
<1>2. CASE WorkerDies(j)
  <2>1. crashes' \in 0..MaxCrashes
    BY <1>2, ExportConstants DEF WorkerDies
  <2>2. QED
    BY <1>2, <2>1 DEF WorkerDies, AfterCrash, ZipsAreClosed, DownloadsSucceeded
<1>3. CASE DownloadChecked(j)
  BY <1>3 DEF DownloadChecked, Offers, ZipsAreClosed, DownloadsSucceeded
<1>4. CASE DownloadSent
  BY <1>4, ExportConstants DEF DownloadSent, ZipsAreClosed, DownloadsSucceeded
<1>5. QED
  BY <1>1, <1>2, <1>3, <1>4 DEF ServerStep

\* A download that was allowed reads a whole zip, unless the job's task ran
\* again: the check of the row and the read of the file are two steps
\* (search.py, download_export and its FileResponse).
LEMMA SuccessIsWhole == ServerInductive => DownloadIsWhole
  BY DEF ServerInductive, ZipsAreClosed, DownloadsSucceeded, DownloadIsWhole

-----------------------------------------------------------------------------
(* The page *)

ExportParts == StoreTypeOK /\ VisitTypeOK /\ RemainsOfLast /\ OffersLastExport

LEMMA InductiveParts == SearchInductive <=> ServerInductive /\ SearchTypeOK /\ ExportParts
  BY DEF SearchInductive, ServerInductive, PageTypeOK, ExportParts

LEMMA PageStarts == Init => SearchTypeOK /\ ExportParts
<1> SUFFICES ASSUME Init PROVE SearchTypeOK /\ ExportParts
  OBVIOUS
<1>1. SearchTypeOK
  BY DEF Init, SearchTypeOK
<1>2. StoreTypeOK
  BY DEF Init, StoreTypeOK, NoPoll, Answers
<1>3. VisitTypeOK
  BY StoreConstants DEF Init, VisitTypeOK, Visits
<1>4. RemainsOfLast /\ OffersLastExport
  BY DEF Init, RemainsOfLast, OffersLastExport
<1>5. QED
  BY <1>1, <1>2, <1>3, <1>4 DEF ExportParts

LEMMA SearchSteps ==
  ASSUME SearchTypeOK, Search \/ \E n \in flight : SearchAnswered(n)
  PROVE  SearchTypeOK'
<1>1. CASE Search
  BY <1>1 DEF Search, SearchTypeOK
<1>2. ASSUME NEW n \in flight, SearchAnswered(n) PROVE SearchTypeOK'
  <2>1. /\ asked' = asked /\ flight' = flight \ {n}
        /\ results' = n \/ results' = 0
        /\ loading' = FALSE
    BY <1>2 DEF SearchAnswered
  <2>2. results' \in Nat
    BY <2>1 DEF SearchTypeOK
  <2>3. asked' \in Nat /\ flight' \subseteq Nat /\ loading' \in BOOLEAN
    BY <2>1 DEF SearchTypeOK
  <2>4. QED
    BY <2>2, <2>3 DEF SearchTypeOK
<1>3. QED
  BY <1>1, <1>2

\* A visit that stops its timer keeps its types, and starts none.
LEMMA StopKeeps ==
  ASSUME VisitTypeOK, NEW v \in Visits, StopTimer(v)
  PROVE  /\ timers' \subseteq timers
         /\ pollTimer' \in [Visits -> Jobs \cup {None}]
  BY DEF VisitTypeOK, StopTimer

\* An export asked for with nothing left of another one starts afresh.
LEMMA StartExportKeeps ==
  ASSUME ExportParts, NEW j \in Jobs, StartExport(j)
  PROVE  ExportParts'
<1> USE DEF ExportParts, StartExport
<1>1. StoreTypeOK' /\ VisitTypeOK'
  BY DEF StoreTypeOK, VisitTypeOK, ClearedOffer
<1>2. RemainsOfLast'
  BY DEF RemainsOfLast
<1>3. OffersLastExport'
  BY DEF OffersLastExport, ClearedOffer
<1>4. QED
  BY <1>1, <1>2, <1>3

LEMMA CreatedKeeps ==
  ASSUME ExportParts, NEW j \in Jobs, Created(j) \/ CreateFailed(j)
  PROVE  ExportParts'
<1> USE DEF ExportParts
<1>1. CASE Created(j)
  <2>1. StoreTypeOK' /\ VisitTypeOK'
    BY <1>1 DEF StoreTypeOK, VisitTypeOK, Created
  <2>2. RemainsOfLast' /\ OffersLastExport'
    BY <1>1 DEF RemainsOfLast, OffersLastExport, Created
  <2>3. QED
    BY <2>1, <2>2
<1>2. CASE CreateFailed(j)
  BY <1>2 DEF StoreTypeOK, VisitTypeOK, RemainsOfLast, OffersLastExport, CreateFailed, pageVars
<1>3. QED
  BY <1>1, <1>2

\* A timer asks about the job the page remembers, which is the last one's while
\* its timer lives.
LEMMA TickKeeps ==
  ASSUME ExportParts, NEW t \in timers, Tick(t)
  PROVE  ExportParts'
<1> USE DEF ExportParts
<1>1. PICK i \in Slots : polls' = [polls EXCEPT ![i] = [job |-> exportJob, answer |-> "sent"]]
  BY DEF Tick
<1>2. /\ timers' \subseteq timers /\ pollTimer' \in [Visits -> Jobs \cup {None}]
      /\ UNCHANGED <<exportJob, exportPolling, offered, creating, last, raced, visit, open, asker>>
  BY StopKeeps DEF Tick, VisitTypeOK
<1>3. StoreTypeOK' /\ VisitTypeOK'
  BY <1>1, <1>2 DEF StoreTypeOK, VisitTypeOK, Answers
<1>4. OffersLastExport'
  BY <1>2 DEF OffersLastExport
<1>5. RemainsOfLast'
  <2> SUFFICES ASSUME ~raced PROVE RemainsOfLast'
    BY <1>2 DEF RemainsOfLast
  <2>1. exportJob = last
    BY DEF RemainsOfLast
  <2>2. ASSUME NEW k \in Slots, polls'[k] # NoPoll PROVE polls'[k].job = last
    <3>1. CASE k = i
      BY <1>1, <2>1, <3>1 DEF StoreTypeOK
    <3>2. CASE k # i
      BY <1>1, <2>2, <3>2 DEF StoreTypeOK, RemainsOfLast
    <3>3. QED
      BY <3>1, <3>2
  <2>3. QED
    BY <1>2, <2>2 DEF RemainsOfLast
<1>6. QED
  BY <1>3, <1>4, <1>5

LEMMA ServePollKeeps ==
  ASSUME ExportParts, NEW i \in Slots, ServePoll(i)
  PROVE  ExportParts'
<1> USE DEF ExportParts
<1>1. PICK answer \in {"offered", "ended", "working"} :
        polls' = [polls EXCEPT ![i].answer = answer]
  BY DEF ServePoll
<1>2. polls[i] # NoPoll
  BY DEF ServePoll, NoPoll
<1>3. UNCHANGED <<exportJob, exportPolling, offered, creating, last, raced>> /\ UNCHANGED pageVars
  BY DEF ServePoll
<1>4. StoreTypeOK' /\ VisitTypeOK'
  BY <1>1, <1>3 DEF StoreTypeOK, VisitTypeOK, pageVars, Answers
<1>5. OffersLastExport'
  BY <1>3 DEF OffersLastExport, pageVars
<1>6. RemainsOfLast'
  <2>1. \A k \in Slots : polls'[k] # NoPoll => polls[k] # NoPoll /\ polls'[k].job = polls[k].job
    BY <1>1, <1>2 DEF StoreTypeOK
  <2>2. QED
    BY <1>3, <2>1 DEF RemainsOfLast, pageVars
<1>7. QED
  BY <1>4, <1>5, <1>6

LEMMA PollEndsKeeps ==
  ASSUME ExportParts, NEW i \in Slots, PollAnswered(i) \/ PollFailed(i)
  PROVE  ExportParts'
<1> USE DEF ExportParts
<1>1. polls' = [polls EXCEPT ![i] = NoPoll] /\ polls[i] # NoPoll
      /\ offered' \in {offered, polls[i].job, None}
      /\ UNCHANGED <<exportJob, creating, last, raced, visit, open, asker, timers, pollTimer>>
  <2>1. CASE PollAnswered(i)
    BY <2>1 DEF PollAnswered, NoPoll, pageVars
  <2>2. CASE PollFailed(i)
    BY <2>2 DEF PollFailed, pageVars
  <2>3. QED
    BY <2>1, <2>2
<1>0. exportPolling' \in BOOLEAN
  BY DEF PollAnswered, PollFailed
<1>2. StoreTypeOK' /\ VisitTypeOK'
  BY <1>1, <1>0 DEF StoreTypeOK, VisitTypeOK, NoPoll, Answers
<1>3. RemainsOfLast'
  BY <1>1 DEF StoreTypeOK, RemainsOfLast
<1>4. OffersLastExport'
  BY <1>1 DEF RemainsOfLast, OffersLastExport
<1>5. QED
  BY <1>2, <1>3, <1>4

\* The page is left, or opened again over the same store.
LEMMA VisitsKeep ==
  ASSUME ExportParts, crashes \in Nat, Leave \/ Return
  PROVE  ExportParts'
<1> USE DEF ExportParts
<1>1. timers' \subseteq timers /\ UNCHANGED storeVars
  BY StopKeeps DEF Leave, Return, VisitTypeOK
<1>2. StoreTypeOK' /\ RemainsOfLast' /\ OffersLastExport'
  BY <1>1 DEF storeVars, StoreTypeOK, RemainsOfLast, OffersLastExport, NoPoll
<1>3. CASE Leave
  <2>1. pollTimer' \in [Visits -> Jobs \cup {None}] /\ open' \in BOOLEAN
        /\ UNCHANGED <<visit, asker>>
    BY <1>3, StopKeeps DEF Leave, VisitTypeOK
  <2>2. VisitTypeOK'
    BY <1>1, <2>1 DEF VisitTypeOK
  <2>3. QED
    BY <1>2, <2>2
<1>4. CASE Return
  <2>1. visit' = visit + 1 /\ visit + crashes < MaxEvents /\ open' = TRUE
        /\ UNCHANGED <<asker, timers, pollTimer>>
    BY <1>4 DEF Return
  <2>2. visit' \in Visits
    BY <2>1, StoreConstants DEF VisitTypeOK, Visits
  <2>3. VisitTypeOK'
    BY <2>1, <2>2 DEF VisitTypeOK
  <2>4. QED
    BY <1>2, <2>3
<1>5. QED
  BY <1>3, <1>4

-----------------------------------------------------------------------------
(* The three together *)

LEMMA SearchUnchanged == SearchTypeOK /\ UNCHANGED searchVars => SearchTypeOK'
  BY DEF SearchTypeOK, searchVars

LEMMA ExportUnchanged == ExportParts /\ UNCHANGED exportVars => ExportParts'
  BY DEF ExportParts, StoreTypeOK, VisitTypeOK, exportVars, storeVars, pageVars, RemainsOfLast,
         OffersLastExport, NoPoll

LEMMA ServerUnchanged == ServerInductive /\ UNCHANGED serverVars => ServerInductive'
  BY DEF ServerInductive, ServerTypeOK, serverVars, ZipsAreClosed, DownloadsSucceeded

LEMMA PageStep ==
  ASSUME ServerInductive, SearchTypeOK, ExportParts, Next
  PROVE  ServerInductive' /\ SearchTypeOK' /\ ExportParts'
<1>1. CASE Search \/ \E n \in flight : SearchAnswered(n)
  <2>1. UNCHANGED serverVars /\ UNCHANGED exportVars
    BY <1>1 DEF Search, SearchAnswered
  <2>2. QED
    BY <1>1, <2>1, SearchSteps, ServerUnchanged, ExportUnchanged
<1>2. ASSUME NEW j \in Jobs, StartExport(j) \/ Created(j) \/ CreateFailed(j)
      PROVE  ServerInductive' /\ SearchTypeOK' /\ ExportParts'
  <2>1. UNCHANGED serverVars /\ UNCHANGED searchVars
    BY <1>2 DEF StartExport, Created, CreateFailed
  <2>2. QED
    BY <1>2, <2>1, StartExportKeeps, CreatedKeeps, ServerUnchanged, SearchUnchanged
<1>3. ASSUME NEW j \in Jobs, ServeCreate(j) \/ Server(j)
      PROVE  ServerInductive' /\ SearchTypeOK' /\ ExportParts'
  <2>1. UNCHANGED searchVars /\ UNCHANGED exportVars
    BY <1>3 DEF ServeCreate, Server
  <2>2. SendExport(j) \/ CommitExport(j) \/ AbortExport(j) \/ ServerStep(j)
    BY <1>3 DEF ServeCreate, Server
  <2>3. QED
    BY <2>1, <2>2, ServeKeepsServer, ServerStepKeepsServer, SearchUnchanged, ExportUnchanged
<1>4. ASSUME NEW t \in timers, Tick(t)
      PROVE  ServerInductive' /\ SearchTypeOK' /\ ExportParts'
  <2>1. UNCHANGED serverVars /\ UNCHANGED searchVars
    BY <1>4 DEF Tick
  <2>2. QED
    BY <1>4, <2>1, TickKeeps, ServerUnchanged, SearchUnchanged
<1>5. ASSUME NEW i \in Slots, ServePoll(i) \/ PollAnswered(i) \/ PollFailed(i)
      PROVE  ServerInductive' /\ SearchTypeOK' /\ ExportParts'
  <2>1. UNCHANGED serverVars /\ UNCHANGED searchVars
    BY <1>5 DEF ServePoll, PollAnswered, PollFailed
  <2>2. QED
    BY <1>5, <2>1, ServePollKeeps, PollEndsKeeps, ServerUnchanged, SearchUnchanged
<1>6. CASE Leave \/ Return
  <2>1. UNCHANGED serverVars /\ UNCHANGED searchVars
    BY <1>6 DEF Leave, Return
  <2>2. crashes \in Nat
    BY ExportConstants DEF ServerInductive, ServerTypeOK
  <2>3. QED
    BY <1>6, <2>1, <2>2, VisitsKeep, ServerUnchanged, SearchUnchanged
<1>7. QED
  BY <1>1, <1>2, <1>3, <1>4, <1>5, <1>6 DEF Next

\* The invariant of the search page and the exports behind it.
THEOREM SearchInvariant == Spec => []SearchInductive
<1>1. Init => SearchInductive
  BY ServerStarts, PageStarts, InductiveParts DEF Init
<1>2. SearchInductive /\ [Next]_vars => SearchInductive'
  <2> SUFFICES ASSUME SearchInductive, [Next]_vars PROVE SearchInductive'
    OBVIOUS
  <2>1. ServerInductive /\ SearchTypeOK /\ ExportParts
    BY InductiveParts
  <2>2. CASE Next
    <3>1. ServerInductive' /\ SearchTypeOK' /\ ExportParts'
      BY <2>1, <2>2, PageStep
    <3>2. QED
      BY <3>1 DEF SearchInductive, ServerInductive, PageTypeOK, ExportParts
  <2>3. CASE UNCHANGED vars
    <3>1. ServerInductive' /\ SearchTypeOK' /\ ExportParts'
      BY <2>1, <2>3, ServerUnchanged, SearchUnchanged, ExportUnchanged DEF vars
    <3>2. QED
      BY <3>1 DEF SearchInductive, ServerInductive, PageTypeOK, ExportParts
  <2>4. QED
    BY <2>2, <2>3
<1>3. QED
  BY <1>1, <1>2, PTL DEF Spec

\* A download that was allowed reads a whole zip, for any number of exports and
\* deaths of the worker, unless the task ran again after its success was
\* committed: download_export checks the row, and the file is read later.
THEOREM DownloadsAreWhole == Spec => []DownloadIsWhole
<1>1. SearchInductive => DownloadIsWhole
  BY InductiveParts, SuccessIsWhole
<1>2. QED
  BY <1>1, SearchInvariant, PTL

\* The download offered is of the export asked for last and only its timer
\* ticks, unless it was asked for over the remains of an earlier one.
THEOREM LastExportIsOffered == Spec => []OffersLastExport
<1>1. SearchInductive => OffersLastExport
  BY DEF SearchInductive
<1>2. QED
  BY <1>1, SearchInvariant, PTL
=============================================================================
