----------------------------- MODULE SearchStore ----------------------------
(***************************************************************************)
(* The search page against the server: searches whose answers arrive in    *)
(* any order, and an export that is asked for, polled by a timer and       *)
(* offered for download.  A timer is named by the export that started it;  *)
(* every visit of the page remembers one, the store outlives the visit.    *)
(***************************************************************************)
EXTENDS SearchExport

CONSTANTS
    MaxSearches,  \* bound: searches asked for
    Slots,        \* numbers; bound: status requests under way at a time
    MaxEvents     \* bound: visits of the page and deaths of the worker, together

ASSUME StoreConstants == MaxEvents \in Nat \ {0}

VARIABLES
    asked,      \* number of searches asked for: the last one is the newest
    flight,     \* searches under way
    results,    \* the search whose results are shown (0: none, or it failed)
    loading,
    exportJob, exportPolling, offered,   \* exportJobId, exportPolling, exportDownloadUrl
    creating,   \* POST /export requests under way
    visit, open,   \* how often the page was opened, and whether it is
    asker,      \* the visit in which every export was asked for
    timers,     \* live setInterval timers
    pollTimer,  \* the handle every visit keeps
    polls,      \* status requests: the job asked about and the answer
    last,       \* history: the export the user asked for last
    raced       \* history: it was asked for while requests or a timer were left

searchVars == <<asked, flight, results, loading>>
storeVars == <<exportJob, exportPolling, offered, creating, polls, last, raced>>
pageVars == <<visit, open, asker, timers, pollTimer>>
exportVars == <<storeVars, pageVars>>
vars == <<serverVars, searchVars, exportVars>>

Visits == 1..MaxEvents
NoPoll == [job |-> None, answer |-> "none"]
Answers == {"none", "sent", "working", "offered", "ended"}

Init ==
    /\ ServerInit
    /\ asked = 0 /\ flight = {} /\ results = 0 /\ loading = FALSE
    /\ exportJob = None /\ exportPolling = FALSE /\ offered = None
    /\ creating = {}
    /\ visit = 1 /\ open = TRUE /\ asker = [j \in Jobs |-> 1]
    /\ timers = {} /\ pollTimer = [v \in Visits |-> None]
    /\ polls = [i \in Slots |-> NoPoll]
    /\ last = None /\ raced = FALSE

-----------------------------------------------------------------------------
\* Bound: a behaviour searches or exports; the two share no variable.
Apart == last = None

\* search: by the button, Enter, a hot keyword or another page.
Search ==
    /\ asked < MaxSearches /\ Apart
    /\ asked' = asked + 1
    /\ flight' = flight \cup {asked + 1}
    /\ loading' = TRUE
    /\ UNCHANGED <<results, serverVars, exportVars>>

SearchAnswered(n) ==
    /\ n \in flight
    /\ flight' = flight \ {n}
    /\ results' \in {n, 0}
    /\ loading' = FALSE
    /\ UNCHANGED <<asked, serverVars, exportVars>>

-----------------------------------------------------------------------------
Unused(j) == job[j].status = "absent" /\ task[j] = "none" /\ j \notin creating

\* Mutation: the earlier offer stays until the next poll.
KeptOffer == offered

ClearedOffer == None

\* doExport: the button is disabled while exportPolling.
StartExport(j) ==
    /\ open /\ ~exportPolling /\ asked = 0
    /\ Unused(j) /\ \A i \in Jobs : i < j => ~Unused(i)
    /\ creating' = creating \cup {j}
    /\ exportPolling' = TRUE /\ offered' = ClearedOffer
    /\ last' = j
    /\ raced' = (creating # {} \/ timers # {} \/ \E i \in Slots : polls[i] # NoPoll)
    /\ asker' = [asker EXCEPT ![j] = visit]
    /\ UNCHANGED <<serverVars, searchVars, exportJob, polls, visit, open, timers, pollTimer>>

ServeCreate(j) ==
    /\ \/ j \in creating /\ SendExport(j)
       \/ CommitExport(j)
       \/ AbortExport(j)
    /\ UNCHANGED <<searchVars, exportVars>>

\* The job's id arrives; doExport, of a visit that may be over, starts the timer
\* if the store is polling.
Created(j) ==
    /\ j \in creating /\ Visible(j)
    /\ creating' = creating \ {j}
    /\ exportJob' = j
    /\ IF exportPolling
       THEN timers' = timers \cup {j} /\ pollTimer' = [pollTimer EXCEPT ![asker[j]] = j]
       ELSE UNCHANGED <<timers, pollTimer>>
    /\ UNCHANGED <<serverVars, searchVars, exportPolling, offered, polls, last, raced,
                   visit, open, asker>>

\* The request failed, or its answer was lost.
CreateFailed(j) ==
    /\ j \in creating
    /\ creating' = creating \ {j}
    /\ exportPolling' = FALSE
    /\ UNCHANGED <<serverVars, searchVars, exportJob, offered, polls, last, raced, pageVars>>

\* clearInterval of the timer a visit remembers.
StopTimer(v) ==
    /\ timers' = timers \ {pollTimer[v]}
    /\ pollTimer' = [pollTimer EXCEPT ![v] = None]

\* The timer's callback: ask, and stop the timer that its visit remembers.
Tick(t) ==
    /\ t \in timers
    /\ \E i \in Slots :
        /\ polls[i] = NoPoll /\ \A k \in Slots : k < i => polls[k] # NoPoll
        /\ polls' = [polls EXCEPT ![i] = [job |-> exportJob, answer |-> "sent"]]
    /\ IF exportPolling THEN UNCHANGED <<timers, pollTimer>> ELSE StopTimer(asker[t])
    /\ UNCHANGED <<serverVars, searchVars, exportJob, exportPolling, offered, creating, last, raced,
                   visit, open, asker>>

ServePoll(i) ==
    LET j == polls[i].job
        answer == CASE Offers(j) -> "offered"
                    [] job[j].status \in {"succeeded", "failed"} /\ ~Offers(j) -> "ended"
                    [] OTHER -> "working"
    IN
    /\ polls[i].answer = "sent" /\ Visible(j)
    /\ polls' = [polls EXCEPT ![i].answer = answer]
    /\ UNCHANGED <<serverVars, searchVars, exportJob, exportPolling, offered, creating,
                   last, raced, pageVars>>

\* Mutation: a status that ends the export does not end the polling.
EndsWhenOffered(a) == a = "offered"

EndsPolling(a) == a \in {"offered", "ended"}

PollAnswered(i) ==
    /\ polls[i].answer \in {"working", "offered", "ended"}
    /\ polls' = [polls EXCEPT ![i] = NoPoll]
    /\ offered' = IF polls[i].answer = "offered" THEN polls[i].job ELSE None
    /\ exportPolling' = (exportPolling /\ ~EndsPolling(polls[i].answer))
    /\ UNCHANGED <<serverVars, searchVars, exportJob, creating, last, raced, pageVars>>

PollFailed(i) ==
    /\ polls[i] # NoPoll
    /\ polls' = [polls EXCEPT ![i] = NoPoll]
    /\ exportPolling' = FALSE
    /\ UNCHANGED <<serverVars, searchVars, exportJob, offered, creating, last, raced, pageVars>>

-----------------------------------------------------------------------------
\* onUnmounted: the timer is stopped, and the store keeps what it has.  (Bound:
\* behaviours that search stay on the page, as under Apart.)
Leave ==
    /\ open /\ asked = 0
    /\ open' = FALSE
    /\ StopTimer(visit)
    /\ UNCHANGED <<serverVars, searchVars, storeVars, visit, asker>>

\* The page is opened anew: a component of its own over the same store.
Return ==
    /\ ~open /\ visit + crashes < MaxEvents
    /\ open' = TRUE /\ visit' = visit + 1
    /\ UNCHANGED <<serverVars, searchVars, storeVars, asker, timers, pollTimer>>

-----------------------------------------------------------------------------
Server(j) ==
    /\ ServerStep(j) /\ visit + crashes' <= MaxEvents
    /\ UNCHANGED <<searchVars, exportVars>>

Next ==
    \/ Search \/ \E n \in flight : SearchAnswered(n)
    \/ \E j \in Jobs : StartExport(j) \/ ServeCreate(j) \/ Created(j) \/ CreateFailed(j) \/ Server(j)
    \/ \E t \in timers : Tick(t)
    \/ \E i \in Slots : ServePoll(i) \/ PollAnswered(i) \/ PollFailed(i)
    \/ Leave \/ Return

Spec == Init /\ [][Next]_vars

\* The worker takes its tasks, requests are served or fail, timers tick.
Fairness ==
    /\ WF_vars(\E j \in Jobs : Work(j) /\ UNCHANGED <<searchVars, exportVars>>)
    /\ WF_vars(\E j \in Jobs : ServeCreate(j) \/ Created(j) \/ CreateFailed(j))
    /\ WF_vars(\E t \in timers : Tick(t))
    /\ \A i \in Slots : WF_vars(ServePoll(i) \/ PollAnswered(i) \/ PollFailed(i))

FairSpec == Spec /\ Fairness

-----------------------------------------------------------------------------
\* The download offered is of the export asked for last, and no timer but its
\* own is alive, unless it was asked for while a poll, a creation or a timer of
\* an earlier one was left: that poll's answer, or one more tick, offers the
\* earlier file and ends the polling (search.ts:86, SearchView.vue:65).
OffersLastExport ==
    ~raced => offered \in {None, last} /\ timers \subseteq {last}

\* The page does not poll for ever: the export ends though a worker may die on
\* the way, the polling ends and then the timer does, also one that is started
\* after its page was left, unless the task left the row unfinished (it ran
\* before search.py:151 committed the row, or its database calls failed outside
\* the try or in the handler, search_export.py:27-32, :133), or exports were
\* asked for so quickly that the page lost a timer's handle (SearchView.vue:64).
PollingEnds == timers # {} ~> (timers = {} \/ raced \/ last \in dropped)
=============================================================================
