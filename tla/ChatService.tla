---------------------------- MODULE ChatService ----------------------------
(***************************************************************************)
(* The server's side of a chat: POST /chat/stream from the session check   *)
(* to the stored turn, beside the hard deletion of documents and of        *)
(* knowledge bases.  A stream commits its session first, retrieves, sends  *)
(* its references, generates for as long as the model takes, and stores    *)
(* the turn in a transaction of its own; a deletion purges the citations   *)
(* it can see and commits later.  chat_message_citations has no foreign    *)
(* key to documents, so nothing but this order keeps the two apart.        *)
(***************************************************************************)
EXTENDS Naturals, Sequences, FiniteSets

CONSTANTS
    KBs, Docs,
    Turns,     \* questions; a session has the name of the turn that opened it
    KbOf,      \* the knowledge base of every document
    None,
    ChatK,     \* chat_topk: the most documents one answer cites
    MaxGone    \* bound: no deletion starts once so many rows are gone

Sessions == Turns

ASSUME ChatConstants ==
    /\ KbOf \in [Docs -> KBs]
    /\ None \notin KBs \cup Docs \cup Turns
    /\ "absent" \notin KBs \cup {None}
    /\ Turns \subseteq Nat
    /\ ChatK \in Nat
    /\ MaxGone \in Nat

VARIABLES
    kbs,       \* rows of knowledge_bases
    docs,      \* documents retrieval can see
    sessKb,    \* ChatSession.knowledge_base_id; "absent" before the session is made
    rows,      \* stored turns, oldest first
    stream,    \* the SSE generator of every turn
    deleting,  \* the deletion transaction in progress
    overlap,   \* history: <<turn, document>> cited while the document was deleted
    late,      \* history: sessions bound to a knowledge base while it was deleted
    raced      \* history: sessions that two requests found unbound at a time

serviceVars == <<kbs, docs, sessKb, rows, stream, deleting, overlap, late, raced>>

Generating == {"chosen", "fallback"}
InTry == Generating \cup {"no_hit"}
\* Between the check of the session and the commit: with or without a row to write.
Checked == {"checked", "binding"}
Phases == {"idle", "accepted", "finally", "done", "closed"} \cup InTry \cup Checked
Finishes == {"none", "stop", "no_hit", "error"}
Row == [turn: Turns, session: Sessions, cites: SUBSET Docs,
        finish: Finishes, models: SUBSET InTry]
Quiet(phase) == [phase |-> phase, session |-> None, kb |-> None,
                 cited |-> {}, models |-> {}, finish |-> "none"]
StreamState == [phase: Phases, session: Sessions \cup {None}, kb: KBs \cup {None},
                cited: SUBSET Docs, models: SUBSET InTry, finish: Finishes]
Deletion == [ds: SUBSET Docs, kb: KBs \cup {None}, unbound: SUBSET Sessions, seen: Nat]

ServiceTypeOK ==
    /\ kbs \in SUBSET KBs
    /\ docs \in SUBSET Docs
    /\ sessKb \in [Sessions -> KBs \cup {None, "absent"}]
    /\ rows \in Seq(Row)
    /\ stream \in [Turns -> StreamState]
    /\ deleting \in {None} \cup Deletion
    /\ overlap \in SUBSET (Turns \X Docs)
    /\ late \in SUBSET Sessions
    /\ raced \in SUBSET Sessions

ServiceInit ==
    /\ kbs = KBs
    /\ docs = Docs
    /\ sessKb = [s \in Sessions |-> "absent"]
    /\ rows = <<>>
    /\ stream = [t \in Turns |-> Quiet("idle")]
    /\ deleting = None
    /\ overlap = {}
    /\ late = {}
    /\ raced = {}

-----------------------------------------------------------------------------
(***************************************************************************)
(* chat_stream up to its commit.                                           *)
(***************************************************************************)
\* Mutation: the session's knowledge base is not compared with the request's.
AnySession(s, k) == sessKb[s] # "absent"

\* A session answers for one knowledge base; one that was unbound takes any.
SessionFits(s, k) == sessKb[s] \in {k, None}

\* The request is refused: no such knowledge base, or the session has another.
Refused(k, s) == k \notin kbs \/ (s # None /\ ~SessionFits(s, k))

SessionFor(t, s) == IF s = None THEN t ELSE s

\* The check reads the session's row; a session found unbound is bound in memory,
\* a new one is made, and either is written at the commit.
CheckSession(t, k, s) ==
    /\ stream[t].phase = "idle"
    /\ ~Refused(k, s)
    /\ LET id == SessionFor(t, s)
           next == IF s # None /\ sessKb[s] = k THEN "checked" ELSE "binding"
       IN
        /\ stream' = [stream EXCEPT ![t].phase = next, ![t].session = id, ![t].kb = k]
        /\ raced' = IF /\ next = "binding"
                       /\ \E u \in Turns : stream[u].phase = "binding" /\ stream[u].session = id
                    THEN raced \cup {id} ELSE raced
    /\ UNCHANGED <<kbs, docs, sessKb, rows, deleting, overlap, late>>

\* The commit writes the binding whatever the row holds by now.  It waits for a
\* deletion that has updated the row, and the foreign key asks for the knowledge
\* base to be there: otherwise the request ends as in Disconnect.
BeginStream(t) ==
    /\ stream[t].phase \in Checked
    /\ stream' = [stream EXCEPT ![t].phase = "accepted"]
    /\ IF stream[t].phase = "checked"
       THEN UNCHANGED <<sessKb, late>>
       ELSE LET id == stream[t].session
                k == stream[t].kb
            IN  /\ k \in kbs
                /\ deleting # None => id \notin deleting.unbound
                /\ sessKb' = [sessKb EXCEPT ![id] = k]
                /\ late' = IF deleting # None /\ deleting.kb = k THEN late \cup {id} ELSE late
    /\ UNCHANGED <<kbs, docs, rows, deleting, overlap, raced>>

\* The request comes to nothing: refused as above, or lost on its way.
Reject(t) ==
    /\ stream[t].phase = "idle"
    /\ stream' = [stream EXCEPT ![t] = Quiet("closed")]
    /\ UNCHANGED <<kbs, docs, sessKb, rows, deleting, overlap, late, raced>>

-----------------------------------------------------------------------------
(***************************************************************************)
(* event_gen: one action between two events or two commits.                *)
(***************************************************************************)
Visible(k) == {d \in docs : KbOf[d] = k}

\* prepare_citations and the references event.  Which of the visible documents
\* rank among the first ChatK is left open; without a candidate there is no hit
\* (the default threshold lies below every fused score).
Retrieve(t) ==
    /\ stream[t].phase = "accepted"
    /\ \E c \in SUBSET Visible(stream[t].kb) :
        /\ Cardinality(c) <= ChatK
        /\ stream' = [stream EXCEPT ![t].cited = c,
                                    ![t].phase = IF c = {} THEN "no_hit" ELSE "chosen"]
        /\ overlap' = IF deleting = None THEN overlap
                      ELSE overlap \cup {<<t, d>> : d \in c \cap deleting.ds}
    /\ UNCHANGED <<kbs, docs, sessKb, rows, deleting, late, raced>>

StreamStep(t, next) ==
    /\ stream' = [stream EXCEPT ![t] = next]
    /\ UNCHANGED <<kbs, docs, sessKb, rows, deleting, overlap, late, raced>>

\* A content (or reasoning) event of the model that is streaming.
Delta(t) ==
    /\ stream[t].phase \in Generating
    /\ StreamStep(t, [stream[t] EXCEPT !.models = @ \cup {stream[t].phase}])

\* Mutation: the model may also be rate limited in mid-answer.
RefusedAnytime(t) == TRUE

\* The client sees HTTP 429 on the response's status line, before any event.
RateLimitedBeforeFirst(t) == stream[t].models = {}

\* generate_stream_events falls back to the second model, once.
FallBack(t) ==
    /\ stream[t].phase = "chosen"
    /\ RateLimitedBeforeFirst(t)
    /\ StreamStep(t, [stream[t] EXCEPT !.phase = "fallback"])

\* The generation ends; an answer that says there is no evidence is a no_hit.
Generated(t) ==
    /\ stream[t].phase \in Generating
    /\ \E f \in {"stop"} \cup IF stream[t].models = {} THEN {} ELSE {"no_hit"} :
        StreamStep(t, [stream[t] EXCEPT !.phase = "finally", !.finish = f])

NoHitAnswer(t) ==
    /\ stream[t].phase = "no_hit"
    /\ StreamStep(t, [stream[t] EXCEPT !.phase = "finally", !.finish = "no_hit",
                                       !.models = {"no_hit"}])

\* Any exception of the generation is told to the client and ends it.
LlmFails(t) ==
    /\ stream[t].phase \in Generating
    /\ StreamStep(t, [stream[t] EXCEPT !.phase = "finally", !.finish = "error"])

VisibleCitations(t) == IF stream[t].finish = "no_hit" THEN {} ELSE stream[t].cited

\* _persist_turn, in its own session; a database error is swallowed.
Persist(t) ==
    /\ stream[t].phase = "finally"
    /\ stream' = [stream EXCEPT ![t].phase = "done"]
    /\ \/ rows' = Append(rows, [turn |-> t, session |-> stream[t].session,
                                cites |-> VisibleCitations(t),
                                finish |-> stream[t].finish, models |-> stream[t].models])
       \/ UNCHANGED rows
    /\ UNCHANGED <<kbs, docs, sessKb, deleting, overlap, late, raced>>

\* The done event; the response ends.
Done(t) ==
    /\ stream[t].phase = "done"
    /\ StreamStep(t, Quiet("closed"))

\* The client is gone (or the process, or the first commit fails): the request
\* ends and stores nothing, or is closed at a yield and stores the partial answer.
Disconnect(t) ==
    /\ stream[t].phase \notin {"idle", "closed"}
    /\ \/ StreamStep(t, Quiet("closed"))
       \/ /\ stream[t].phase \in InTry
          /\ StreamStep(t, [stream[t] EXCEPT !.phase = "finally"])

-----------------------------------------------------------------------------
(***************************************************************************)
(* hard_delete_documents and hard_delete_knowledge_base: what the          *)
(* transaction read when it started, and its commit.                       *)
(***************************************************************************)
InFlight(t) == stream[t].phase \notin {"idle", "closed"}

\* Mutation: the deletion forgets the citations that chats hold.
KeepCitations(ds, cites) == cites

PurgeCitations(ds, cites) == cites \ ds

\* Mutation: the deletion leaves the sessions of the knowledge base alone.
KeepSessions(k) == {}

BoundSessions(k) == {s \in Sessions : k # None /\ sessKb[s] = k}

DeleteBegin(ds, k) ==
    /\ deleting = None
    /\ Cardinality(KBs \ kbs) + Cardinality(Docs \ docs) < MaxGone
    /\ deleting' = [ds |-> ds, kb |-> k, unbound |-> BoundSessions(k), seen |-> Len(rows)]
    /\ overlap' = overlap \cup {p \in Turns \X ds : InFlight(p[1]) /\ p[2] \in stream[p[1]].cited}
    /\ UNCHANGED <<kbs, docs, sessKb, rows, stream, late, raced>>

DeleteDocumentBegin(d) == d \in docs /\ DeleteBegin({d}, None)

DeleteKbBegin(k) == k \in kbs /\ DeleteBegin({d \in Docs : KbOf[d] = k}, k)

\* Foreign-key checks are off for the parent's row: what was bound to the
\* knowledge base meanwhile keeps its id.
DeleteCommit ==
    /\ deleting # None
    /\ docs' = docs \ deleting.ds
    /\ kbs' = kbs \ {deleting.kb}
    /\ sessKb' = [s \in Sessions |-> IF s \in deleting.unbound THEN None ELSE sessKb[s]]
    /\ rows' = [i \in DOMAIN rows |->
                  IF i > deleting.seen THEN rows[i]
                  ELSE [rows[i] EXCEPT !.cites = PurgeCitations(deleting.ds, @)]]
    /\ deleting' = None
    /\ UNCHANGED <<stream, overlap, late, raced>>

DeleteAborts ==
    /\ deleting # None
    /\ deleting' = None
    /\ UNCHANGED <<kbs, docs, sessKb, rows, stream, overlap, late, raced>>

-----------------------------------------------------------------------------
StreamNext(t) ==
    \/ BeginStream(t) \/ Retrieve(t) \/ Delta(t) \/ FallBack(t) \/ Generated(t)
    \/ NoHitAnswer(t) \/ LlmFails(t) \/ Persist(t) \/ Done(t)

DeletionNext ==
    \/ \E d \in Docs : DeleteDocumentBegin(d)
    \/ \E k \in KBs : DeleteKbBegin(k)
    \/ DeleteCommit
    \/ DeleteAborts

ServiceNext ==
    \/ \E t \in Turns, k \in KBs, s \in Sessions \cup {None} : CheckSession(t, k, s)
    \/ \E t \in Turns : Reject(t) \/ StreamNext(t) \/ Disconnect(t)
    \/ DeletionNext

ServiceSpec == ServiceInit /\ [][ServiceNext]_serviceVars

-----------------------------------------------------------------------------
(***************************************************************************)
(* What the service promises.                                              *)
(***************************************************************************)
\* A stored citation points at a document that exists, unless its answer was
\* on its way while that document was being deleted (chat.py:333 stores what
\* was retrieved minutes before; deletion.py:70 purges what is stored by then).
CitationsResolve ==
    \A i \in DOMAIN rows : \A d \in rows[i].cites :
        d \in docs \/ <<rows[i].turn, d>> \in overlap

\* The citations of a conversation all come from the knowledge base its session
\* is bound to, although sessions are unbound by one deletion and bound again
\* by a later request (chat.py:226-232), unless a deletion overlapped the answer
\* or two requests found the session unbound at a time.
SessionCitesItsKb ==
    \A i \in DOMAIN rows : \A d \in rows[i].cites :
        \/ KbOf[d] = sessKb[rows[i].session]
        \/ <<rows[i].turn, d>> \in overlap
        \/ rows[i].session \in raced

\* A session that is bound to a knowledge base is not bound to another one before
\* it is unbound (docs/hard-delete-lifecycle-2026-05-13.md:54); two requests that
\* find it unbound, one after the other's check, break it (chat.py:223, :239).
BoundSessionsStay ==
    [][\A s \in Sessions : sessKb[s] \in KBs => sessKb'[s] \in {sessKb[s], None}]_serviceVars

\* A session's knowledge base exists, or it was bound to it by a request that
\* ran while the knowledge base was being deleted (deletion.py:116 unbinds the
\* sessions it sees); such a session refuses every later request.
BindingAlive ==
    \A s \in Sessions : sessKb[s] \in kbs \cup {None, "absent"} \/ s \in late

\* An answer is never pieced together from two models (graph.py:340: the first
\* model's events are not taken back when the second one starts).
SingleModelAnswer ==
    \A t \in Turns : Cardinality(stream[t].models) <= 1
=============================================================================
