----------------------------- MODULE ChatStore -----------------------------
(***************************************************************************)
(* The browser's side of a chat: the pinia store and the handlers of the   *)
(* chat view.  The page is one thread: a handler runs to its end, and the  *)
(* user acts between two handlers.  After stop() the aborted fetch         *)
(* resolves before any other handler can run, so its finally block is part *)
(* of the same action.                                                     *)
(***************************************************************************)
EXTENDS ChatService, SequencesExt

VARIABLES
    activeSession,
    activeKb,
    messages,   \* assistant messages on the screen, each with the turn it answers
    latest,     \* latestReferences: the turn they came from and the documents
    streaming,
    live,       \* the turn whose stream feeds the store (abortController)
    pending,    \* pendingReferences of the live stream
    loading,    \* loadSession: the session asked for, its answer on the way
    moved       \* history: turns whose messages left the screen while they streamed

storeVars == <<activeSession, activeKb, messages, latest, streaming, live,
               pending, loading, moved>>

NoReferences == [turn |-> None, cites |-> {}]
Message == [turn: Turns, local: BOOLEAN, from: SUBSET Turns,
            status: {"streaming", "done", "error"}, cites: SUBSET Docs]

StoreTypeOK ==
    /\ activeSession \in Sessions \cup {None}
    /\ activeKb \in KBs \cup {None}
    /\ messages \in Seq(Message)
    /\ latest \in [turn: Turns \cup {None}, cites: SUBSET Docs]
    /\ streaming \in BOOLEAN
    /\ live \in Turns \cup {None}
    /\ pending \in SUBSET Docs
    /\ loading \in Sessions \cup {None}
    /\ moved \in SUBSET Turns

StoreInit ==
    /\ activeSession = None
    /\ activeKb = IF KBs = {} THEN None ELSE CHOOSE k \in KBs : TRUE
    /\ messages = <<>>
    /\ latest = NoReferences
    /\ streaming = FALSE
    /\ live = None
    /\ pending = {}
    /\ loading = None
    /\ moved = {}

-----------------------------------------------------------------------------
\* Mutation: deltas go to the last message on the screen.
LastMessage(m, t) == m = Last(messages)

\* updateAssistant finds the message by its temporary id.
IsAssistant(m, t) == m.local /\ m.turn = t

Updated(t, Change(_)) ==
    [i \in DOMAIN messages |->
        IF IsAssistant(messages[i], t) THEN Change(messages[i]) ELSE messages[i]]

ReadyToSend == activeKb # None /\ ~streaming

\* sendQuestion up to streamChat's first await.
SendQuestion(t) ==
    /\ ReadyToSend
    /\ messages' = Append(messages, [turn |-> t, local |-> TRUE, from |-> {},
                                     status |-> "streaming", cites |-> {}])
    /\ latest' = NoReferences
    /\ streaming' = TRUE
    /\ live' = t
    /\ pending' = {}
    /\ UNCHANGED <<activeSession, activeKb, loading, moved>>

\* The request is refused: onerror, then catch and finally.
SendFails(t) ==
    /\ ReadyToSend
    /\ messages' = Append(messages, [turn |-> t, local |-> TRUE, from |-> {},
                                     status |-> "error", cites |-> {}])
    /\ latest' = NoReferences
    /\ UNCHANGED <<activeSession, activeKb, streaming, live, pending, loading, moved>>

OnReferences(session, cites) ==
    /\ activeSession' = session
    /\ pending' = cites
    /\ UNCHANGED <<activeKb, messages, latest, streaming, live, loading, moved>>

OnContent(t) ==
    /\ messages' = Updated(t, LAMBDA m : [m EXCEPT !.from = @ \cup {t}])
    /\ UNCHANGED <<activeSession, activeKb, latest, streaming, live, pending, loading, moved>>

OnError(t) ==
    /\ messages' = Updated(t, LAMBDA m : [m EXCEPT !.status = "error", !.cites = {}])
    /\ latest' = NoReferences
    /\ UNCHANGED <<activeSession, activeKb, streaming, live, pending, loading, moved>>

\* Mutation: the stream is only over when it was answered without an error.
EndsUnlessError(finish) == finish = "error"

\* finally: streaming = false, abortController = null.
StillStreaming(finish) == FALSE

\* onDone, and the end of the response.
OnDone(t, finish) ==
    LET shown == IF finish = "no_hit" THEN {} ELSE pending
    IN  /\ messages' = Updated(t, LAMBDA m : [m EXCEPT !.status = "done", !.cites = shown])
        /\ latest' = IF shown = {} THEN NoReferences ELSE [turn |-> t, cites |-> shown]
        /\ streaming' = StillStreaming(finish)
        /\ live' = IF StillStreaming(finish) THEN live ELSE None
        /\ pending' = IF StillStreaming(finish) THEN pending ELSE {}
        /\ UNCHANGED <<activeSession, activeKb, loading, moved>>

\* The connection ends without a done event: as an error, or as an end of file.
OnConnectionLost(t) ==
    /\ \/ /\ messages' = Updated(t, LAMBDA m : [m EXCEPT !.status = "error", !.cites = {}])
          /\ latest' = NoReferences
       \/ UNCHANGED <<messages, latest>>
    /\ streaming' = FALSE
    /\ live' = None
    /\ pending' = {}
    /\ UNCHANGED <<activeSession, activeKb, loading, moved>>

Stop ==
    /\ streaming
    /\ streaming' = FALSE
    /\ live' = None
    /\ pending' = {}
    /\ UNCHANGED <<activeSession, activeKb, messages, latest, loading, moved>>

-----------------------------------------------------------------------------
\* The turns on the screen whose stream is still running are moved away.
Leaving == moved \cup ({live} \ {None})

\* Mutation: the evidence panel keeps the references of the old conversation.
KeptReferences == latest

ClearedReferences == NoReferences

\* resetConversation
Reset(kb) ==
    /\ activeSession' = None
    /\ activeKb' = kb
    /\ messages' = <<>>
    /\ latest' = ClearedReferences
    /\ moved' = Leaving

\* handleKbChange, handleNewChat: both disabled while streaming.
NewConversation(kb) ==
    /\ ~streaming
    /\ Reset(kb)
    /\ UNCHANGED <<streaming, live, pending, loading>>

\* loadSession: the request leaves ...
AskSession(s) ==
    /\ loading = None
    /\ loading' = s
    /\ UNCHANGED <<activeSession, activeKb, messages, latest, streaming, live, pending, moved>>

\* The stored turns of a session, oldest first.
RowsOf(s) ==
    LET kept[n \in 0..Len(rows)] ==
            IF n = 0 THEN <<>>
            ELSE IF rows[n].session = s THEN Append(kept[n - 1], rows[n]) ELSE kept[n - 1]
    IN  kept[Len(rows)]

LoadedMessage(r) ==
    [turn |-> r.turn, local |-> FALSE, from |-> {r.turn}, status |-> "done",
     cites |-> IF r.finish = "no_hit" THEN {} ELSE r.cites]

\* ... and its answer replaces the conversation, whatever that is by then.  The
\* server is taken to read the session when it answers.
ShowSession ==
    LET kb == sessKb[loading]
        stored == RowsOf(loading)
        shown == [i \in DOMAIN stored |-> LoadedMessage(stored[i])]
    IN  /\ loading # None
        /\ activeSession' = loading
        /\ activeKb' = IF kb = None THEN activeKb ELSE kb
        /\ messages' = shown
        /\ latest' = IF shown = <<>> \/ Last(shown).cites = {} THEN NoReferences
                     ELSE [turn |-> Last(shown).turn, cites |-> Last(shown).cites]
        /\ loading' = None
        /\ moved' = Leaving
        /\ UNCHANGED <<streaming, live, pending>>

\* removeSession, after the server's answer (delete_session only hides the
\* session: a stream of it goes on, and so may its conversation).
SessionRemoved(s) ==
    /\ IF activeSession = s THEN Reset(activeKb)
       ELSE UNCHANGED <<activeSession, activeKb, messages, latest, moved>>
    /\ UNCHANGED <<streaming, live, pending, loading>>

-----------------------------------------------------------------------------
\* What a stream delivers lands in the message of its own question, also after
\* the user opened another conversation (chat.ts:165, by the message's id).
DeltasStayInTheirMessage ==
    \A i \in DOMAIN messages : messages[i].from \subseteq {messages[i].turn}

\* The evidence panel shows documents only for an answer on the screen, unless
\* the answer was still streaming when its conversation was left: onDone fills
\* the panel whatever is shown (chat.ts:216).
PanelMatchesScreen ==
    latest.cites # {} =>
        \/ \E i \in DOMAIN messages : /\ messages[i].turn = latest.turn
                                      /\ messages[i].cites = latest.cites
        \/ latest.turn \in moved
=============================================================================
