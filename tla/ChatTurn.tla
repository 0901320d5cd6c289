------------------------------ MODULE ChatTurn ------------------------------
(***************************************************************************)
(* A chat as a whole: every event of the service is handled by the store   *)
(* in the step that sends it, if the store still listens to that stream;   *)
(* the service learns of a stopped stream some time later.  Deletions are  *)
(* steps of the service alone (ChatService!DeletionNext): not here.        *)
(***************************************************************************)
EXTENDS ChatStore

vars == <<serviceVars, storeVars>>

Init == ServiceInit /\ StoreInit

Deliver(t, Handler) == IF live = t THEN Handler ELSE UNCHANGED storeVars

\* The view sends the question with the store's knowledge base and session.
Ask(t) ==
    /\ \A u \in Turns : u < t => stream[u].phase # "idle"
    /\ \/ CheckSession(t, activeKb, activeSession) /\ SendQuestion(t)
       \/ Reject(t) /\ SendFails(t)

SendReferences(t) ==
    Retrieve(t) /\ Deliver(t, OnReferences(stream[t].session, stream'[t].cited))

SendContent(t) == Delta(t) /\ Deliver(t, OnContent(t))
SendNoHit(t) == NoHitAnswer(t) /\ Deliver(t, OnContent(t))
SendError(t) == LlmFails(t) /\ Deliver(t, OnError(t))
SendDone(t) == Done(t) /\ Deliver(t, OnDone(t, stream[t].finish))
Silent(t) ==
    (BeginStream(t) \/ FallBack(t) \/ Generated(t) \/ Persist(t)) /\ UNCHANGED storeVars

\* The server loses the client it was streaming to, or the client the server.
Lost(t) == Disconnect(t) /\ Deliver(t, OnConnectionLost(t))

StopClick == Stop /\ UNCHANGED serviceVars

OpenConversation(s) == sessKb[s] # "absent" /\ AskSession(s) /\ UNCHANGED serviceVars

RemoveConversation(s) == sessKb[s] # "absent" /\ SessionRemoved(s) /\ UNCHANGED serviceVars

StreamProgress(t) ==
    \/ SendReferences(t) \/ SendContent(t) \/ SendNoHit(t)
    \/ SendError(t) \/ SendDone(t) \/ Silent(t)

Next ==
    \/ \E t \in Turns : Ask(t) \/ StreamProgress(t) \/ Lost(t)
    \/ StopClick
    \/ \E k \in KBs : NewConversation(k) /\ UNCHANGED serviceVars
    \/ \E s \in Sessions : OpenConversation(s) \/ RemoveConversation(s)
    \/ ShowSession /\ UNCHANGED serviceVars

Spec == Init /\ [][Next]_vars

\* The model ends its answer or the read of it times out (httpx, 120 s).
Ends(t) ==
    \/ SendReferences(t) \/ SendNoHit(t) \/ SendError(t) \/ SendDone(t)
    \/ (BeginStream(t) \/ Generated(t) \/ Persist(t)) /\ UNCHANGED storeVars

Fairness == \A t \in Turns : WF_vars(Ends(t))

FairSpec == Spec /\ Fairness

-----------------------------------------------------------------------------
TypeOK == ServiceTypeOK /\ StoreTypeOK

\* The composer is usable again after every question (chat.ts:238).
ComposerComesBack == streaming ~> ~streaming
=============================================================================
