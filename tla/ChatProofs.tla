----------------------------- MODULE ChatProofs -----------------------------
(***************************************************************************)
(* What a chat stores, for any number of questions, documents, knowledge   *)
(* bases and deletions: the inductive invariant of ChatService, and the    *)
(* four promises that follow from it.  Then the page beside it: it takes   *)
(* no step the service does not, and two promises about what it shows.     *)
(***************************************************************************)
EXTENDS ChatTurn, FiniteSetTheorems, SequenceTheorems, NatRecursion, TLAPS

\* A generation keeps to the model of its phase; what was said stays one model's.
OneModel ==
    \A t \in Turns :
        /\ stream[t].phase \notin {"finally", "done"} => stream[t].models \subseteq {stream[t].phase}
        /\ \E m \in InTry : stream[t].models \subseteq {m}

\* A checked or accepted question waits for the documents of its session's
\* knowledge base, unless these are gone or the session is raced for.
BoundAs(t) ==
    /\ stream[t].session \in Sessions
    /\ stream[t].phase \in Checked \cup {"accepted"} =>
          stream[t].cited = {} /\ stream[t].kb \in KBs
    /\ stream[t].phase \in {"checked", "accepted"} =>
          \/ sessKb[stream[t].session] = stream[t].kb
          \/ Visible(stream[t].kb) = {}
          \/ stream[t].session \in raced
    /\ stream[t].phase = "binding" =>
          /\ sessKb[stream[t].session] \in {None, "absent"} \/ stream[t].session \in raced
          /\ sessKb[stream[t].session] = "absent" => stream[t].session = t

StreamBound == \A t \in Turns : InFlight(t) => BoundAs(t)

\* The session that a question would open, or is opening, does not exist before.
Unopened(t) ==
    stream[t].phase = "idle" \/ (stream[t].phase = "binding" /\ stream[t].session = t)

NewSessionUnused ==
    \A t \in Turns : Unopened(t) =>
        /\ stream[t].cited = {}
        /\ sessKb[t] = "absent"
        /\ \A u \in Turns : u # t => stream[u].session # t
        /\ \A i \in DOMAIN rows : rows[i].session # t

\* Two requests that are binding one session are known to race.
BindersKnown ==
    \A t, u \in Turns :
        /\ t # u /\ stream[t].phase = "binding" /\ stream[u].phase = "binding"
        /\ stream[t].session = stream[u].session
        => stream[t].session \in raced

\* What a deletion has read is still so when it commits.
DeletionScope ==
    deleting # None =>
        /\ deleting.kb = None => deleting.unbound = {}
        /\ \A s \in deleting.unbound : sessKb[s] = deleting.kb
        /\ deleting.kb # None =>
            /\ \A d \in Docs : KbOf[d] = deleting.kb => d \in deleting.ds
            /\ \A s \in Sessions : sessKb[s] = deleting.kb => s \in deleting.unbound \cup late

\* Citations a deletion does not purge are known to overlap it.
OverlapKnown ==
    deleting # None =>
        /\ \A t \in Turns : InFlight(t) =>
            \A d \in stream[t].cited \cap deleting.ds : <<t, d>> \in overlap
        /\ \A i \in DOMAIN rows : i > deleting.seen =>
            \A d \in rows[i].cites \cap deleting.ds : <<rows[i].turn, d>> \in overlap

Placed(t, s, d) ==
    \/ d \in docs /\ (KbOf[d] = sessKb[s] \/ s \in raced)
    \/ <<t, d>> \in overlap

StreamsPlaced ==
    \A t \in Turns : InFlight(t) =>
        \A d \in stream[t].cited : Placed(t, stream[t].session, d)

RowsPlaced ==
    \A i \in DOMAIN rows :
        \A d \in rows[i].cites : Placed(rows[i].turn, rows[i].session, d)

ChatInductive ==
    /\ ServiceTypeOK /\ OneModel /\ StreamBound /\ NewSessionUnused /\ BindersKnown
    /\ DeletionScope /\ OverlapKnown /\ StreamsPlaced /\ RowsPlaced /\ BindingAlive

-----------------------------------------------------------------------------
LEMMA ChatInit == ServiceInit => ChatInductive
<1> SUFFICES ASSUME ServiceInit PROVE ChatInductive
  OBVIOUS
<1> USE ChatConstants DEF ServiceInit, Quiet
<1>1. ServiceTypeOK
  <2>1. Quiet("idle") \in StreamState
    BY DEF StreamState, Phases, Finishes
  <2>2. rows \in Seq(Row)
    OBVIOUS
  <2> QED BY <2>1, <2>2 DEF ServiceTypeOK
<1>2. OneModel
  BY DEF OneModel, InTry, Generating
<1>3. StreamBound /\ StreamsPlaced /\ RowsPlaced
  BY DEF StreamBound, StreamsPlaced, RowsPlaced, InFlight
<1>4. NewSessionUnused /\ BindersKnown
  BY DEF NewSessionUnused, Unopened, BindersKnown, Sessions
<1>5. DeletionScope /\ OverlapKnown /\ BindingAlive
  BY DEF DeletionScope, OverlapKnown, BindingAlive
<1> QED BY <1>1, <1>2, <1>3, <1>4, <1>5 DEF ChatInductive

\* What a step of one stream may do to it: end it, or move it on with its
\* session and its citations.
Kept(t, next) ==
    /\ next \in StreamState
    /\ next.phase # "idle"
    /\ \/ next = Quiet("closed")
       \/ /\ InFlight(t)
          /\ next.phase \notin Checked \cup {"accepted"}
          /\ next.session = stream[t].session
          /\ next.cited = stream[t].cited
    /\ next.phase \notin {"finally", "done"} => next.models \subseteq {next.phase}
    /\ \E m \in InTry : next.models \subseteq {m}

LEMMA StreamStepKeeps ==
    ASSUME ChatInductive, NEW t \in Turns, NEW next, StreamStep(t, next), Kept(t, next)
    PROVE ChatInductive'
<1> USE ChatConstants DEF ChatInductive, StreamStep, Kept
<1>0. /\ stream' = [stream EXCEPT ![t] = next]
      /\ stream \in [Turns -> StreamState]
      /\ next.phase # "idle"
  BY DEF ServiceTypeOK
<1>1. ServiceTypeOK'
  BY <1>0 DEF ServiceTypeOK
<1>2. OneModel'
  BY <1>0 DEF OneModel
<1>3. \A u \in Turns : InFlight(u)' =>
        /\ InFlight(u)
        /\ stream'[u].session = stream[u].session
        /\ stream'[u].cited = stream[u].cited
        /\ stream'[u].phase \in Checked \cup {"accepted"} => stream'[u] = stream[u]
  BY <1>0 DEF InFlight, Quiet
<1>4. StreamBound'
  BY <1>3 DEF StreamBound, BoundAs, Visible, Checked
<1>5. NewSessionUnused'
  <2>1. \A u \in Turns : Unopened(u)' => Unopened(u) /\ u # t
    BY <1>0 DEF Unopened, Checked, Quiet
  <2>2. \A u \in Turns : stream'[u].session \in {stream[u].session, None}
    BY <1>0 DEF Quiet
  <2> SUFFICES ASSUME NEW u \in Turns, Unopened(u)'
               PROVE /\ stream'[u].cited = {}
                     /\ sessKb'[u] = "absent"
                     /\ \A v \in Turns : v # u => stream'[v].session # u
                     /\ \A i \in DOMAIN rows' : rows'[i].session # u
    BY DEF NewSessionUnused
  <2>3. /\ stream[u].cited = {} /\ sessKb[u] = "absent"
        /\ \A v \in Turns : v # u => stream[v].session # u
        /\ \A i \in DOMAIN rows : rows[i].session # u
    BY <2>1 DEF NewSessionUnused
  <2>4. \A v \in Turns : v # u => stream'[v].session # u
    BY <2>2, <2>3
  <2>5. stream'[u].cited = stream[u].cited
    BY <1>0, <2>1
  <2> QED BY <2>3, <2>4, <2>5
<1>9. BindersKnown'
  <2>1. \A u \in Turns : stream'[u].phase = "binding" => stream'[u] = stream[u]
    BY <1>0 DEF Checked, Quiet
  <2> QED BY <2>1 DEF BindersKnown
<1>6. DeletionScope' /\ BindingAlive'
  BY DEF DeletionScope, BindingAlive
<1>7. OverlapKnown'
  BY <1>3 DEF OverlapKnown
<1>8. StreamsPlaced' /\ RowsPlaced'
  BY <1>3 DEF StreamsPlaced, RowsPlaced, Placed
<1> QED BY <1>1, <1>2, <1>4, <1>5, <1>6, <1>7, <1>8, <1>9

\* Every event and every end of a stream is such a step.
LEMMA EventsKeep ==
    ASSUME ChatInductive, NEW t \in Turns,
           \/ Reject(t) \/ Delta(t) \/ FallBack(t) \/ Generated(t) \/ NoHitAnswer(t)
           \/ LlmFails(t) \/ Done(t) \/ Disconnect(t)
    PROVE ChatInductive'
<1> USE ChatConstants DEF ChatInductive, InTry, Generating, Checked
<1>0. stream[t] \in StreamState
  BY DEF ServiceTypeOK
<1>1. Kept(t, Quiet("closed"))
  BY DEF Kept, Quiet, StreamState, Phases, Finishes
<1>2. CASE Reject(t) \/ Done(t)
  BY <1>1, <1>2, StreamStepKeeps DEF Reject, Done, StreamStep
<1>3. CASE Delta(t)
  <2> DEFINE next == [stream[t] EXCEPT !.models = @ \cup {stream[t].phase}]
  <2>1. Kept(t, next)
    BY <1>0, <1>3 DEF Delta, Kept, StreamState, InFlight, OneModel, Phases
  <2> QED BY <1>3, <2>1, StreamStepKeeps DEF Delta
<1>4. CASE FallBack(t)
  <2> DEFINE next == [stream[t] EXCEPT !.phase = "fallback"]
  <2>1. Kept(t, next)
    BY <1>0, <1>4 DEF FallBack, RateLimitedBeforeFirst, Kept, StreamState, InFlight, Phases
  <2> QED BY <1>4, <2>1, StreamStepKeeps DEF FallBack
<1>5. CASE Generated(t)
  <2>1. PICK f \in {"stop", "no_hit"} :
          StreamStep(t, [stream[t] EXCEPT !.phase = "finally", !.finish = f])
    BY <1>5 DEF Generated
  <2> DEFINE next == [stream[t] EXCEPT !.phase = "finally", !.finish = f]
  <2>2. Kept(t, next)
    BY <1>0, <1>5 DEF Generated, Kept, StreamState, InFlight, OneModel, Phases, Finishes
  <2> QED BY <2>1, <2>2, StreamStepKeeps
<1>6. CASE NoHitAnswer(t)
  <2> DEFINE next == [stream[t] EXCEPT !.phase = "finally", !.finish = "no_hit",
                                       !.models = {"no_hit"}]
  <2>1. Kept(t, next)
    BY <1>0, <1>6 DEF NoHitAnswer, Kept, StreamState, InFlight, Phases, Finishes
  <2> QED BY <1>6, <2>1, StreamStepKeeps DEF NoHitAnswer
<1>7. CASE LlmFails(t)
  <2> DEFINE next == [stream[t] EXCEPT !.phase = "finally", !.finish = "error"]
  <2>1. Kept(t, next)
    BY <1>0, <1>7 DEF LlmFails, Kept, StreamState, InFlight, OneModel, Phases, Finishes
  <2> QED BY <1>7, <2>1, StreamStepKeeps DEF LlmFails
<1>8. CASE Disconnect(t)
  <2> DEFINE next == [stream[t] EXCEPT !.phase = "finally"]
  <2>1. CASE StreamStep(t, Quiet("closed"))
    BY <1>1, <2>1, StreamStepKeeps
  <2>2. CASE stream[t].phase \in InTry /\ StreamStep(t, next)
    <3>1. Kept(t, next)
      BY <1>0, <2>2 DEF Kept, StreamState, InFlight, OneModel, Phases
    <3> QED BY <2>2, <3>1, StreamStepKeeps
  <2> QED BY <1>8, <2>1, <2>2 DEF Disconnect
<1> QED BY <1>2, <1>3, <1>4, <1>5, <1>6, <1>7, <1>8

-----------------------------------------------------------------------------
\* A session is checked: nothing is bound yet, and a race is noticed here.
LEMMA CheckKeeps ==
    ASSUME ChatInductive, NEW t \in Turns, NEW k \in KBs, NEW s \in Sessions \cup {None},
           CheckSession(t, k, s)
    PROVE ChatInductive'
<1> USE ChatConstants DEF ChatInductive
<1> DEFINE id == SessionFor(t, s)
           phase == IF s # None /\ sessKb[s] = k THEN "checked" ELSE "binding"
<1>0. /\ id \in Sessions
      /\ stream' = [stream EXCEPT ![t].phase = phase, ![t].session = id, ![t].kb = k]
      /\ stream[t].phase = "idle"
      /\ raced' = IF /\ phase = "binding"
                     /\ \E u \in Turns : stream[u].phase = "binding" /\ stream[u].session = id
                  THEN raced \cup {id} ELSE raced
      /\ UNCHANGED <<kbs, docs, sessKb, rows, deleting, overlap, late>>
      /\ stream \in [Turns -> StreamState]
      /\ sessKb \in [Sessions -> KBs \cup {None, "absent"}]
  BY DEF CheckSession, SessionFor, Sessions, ServiceTypeOK
<1>1. s = None \/ (sessKb[s] \in {k, None} /\ id = s)
  BY DEF CheckSession, SessionFor, Refused, SessionFits
<1>2. /\ \A u \in Turns : u # t => stream'[u] = stream[u]
      /\ stream'[t].phase = phase /\ stream'[t].session = id /\ stream'[t].kb = k
      /\ stream'[t].cited = stream[t].cited /\ stream'[t].models = stream[t].models
      /\ phase \in Checked
  BY <1>0 DEF StreamState, Checked
<1>3. /\ stream[t].cited = {} /\ stream[t].models = {}
      /\ sessKb[t] = "absent"
      /\ \A u \in Turns : u # t => stream[u].session # t
      /\ \A i \in DOMAIN rows : rows[i].session # t
  BY <1>0 DEF NewSessionUnused, Unopened, OneModel, StreamState, InTry, Generating
<1>4. ServiceTypeOK'
  <2>1. [stream[t] EXCEPT !.phase = phase, !.session = id, !.kb = k] \in StreamState
    <3>1. stream[t] \in StreamState /\ phase \in Phases
      BY <1>0, <1>2 DEF Phases
    <3> QED BY <1>0, <3>1 DEF StreamState
  <2>2. stream' \in [Turns -> StreamState]
    BY <1>0, <2>1
  <2>3. raced' \in SUBSET Sessions
    BY <1>0 DEF ServiceTypeOK
  <2> QED BY <1>0, <2>2, <2>3 DEF ServiceTypeOK
<1>5. raced \subseteq raced'
  BY <1>0
<1> HIDE DEF phase
<1>6. OneModel'
  BY <1>2, <1>3 DEF OneModel
<1>7. \A u \in Turns : u # t => (InFlight(u)' <=> InFlight(u))
  BY <1>2 DEF InFlight
<1>8. StreamBound'
  <2> SUFFICES ASSUME NEW u \in Turns, InFlight(u)' PROVE BoundAs(u)'
    BY DEF StreamBound
  <2>1. CASE u = t
    <3>1. phase = "checked" => sessKb[id] = k
      BY <1>1 DEF phase, SessionFor
    <3>2. phase = "binding" => sessKb[id] \in {None, "absent"}
      BY <1>1, <1>3 DEF phase, SessionFor
    <3>3. sessKb[id] = "absent" => id = t
      BY <1>1 DEF SessionFor
    <3> QED BY <1>0, <1>2, <1>3, <2>1, <3>1, <3>2, <3>3 DEF BoundAs, Checked
  <2>2. CASE u # t
    <3>1. BoundAs(u)
      BY <1>7, <2>2 DEF StreamBound
    <3>2. \A j \in KBs : Visible(j)' = Visible(j)
      BY <1>0 DEF Visible
    <3>3. stream'[u] = stream[u] /\ sessKb' = sessKb
      BY <1>0, <1>2, <2>2
    <3> QED BY <1>5, <3>1, <3>2, <3>3 DEF BoundAs, Checked
  <2> QED BY <2>1, <2>2
<1>9. NewSessionUnused'
  <2> SUFFICES ASSUME NEW u \in Turns, Unopened(u)'
               PROVE /\ stream'[u].cited = {} /\ sessKb'[u] = "absent"
                     /\ \A v \in Turns : v # u => stream'[v].session # u
                     /\ \A i \in DOMAIN rows' : rows'[i].session # u
    BY DEF NewSessionUnused
  <2>1. CASE u = t
    BY <1>0, <1>2, <1>3, <2>1
  <2>2. CASE u # t
    <3>1. Unopened(u)
      BY <1>2, <2>2 DEF Unopened
    <3>2. id # u
      <4>1. sessKb[u] = "absent" /\ "absent" \notin {k, None}
        BY <3>1 DEF NewSessionUnused
      <4> QED BY <1>1, <2>2, <4>1 DEF SessionFor
    <3> QED BY <1>0, <1>2, <2>2, <3>1, <3>2 DEF NewSessionUnused
  <2> QED BY <2>1, <2>2
<1>10. BindersKnown'
  <2> SUFFICES ASSUME NEW u \in Turns, NEW v \in Turns, u # v,
                      stream'[u].phase = "binding", stream'[v].phase = "binding",
                      stream'[u].session = stream'[v].session
               PROVE stream'[u].session \in raced'
    BY DEF BindersKnown
  <2>1. CASE u # t /\ v # t
    BY <1>2, <1>5, <2>1 DEF BindersKnown
  <2>2. CASE u = t \/ v = t
    <3>1. PICK w \in Turns : /\ w # t /\ stream[w].phase = "binding" /\ stream[w].session = id
                             /\ phase = "binding"
      BY <1>2, <2>2
    <3> QED BY <1>0, <1>2, <2>2, <3>1
  <2> QED BY <2>1, <2>2
<1>11. DeletionScope' /\ BindingAlive'
  BY <1>0 DEF DeletionScope, BindingAlive
<1>12. OverlapKnown'
  <2>1. \A u \in Turns : InFlight(u)' => (InFlight(u) /\ stream'[u].cited = stream[u].cited)
                                         \/ stream'[u].cited = {}
    BY <1>2, <1>3, <1>7
  <2> QED BY <1>0, <2>1 DEF OverlapKnown
<1>13. StreamsPlaced'
  <2> SUFFICES ASSUME NEW u \in Turns, InFlight(u)', NEW d \in stream'[u].cited
               PROVE Placed(u, stream[u].session, d)' /\ stream'[u].session = stream[u].session
    BY DEF StreamsPlaced, InFlight, Placed
  <2>1. u # t
    BY <1>2, <1>3
  <2>2. stream'[u] = stream[u] /\ InFlight(u)
    BY <1>2, <1>7, <2>1
  <2>3. Placed(u, stream[u].session, d)
    BY <2>2 DEF StreamsPlaced
  <2> QED BY <1>0, <1>5, <2>2, <2>3 DEF Placed
<1>14. RowsPlaced'
  BY <1>0, <1>5 DEF RowsPlaced, Placed
<1> QED BY <1>4, <1>6, <1>8, <1>9, <1>10, <1>11, <1>12, <1>13, <1>14

\* A session is bound, again or for the first time, or was bound already: what
\* it holds stays placed, for an unbound session that nobody else is binding
\* holds only what a deletion overlapped.
LEMMA BeginKeeps ==
    ASSUME ChatInductive, NEW t \in Turns, BeginStream(t)
    PROVE ChatInductive'
<1> USE ChatConstants DEF ChatInductive
<1> DEFINE id == stream[t].session
           k == stream[t].kb
<1>0. /\ stream' = [stream EXCEPT ![t].phase = "accepted"]
      /\ stream[t].phase \in Checked
      /\ UNCHANGED <<kbs, docs, rows, deleting, overlap, raced>>
      /\ stream \in [Turns -> StreamState]
      /\ sessKb \in [Sessions -> KBs \cup {None, "absent"}]
  BY DEF BeginStream, ServiceTypeOK
<1>1. InFlight(t) /\ BoundAs(t) /\ id \in Sessions /\ k \in KBs /\ stream[t].cited = {}
  BY <1>0 DEF InFlight, Checked, StreamBound, BoundAs
<1>2. \/ stream[t].phase = "checked" /\ UNCHANGED <<sessKb, late>>
      \/ /\ stream[t].phase = "binding" /\ k \in kbs
         /\ deleting # None => id \notin deleting.unbound
         /\ sessKb' = [sessKb EXCEPT ![id] = k]
         /\ late' = IF deleting # None /\ deleting.kb = k THEN late \cup {id} ELSE late
  BY <1>0 DEF BeginStream, Checked
<1>3. /\ \A u \in Turns : u # t => stream'[u] = stream[u]
      /\ stream'[t].phase = "accepted" /\ stream'[t].session = id /\ stream'[t].kb = k
      /\ stream'[t].cited = {} /\ stream'[t].models = stream[t].models
  BY <1>0, <1>1 DEF StreamState
<1>4. \A u \in Turns : InFlight(u)' <=> InFlight(u)
  BY <1>1, <1>3 DEF InFlight
<1>5. /\ sessKb' \in [Sessions -> KBs \cup {None, "absent"}]
      /\ \A s \in Sessions : sessKb'[s] = sessKb[s] \/ (s = id /\ sessKb'[s] = k)
      /\ \A s \in Sessions : s # id => sessKb'[s] = sessKb[s]
      /\ stream[t].phase = "checked" => sessKb' = sessKb
      /\ stream[t].phase = "binding" => sessKb'[id] = k
  BY <1>0, <1>1, <1>2
<1> HIDE DEF k
<1>6. \A s \in Sessions : sessKb'[s] # sessKb[s] =>
         stream[t].phase = "binding" /\ (s \in raced \/ sessKb[s] \in {None, "absent"})
  BY <1>0, <1>1, <1>5 DEF BoundAs, Checked
<1>7. ServiceTypeOK'
  <2>1. [stream[t] EXCEPT !.phase = "accepted"] \in StreamState
    BY <1>0 DEF StreamState, Phases
  <2>2. stream' \in [Turns -> StreamState]
    BY <1>0, <2>1
  <2>3. late' \in SUBSET Sessions
    BY <1>1, <1>2 DEF ServiceTypeOK
  <2> QED BY <1>0, <1>5, <2>2, <2>3 DEF ServiceTypeOK
<1>8. OneModel'
  <2>1. stream[t].models = {}
    BY <1>0 DEF OneModel, Checked, InTry, Generating, StreamState
  <2> QED BY <1>3, <2>1 DEF OneModel
\* What is placed stays so: its session was bound, so nobody binds it but a race.
<1>9. ASSUME NEW u \in Turns, NEW r \in Sessions, NEW d \in Docs, Placed(u, r, d)
      PROVE Placed(u, r, d)'
  <2>1. KbOf[d] \in KBs /\ KbOf[d] \notin {None, "absent"}
    OBVIOUS
  <2> QED BY <1>0, <1>6, <1>9, <2>1 DEF Placed
<1>10. StreamBound'
  <2> SUFFICES ASSUME NEW u \in Turns, InFlight(u)' PROVE BoundAs(u)'
    BY DEF StreamBound
  <2>0. \A j \in KBs : Visible(j)' = Visible(j)
    BY <1>0 DEF Visible
  <2>1. CASE u = t
    <3>1. sessKb'[id] = k \/ Visible(k) = {} \/ id \in raced
      BY <1>0, <1>1, <1>5 DEF BoundAs, Checked, k
    <3> QED BY <1>0, <1>1, <1>3, <2>0, <2>1, <3>1 DEF BoundAs, Checked
  <2>2. CASE u # t
    <3>1. BoundAs(u) /\ stream'[u] = stream[u]
      BY <1>3, <1>4, <2>2 DEF StreamBound
    <3> DEFINE r == stream[u].session
    <3>2. r \in Sessions
      BY <3>1 DEF BoundAs
    <3>3. CASE sessKb'[r] = sessKb[r]
      <4>1. Visible(stream[u].kb)' = Visible(stream[u].kb)
        BY <1>0, <3>1 DEF Visible
      <4>2. stream'[u].session = r /\ stream'[u].kb = stream[u].kb /\ raced' = raced
        BY <1>0, <3>1
      <4> QED BY <3>1, <3>3, <4>1, <4>2 DEF BoundAs
    <3>4. CASE sessKb'[r] # sessKb[r]
      <4>1. r = id /\ stream[t].phase = "binding" /\ sessKb'[r] \in KBs
        BY <1>1, <1>5, <1>6, <3>2, <3>4
      <4>2. stream[u].phase = "binding" => r \in raced
        BY <2>2, <4>1 DEF BindersKnown
      <4>3. stream[u].phase \in {"checked", "accepted"} =>
                r \in raced \/ Visible(stream[u].kb) = {}
        BY <1>6, <3>1, <3>2, <3>4 DEF BoundAs, Checked
      <4>4. sessKb'[r] # "absent"
        BY <4>1
      <4> QED BY <1>0, <2>0, <3>1, <4>2, <4>3, <4>4 DEF BoundAs, Checked
    <3> QED BY <3>3, <3>4
  <2> QED BY <2>1, <2>2
<1>11. NewSessionUnused'
  <2> SUFFICES ASSUME NEW u \in Turns, Unopened(u)'
               PROVE /\ stream'[u].cited = {} /\ sessKb'[u] = "absent"
                     /\ \A v \in Turns : v # u => stream'[v].session # u
                     /\ \A i \in DOMAIN rows' : rows'[i].session # u
    BY DEF NewSessionUnused
  <2>1. u # t /\ Unopened(u)
    BY <1>3 DEF Unopened
  <2>2. id # u /\ u \in Sessions
    BY <2>1 DEF NewSessionUnused, Sessions
  <2> QED BY <1>0, <1>3, <1>5, <2>1, <2>2 DEF NewSessionUnused
<1>12. BindersKnown'
  BY <1>0, <1>3 DEF BindersKnown
<1>13. DeletionScope'
  <2> SUFFICES ASSUME deleting # None PROVE DeletionScope'
    BY <1>0 DEF DeletionScope
  <2>1. deleting \in Deletion
    BY DEF ServiceTypeOK
  <2>2. ASSUME NEW r \in deleting.unbound PROVE sessKb'[r] = deleting.kb
    <3>1. r \in Sessions /\ sessKb[r] = deleting.kb
      BY <2>1 DEF DeletionScope, Deletion
    <3>2. sessKb'[r] = sessKb[r]
      BY <1>2, <1>5, <3>1
    <3> QED BY <3>1, <3>2
  <2>3. ASSUME NEW r \in Sessions, deleting.kb # None, sessKb'[r] = deleting.kb
        PROVE r \in deleting.unbound \cup late'
    BY <1>2, <1>5, <2>3 DEF DeletionScope
  <2> QED BY <1>0, <2>2, <2>3 DEF DeletionScope
<1>14. BindingAlive'
  BY <1>0, <1>2, <1>5 DEF BindingAlive
<1>15. OverlapKnown'
  BY <1>0, <1>3, <1>4 DEF OverlapKnown
<1>16. StreamsPlaced'
  <2> SUFFICES ASSUME NEW u \in Turns, InFlight(u)', NEW d \in stream'[u].cited
               PROVE Placed(u, stream[u].session, d)' /\ stream'[u].session = stream[u].session
    BY DEF StreamsPlaced, InFlight, Placed
  <2>1. u # t /\ stream'[u] = stream[u] /\ InFlight(u)
    BY <1>3, <1>4
  <2> DEFINE r == stream[u].session
  <2>2. Placed(u, r, d) /\ r \in Sessions /\ d \in Docs
    BY <1>0, <2>1 DEF StreamsPlaced, StreamBound, BoundAs, StreamState
  <2> HIDE DEF r
  <2>3. \/ d \in docs' /\ (KbOf[d] = sessKb'[r] \/ r \in raced')
        \/ <<u, d>> \in overlap'
    BY <1>9, <2>2 DEF Placed
  <2> QED BY <2>1, <2>3 DEF Placed, r
<1>17. RowsPlaced'
  <2> SUFFICES ASSUME NEW i \in DOMAIN rows, NEW d \in rows[i].cites
               PROVE Placed(rows[i].turn, rows[i].session, d)'
    BY <1>0 DEF RowsPlaced, Placed
  <2> DEFINE u == rows[i].turn
             r == rows[i].session
  <2>1. rows[i] \in Row
    BY DEF ServiceTypeOK
  <2>2. u \in Turns /\ r \in Sessions /\ d \in Docs /\ Placed(u, r, d)
    BY <2>1 DEF Row, RowsPlaced
  <2> HIDE DEF u, r
  <2>3. \/ d \in docs' /\ (KbOf[d] = sessKb'[r] \/ r \in raced')
        \/ <<u, d>> \in overlap'
    BY <1>9, <2>2 DEF Placed
  <2> QED BY <1>0, <2>3 DEF Placed, u, r
<1> QED BY <1>7, <1>8, <1>10, <1>11, <1>12, <1>13, <1>14, <1>15, <1>16, <1>17

-----------------------------------------------------------------------------
\* What is retrieved belongs to the session's knowledge base, for it can be seen.
LEMMA RetrieveKeeps ==
    ASSUME ChatInductive, NEW t \in Turns, Retrieve(t)
    PROVE ChatInductive'
<1> USE ChatConstants DEF ChatInductive
<1>1. PICK c \in SUBSET Visible(stream[t].kb) :
        /\ stream' = [stream EXCEPT ![t].cited = c,
                                    ![t].phase = IF c = {} THEN "no_hit" ELSE "chosen"]
        /\ overlap' = IF deleting = None THEN overlap
                      ELSE overlap \cup {<<t, d>> : d \in c \cap deleting.ds}
  BY DEF Retrieve
<1>2. /\ stream[t].phase = "accepted" /\ stream[t] \in StreamState
      /\ stream \in [Turns -> StreamState]
      /\ UNCHANGED <<kbs, docs, sessKb, rows, deleting, late, raced>>
  BY DEF Retrieve, ServiceTypeOK
<1>3. c \subseteq Docs /\ c \subseteq docs /\ \A d \in c : KbOf[d] = stream[t].kb
  BY DEF Visible, ServiceTypeOK
<1>4. /\ \A u \in Turns : u # t => stream'[u] = stream[u]
      /\ stream'[t].phase \in {"no_hit", "chosen"}
      /\ stream'[t].session = stream[t].session
      /\ stream'[t].cited = c
      /\ stream'[t].models = stream[t].models
  BY <1>1, <1>2 DEF StreamState
<1>5. overlap \subseteq overlap'
  BY <1>1
<1>6. ServiceTypeOK'
  <2>1. [stream[t] EXCEPT !.cited = c, !.phase = IF c = {} THEN "no_hit" ELSE "chosen"]
          \in StreamState
    BY <1>2, <1>3 DEF StreamState, Phases, InTry, Generating
  <2>2. stream' \in [Turns -> StreamState]
    BY <1>1, <1>2, <2>1
  <2>3. overlap' \in SUBSET (Turns \X Docs)
    BY <1>1, <1>3 DEF ServiceTypeOK
  <2> QED BY <1>2, <2>2, <2>3 DEF ServiceTypeOK
<1>7. stream[t].models = {}
  BY <1>2 DEF OneModel, StreamState, InTry, Generating
<1>8. OneModel'
  BY <1>4, <1>7 DEF OneModel
<1>9. \A u \in Turns : InFlight(u)' => InFlight(u)
  BY <1>2, <1>4 DEF InFlight
<1>10. StreamBound'
  <2>1. \A j \in KBs : Visible(j)' = Visible(j)
    BY <1>2 DEF Visible
  <2>2. \A u \in Turns : stream'[u].phase \in Checked \cup {"accepted"} => stream'[u] = stream[u]
    BY <1>4 DEF Checked
  <2>3. \A u \in Turns : stream'[u].session = stream[u].session
    BY <1>4
  <2> SUFFICES ASSUME NEW u \in Turns, InFlight(u)' PROVE BoundAs(u)'
    BY DEF StreamBound
  <2>4. BoundAs(u)
    BY <1>9 DEF StreamBound
  <2> QED BY <1>2, <2>1, <2>2, <2>3, <2>4 DEF BoundAs, Checked
<1>11. NewSessionUnused' /\ BindersKnown'
  <2>1. \A u \in Turns : /\ stream'[u].session = stream[u].session
                         /\ stream'[u].phase \in {"idle", "binding"} => stream'[u] = stream[u]
    BY <1>2, <1>4
  <2>2. NewSessionUnused'
    <3> SUFFICES ASSUME NEW u \in Turns, Unopened(u)'
                 PROVE /\ stream'[u].cited = {} /\ sessKb'[u] = "absent"
                       /\ \A v \in Turns : v # u => stream'[v].session # u
                       /\ \A i \in DOMAIN rows' : rows'[i].session # u
      BY DEF NewSessionUnused
    <3>1. Unopened(u) /\ stream'[u] = stream[u]
      BY <2>1 DEF Unopened
    <3> QED BY <1>2, <2>1, <3>1 DEF NewSessionUnused
  <2>3. BindersKnown'
    BY <1>2, <2>1 DEF BindersKnown
  <2> QED BY <2>2, <2>3
<1>12. DeletionScope' /\ BindingAlive'
  BY <1>2 DEF DeletionScope, BindingAlive
<1>13. OverlapKnown'
  <2> SUFFICES ASSUME deleting # None
               PROVE OverlapKnown'
    BY <1>2 DEF OverlapKnown
  <2>1. \A d \in c \cap deleting.ds : <<t, d>> \in overlap'
    BY <1>1
  <2> QED BY <1>2, <1>4, <1>5, <1>9, <2>1 DEF OverlapKnown
<1>14. StreamsPlaced'
  <2>1. ASSUME NEW d \in c
        PROVE sessKb[stream[t].session] = stream[t].kb \/ stream[t].session \in raced
    <3>1. Visible(stream[t].kb) # {}
      OBVIOUS
    <3>2. InFlight(t)
      BY <1>2 DEF InFlight
    <3> QED BY <1>2, <3>1, <3>2 DEF StreamBound, BoundAs
  <2> QED BY <1>2, <1>3, <1>4, <1>5, <1>9, <2>1 DEF StreamsPlaced, Placed
<1>15. RowsPlaced'
  BY <1>2, <1>5 DEF RowsPlaced, Placed
<1> QED BY <1>6, <1>8, <1>10, <1>11, <1>12, <1>13, <1>14, <1>15

\* A stored turn is placed as its stream was.
LEMMA PersistKeeps ==
    ASSUME ChatInductive, NEW t \in Turns, Persist(t)
    PROVE ChatInductive'
<1> USE ChatConstants DEF ChatInductive
<1> DEFINE row == [turn |-> t, session |-> stream[t].session, cites |-> VisibleCitations(t),
                   finish |-> stream[t].finish, models |-> stream[t].models]
           next == [stream[t] EXCEPT !.phase = "done"]
<1>1. /\ stream[t].phase = "finally" /\ stream[t] \in StreamState
      /\ stream \in [Turns -> StreamState]
      /\ stream' = [stream EXCEPT ![t] = next]
      /\ UNCHANGED <<kbs, docs, sessKb, deleting, overlap, late, raced>>
      /\ InFlight(t)
  BY DEF Persist, ServiceTypeOK, InFlight
<1>2. Kept(t, next)
  BY <1>1 DEF Kept, StreamState, OneModel, Phases, Checked
<1>3. CASE UNCHANGED rows
  <2>1. StreamStep(t, next)
    BY <1>1, <1>3 DEF StreamStep
  <2> QED BY <1>2, <2>1, StreamStepKeeps
<1>4. CASE rows' = Append(rows, row)
  <2>1. row \in Row
    <3>1. stream[t].session \in Sessions /\ VisibleCitations(t) \in SUBSET Docs
      BY <1>1 DEF StreamBound, BoundAs, VisibleCitations, StreamState
    <3> QED BY <1>1, <3>1 DEF Row, StreamState
  <2>2. /\ rows \in Seq(Row) /\ rows' \in Seq(Row)
        /\ DOMAIN rows = 1..Len(rows) /\ DOMAIN rows' = 1..(Len(rows) + 1)
        /\ \A i \in DOMAIN rows : rows'[i] = rows[i]
        /\ rows'[Len(rows) + 1] = row
    BY <1>4, <2>1 DEF ServiceTypeOK
  <2>3. \A i \in DOMAIN rows' : i \in DOMAIN rows \/ rows'[i] = row
    BY <2>2
  <2>4. row.turn = t /\ row.session = stream[t].session /\ row.cites \subseteq stream[t].cited
    BY DEF VisibleCitations
  <2> HIDE DEF row
  <2>5. /\ \A u \in Turns : InFlight(u)' => InFlight(u)
        /\ \A u \in Turns : /\ stream'[u].session = stream[u].session
                            /\ stream'[u].cited = stream[u].cited
                            /\ stream'[u].phase \in Checked \cup {"idle", "accepted"}
                                => stream'[u] = stream[u]
    BY <1>1 DEF InFlight, Checked
  <2>6. ServiceTypeOK'
    BY <1>1, <1>2, <2>2 DEF ServiceTypeOK, Kept
  <2>7. OneModel'
    BY <1>1, <1>2 DEF OneModel, Kept
  <2>8. StreamBound' /\ StreamsPlaced'
    BY <1>1, <2>5 DEF StreamBound, BoundAs, StreamsPlaced, Placed, Visible, Checked
  <2>9. NewSessionUnused'
    <3> SUFFICES ASSUME NEW u \in Turns, Unopened(u)'
                 PROVE /\ stream'[u].cited = {} /\ sessKb'[u] = "absent"
                       /\ \A v \in Turns : v # u => stream'[v].session # u
                       /\ \A i \in DOMAIN rows' : rows'[i].session # u
      BY DEF NewSessionUnused
    <3>1. Unopened(u) /\ stream'[u] = stream[u] /\ u # t
      BY <1>1, <2>5 DEF Unopened, Checked
    <3>2. \A i \in DOMAIN rows : rows[i].session # u
      BY <3>1 DEF NewSessionUnused
    <3>3. row.session # u
      <4>1. stream[t].session # u
        BY <3>1 DEF NewSessionUnused
      <4> QED BY ONLY <2>4, <4>1
    <3>4. \A i \in DOMAIN rows' : rows'[i].session # u
      BY <2>2, <2>3, <3>2, <3>3
    <3> QED BY <1>1, <2>5, <3>1, <3>4 DEF NewSessionUnused
  <2>13. BindersKnown'
    BY <1>1, <2>5 DEF BindersKnown, Checked
  <2>10. DeletionScope' /\ BindingAlive'
    BY <1>1 DEF DeletionScope, BindingAlive
  <2>11. OverlapKnown'
    BY <1>1, <2>2, <2>3, <2>4, <2>5 DEF OverlapKnown
  <2>12. RowsPlaced'
    <3> SUFFICES ASSUME NEW i \in DOMAIN rows', NEW d \in rows'[i].cites
                 PROVE Placed(rows'[i].turn, rows'[i].session, d)
      BY <1>1 DEF RowsPlaced, Placed
    <3> QED BY <1>1, <2>2, <2>3, <2>4 DEF RowsPlaced, StreamsPlaced
  <2> QED BY <2>6, <2>7, <2>8, <2>9, <2>10, <2>11, <2>12, <2>13
<1> QED BY <1>3, <1>4 DEF Persist

-----------------------------------------------------------------------------
LEMMA DeleteBeginKeeps ==
    ASSUME ChatInductive, NEW ds \in SUBSET Docs, NEW k \in kbs \cup {None},
           k # None => \A d \in Docs : KbOf[d] = k => d \in ds,
           DeleteBegin(ds, k)
    PROVE ChatInductive'
<1> USE ChatConstants DEF ChatInductive
<1>1. /\ deleting' = [ds |-> ds, kb |-> k, unbound |-> BoundSessions(k), seen |-> Len(rows)]
      /\ overlap' = overlap \cup {p \in Turns \X ds : InFlight(p[1]) /\ p[2] \in stream[p[1]].cited}
      /\ UNCHANGED <<kbs, docs, sessKb, rows, stream, late, raced>>
  BY DEF DeleteBegin
<1>2. Len(rows) \in Nat /\ DOMAIN rows = 1..Len(rows)
  BY DEF ServiceTypeOK
<1>3. ServiceTypeOK'
  <2>1. deleting' \in Deletion
    BY <1>1, <1>2 DEF Deletion, BoundSessions, ServiceTypeOK
  <2>2. overlap' \in SUBSET (Turns \X Docs)
    BY <1>1 DEF ServiceTypeOK
  <2> QED BY <1>1, <2>1, <2>2 DEF ServiceTypeOK
<1>4. OneModel' /\ NewSessionUnused' /\ BindingAlive' /\ StreamBound' /\ BindersKnown'
  BY <1>1 DEF OneModel, NewSessionUnused, Unopened, BindingAlive, StreamBound, BoundAs,
     BindersKnown, InFlight, Visible
<1>5. DeletionScope'
  BY <1>1 DEF DeletionScope, BoundSessions
<1>6. OverlapKnown'
  <2>1. ASSUME NEW u \in Turns, InFlight(u), NEW d \in stream[u].cited \cap ds
        PROVE <<u, d>> \in overlap'
    BY <1>1, <2>1
  <2>2. \A i \in DOMAIN rows : ~(i > deleting'.seen)
    BY <1>1, <1>2
  <2> QED BY <1>1, <2>1, <2>2 DEF OverlapKnown, InFlight
<1>7. StreamsPlaced' /\ RowsPlaced'
  BY <1>1 DEF StreamsPlaced, RowsPlaced, Placed, InFlight
<1> QED BY <1>3, <1>4, <1>5, <1>6, <1>7

LEMMA DeleteAbortsKeeps ==
    ASSUME ChatInductive, DeleteAborts
    PROVE ChatInductive'
<1> USE DEF ChatInductive, DeleteAborts
<1>1. ServiceTypeOK' /\ DeletionScope' /\ OverlapKnown'
  BY DEF ServiceTypeOK, DeletionScope, OverlapKnown
<1>2. OneModel' /\ NewSessionUnused' /\ BindingAlive' /\ StreamBound' /\ BindersKnown'
  BY DEF OneModel, NewSessionUnused, Unopened, BindingAlive, StreamBound, BoundAs,
     BindersKnown, InFlight, Visible
<1>3. StreamsPlaced' /\ RowsPlaced'
  BY DEF StreamsPlaced, RowsPlaced, Placed, InFlight
<1> QED BY <1>1, <1>2, <1>3

\* The commit: what stays is not of the deleted documents, or overlaps.
LEMMA DeleteCommitKeeps ==
    ASSUME ChatInductive, DeleteCommit
    PROVE ChatInductive'
<1> USE ChatConstants DEF ChatInductive
<1> DEFINE ds == deleting.ds
           purged(i) == IF i > deleting.seen THEN rows[i]
                        ELSE [rows[i] EXCEPT !.cites = PurgeCitations(ds, @)]
<1>1. /\ deleting # None /\ deleting \in Deletion
      /\ docs' = docs \ ds /\ kbs' = kbs \ {deleting.kb}
      /\ sessKb' = [s \in Sessions |-> IF s \in deleting.unbound THEN None ELSE sessKb[s]]
      /\ rows' = [i \in DOMAIN rows |-> purged(i)]
      /\ deleting' = None
      /\ UNCHANGED <<stream, overlap, late, raced>>
      /\ sessKb \in [Sessions -> KBs \cup {None, "absent"}]
  BY DEF DeleteCommit, ServiceTypeOK
<1>2. /\ rows \in Seq(Row) /\ DOMAIN rows = 1..Len(rows) /\ Len(rows) \in Nat
      /\ \A i \in DOMAIN rows : rows[i] \in Row
  BY DEF ServiceTypeOK
<1>3. \A i \in DOMAIN rows :
        /\ rows'[i] \in Row
        /\ rows'[i].turn = rows[i].turn /\ rows'[i].session = rows[i].session
        /\ rows'[i].cites \subseteq rows[i].cites
        /\ i <= deleting.seen => rows'[i].cites \cap ds = {}
  <2> TAKE i \in DOMAIN rows
  <2>1. rows'[i] = purged(i) /\ rows[i] \in Row /\ ds \in SUBSET Docs /\ i \in Nat /\ deleting.seen \in Nat
    BY <1>1, <1>2 DEF Deletion
  <2>2. CASE i > deleting.seen
    BY <2>1, <2>2
  <2>3. CASE ~(i > deleting.seen)
    <3>1. rows'[i] = [rows[i] EXCEPT !.cites = rows[i].cites \ ds]
      BY <2>1, <2>3 DEF PurgeCitations
    <3> QED BY ONLY <2>1, <2>3, <3>1 DEF Row
  <2> QED BY <2>2, <2>3
<1>4. DOMAIN rows' = DOMAIN rows
  BY <1>1
<1>5. ServiceTypeOK'
  <2>1. rows' \in [1..Len(rows) -> Row]
    BY <1>1, <1>2, <1>3
  <2>2. rows' \in Seq(Row)
    BY <1>2, <2>1, SeqDef
  <2> QED BY <1>1, <2>2 DEF ServiceTypeOK, Deletion
<1>6. OneModel'
  BY <1>1 DEF OneModel
<1>7. \A s \in Sessions : sessKb'[s] = sessKb[s] \/ (s \in deleting.unbound /\ sessKb'[s] = None)
  BY <1>1
<1>8. \A s \in deleting.unbound : deleting.kb # None /\ sessKb[s] = deleting.kb
  BY <1>1 DEF DeletionScope
\* What was placed and is not of the deleted documents stays placed.
<1>9. ASSUME NEW t \in Turns, NEW s \in Sessions, NEW d \in Docs,
             Placed(t, s, d), d \notin ds \/ <<t, d>> \in overlap
      PROVE \/ d \in docs' /\ (KbOf[d] = sessKb'[s] \/ s \in raced)
            \/ <<t, d>> \in overlap'
  <2>1. CASE <<t, d>> \in overlap
    BY <1>1, <2>1
  <2>2. CASE <<t, d>> \notin overlap
    <3>1. d \in docs /\ (KbOf[d] = sessKb[s] \/ s \in raced) /\ d \notin ds
      BY <1>9, <2>2 DEF Placed
    <3>2. KbOf[d] = sessKb[s] => s \notin deleting.unbound
      BY <1>1, <1>8, <3>1 DEF DeletionScope
    <3> QED BY <1>1, <3>1, <3>2
  <2> QED BY <2>1, <2>2
<1>10. StreamBound'
  <2> SUFFICES ASSUME NEW t \in Turns, InFlight(t) PROVE BoundAs(t)'
    BY <1>1 DEF StreamBound, InFlight
  <2>1. BoundAs(t) /\ stream[t].session \in Sessions
    BY DEF StreamBound, BoundAs
  <2>2. Visible(stream[t].kb) = {} => Visible(stream[t].kb)' = {}
    BY <1>1 DEF Visible
  <2>3. ASSUME sessKb[stream[t].session] = stream[t].kb, stream[t].session \in deleting.unbound
        PROVE Visible(stream[t].kb)' = {}
    <3>1. stream[t].kb = deleting.kb /\ deleting.kb # None
      BY <1>8, <2>3
    <3>2. \A d \in Docs : KbOf[d] = deleting.kb => d \in ds
      BY <1>1, <3>1 DEF DeletionScope
    <3> QED BY <1>1, <3>1, <3>2 DEF Visible, ServiceTypeOK
  <2>4. sessKb'[stream[t].session] \in {sessKb[stream[t].session], None}
    BY <1>7, <2>1
  <2>5. stream[t].session \notin deleting.unbound =>
            sessKb'[stream[t].session] = sessKb[stream[t].session]
    BY <1>7, <2>1
  <2> QED BY <1>1, <2>1, <2>2, <2>3, <2>4, <2>5 DEF BoundAs, Checked
<1>16. BindersKnown'
  BY <1>1 DEF BindersKnown
<1>11. NewSessionUnused'
  <2> SUFFICES ASSUME NEW t \in Turns, Unopened(t)
               PROVE /\ stream[t].cited = {} /\ sessKb'[t] = "absent"
                     /\ \A u \in Turns : u # t => stream[u].session # t
                     /\ \A i \in DOMAIN rows : rows'[i].session # t
    BY <1>1, <1>4, ZenonT(40) DEF NewSessionUnused, Unopened
  <2>1. sessKb[t] = "absent" /\ t \in Sessions
    BY DEF NewSessionUnused, Sessions
  <2>2. t \notin deleting.unbound
    BY <1>1, <1>8, <2>1 DEF Deletion
  <2> QED BY <1>3, <1>7, <2>1, <2>2 DEF NewSessionUnused
<1>12. DeletionScope' /\ OverlapKnown'
  BY <1>1 DEF DeletionScope, OverlapKnown
<1>13. StreamsPlaced'
  <2> SUFFICES ASSUME NEW t \in Turns, InFlight(t), NEW d \in stream[t].cited
               PROVE \/ d \in docs' /\ \/ KbOf[d] = sessKb'[stream[t].session]
                                       \/ stream[t].session \in raced
                     \/ <<t, d>> \in overlap'
    BY <1>1 DEF StreamsPlaced, InFlight, Placed
  <2>1. stream[t].session \in Sessions /\ d \in Docs /\ Placed(t, stream[t].session, d)
    BY DEF StreamBound, BoundAs, StreamsPlaced, ServiceTypeOK, StreamState
  <2>2. d \notin ds \/ <<t, d>> \in overlap
    BY <1>1 DEF OverlapKnown
  <2> QED BY <1>9, <2>1, <2>2
<1>14. RowsPlaced'
  <2> SUFFICES ASSUME NEW i \in DOMAIN rows, NEW d \in rows'[i].cites
               PROVE \/ d \in docs' /\ \/ KbOf[d] = sessKb'[rows'[i].session]
                                       \/ rows'[i].session \in raced
                     \/ <<rows'[i].turn, d>> \in overlap'
    BY <1>1, <1>4 DEF RowsPlaced, Placed
  <2> DEFINE t == rows[i].turn
             s == rows[i].session
  <2>1. t \in Turns /\ s \in Sessions /\ d \in Docs /\ d \in rows[i].cites
    BY <1>2, <1>3 DEF Row
  <2>2. Placed(t, s, d)
    BY <2>1 DEF RowsPlaced
  <2>3. d \notin ds \/ <<t, d>> \in overlap
    <3>1. CASE i > deleting.seen
      BY <1>1, <2>1, <3>1 DEF OverlapKnown
    <3>2. CASE ~(i > deleting.seen)
      <4>1. i <= deleting.seen
        BY <1>1, <1>2, <3>2 DEF Deletion
      <4> QED BY <1>3, <4>1
    <3> QED BY <3>1, <3>2
  <2> HIDE DEF t, s
  <2>4. \/ d \in docs' /\ (KbOf[d] = sessKb'[s] \/ s \in raced)
        \/ <<t, d>> \in overlap'
    BY <1>9, <2>1, <2>2, <2>3
  <2> QED BY <1>3, <2>4 DEF t, s
<1>15. BindingAlive'
  <2> SUFFICES ASSUME NEW s \in Sessions, s \notin late
               PROVE sessKb'[s] \in kbs' \cup {None, "absent"}
    BY <1>1 DEF BindingAlive
  <2>1. sessKb[s] \in kbs \cup {None, "absent"}
    BY DEF BindingAlive
  <2>2. CASE deleting.kb # None /\ sessKb[s] = deleting.kb
    BY <1>1, <2>2 DEF DeletionScope
  <2>3. CASE deleting.kb = None \/ sessKb[s] # deleting.kb
    BY <1>1, <1>7, <2>1, <2>3 DEF ServiceTypeOK
  <2> QED BY <2>2, <2>3
<1> QED BY <1>5, <1>6, <1>10, <1>11, <1>12, <1>13, <1>14, <1>15, <1>16

-----------------------------------------------------------------------------
LEMMA ChatStep == ChatInductive /\ [ServiceNext]_serviceVars => ChatInductive'
<1> SUFFICES ASSUME ChatInductive, [ServiceNext]_serviceVars PROVE ChatInductive'
  OBVIOUS
<1> USE ChatConstants
<1>1. ASSUME NEW t \in Turns, NEW k \in KBs, NEW s \in Sessions \cup {None}, CheckSession(t, k, s)
      PROVE ChatInductive'
  BY <1>1, CheckKeeps
<1>2. ASSUME NEW t \in Turns, Reject(t) \/ StreamNext(t) \/ Disconnect(t)
      PROVE ChatInductive'
  BY <1>2, EventsKeep, BeginKeeps, RetrieveKeeps, PersistKeeps DEF StreamNext
<1>3. ASSUME NEW d \in Docs, DeleteDocumentBegin(d) PROVE ChatInductive'
  BY <1>3, DeleteBeginKeeps DEF DeleteDocumentBegin
<1>4. ASSUME NEW k \in KBs, DeleteKbBegin(k) PROVE ChatInductive'
  <2> DEFINE ds == {d \in Docs : KbOf[d] = k}
  <2>1. ds \in SUBSET Docs /\ k \in kbs /\ DeleteBegin(ds, k)
    BY <1>4 DEF DeleteKbBegin
  <2> QED BY <2>1, DeleteBeginKeeps
<1>5. CASE DeleteCommit \/ DeleteAborts
  BY <1>5, DeleteCommitKeeps, DeleteAbortsKeeps
<1>6. CASE UNCHANGED serviceVars
  <2> USE <1>6 DEF ChatInductive, serviceVars
  <2>1. ServiceTypeOK' /\ DeletionScope' /\ OverlapKnown'
    BY DEF ServiceTypeOK, DeletionScope, OverlapKnown, InFlight
  <2>2. OneModel' /\ NewSessionUnused' /\ BindingAlive' /\ StreamBound'
    BY DEF OneModel, NewSessionUnused, BindingAlive, StreamBound, InFlight, Visible, BoundAs, Unopened
  <2>4. BindersKnown'
    BY DEF BindersKnown
  <2>3. StreamsPlaced' /\ RowsPlaced'
    BY DEF StreamsPlaced, RowsPlaced, Placed, InFlight
  <2> QED BY <2>1, <2>2, <2>3, <2>4
<1> QED BY <1>1, <1>2, <1>3, <1>4, <1>5, <1>6 DEF ServiceNext, DeletionNext

\* The inductive invariant of the chat service holds in every reachable state.
THEOREM ChatInvariant == ServiceSpec => []ChatInductive
<1> QED BY ChatInit, ChatStep, PTL DEF ServiceSpec

\* Stored citations point at documents that exist, unless their answer was on
\* its way during the deletion (chat.py:333, deletion.py:70).
THEOREM StoredCitationsResolve == ServiceSpec => []CitationsResolve
<1>1. ChatInductive => CitationsResolve
  BY DEF ChatInductive, RowsPlaced, Placed, CitationsResolve
<1> QED BY <1>1, ChatInvariant, PTL

\* A conversation cites its own knowledge base only, through unbinding and
\* binding again (chat.py:226-232).
THEOREM ConversationsCiteTheirKb == ServiceSpec => []SessionCitesItsKb
<1>1. ChatInductive => SessionCitesItsKb
  BY DEF ChatInductive, RowsPlaced, Placed, SessionCitesItsKb
<1> QED BY <1>1, ChatInvariant, PTL

\* Sessions are bound to knowledge bases that exist, unless they were bound while
\* it was being deleted (deletion.py:116).
THEOREM BindingsAreAlive == ServiceSpec => []BindingAlive
<1>1. ChatInductive => BindingAlive
  BY DEF ChatInductive
<1> QED BY <1>1, ChatInvariant, PTL

\* No answer holds events of two models (graph.py:340).
THEOREM AnswersAreOfOneModel == ServiceSpec => []SingleModelAnswer
<1>1. ASSUME ChatInductive, NEW t \in Turns PROVE Cardinality(stream[t].models) <= 1
  <2>1. PICK m \in InTry : stream[t].models \subseteq {m}
    BY <1>1 DEF ChatInductive, OneModel
  <2>2. IsFiniteSet({m}) /\ Cardinality({m}) = 1
    BY FS_Singleton
  <2> QED BY <2>1, <2>2, FS_Subset
<1>2. ChatInductive => SingleModelAnswer
  BY <1>1 DEF SingleModelAnswer
<1> QED BY <1>2, ChatInvariant, PTL
-----------------------------------------------------------------------------
(***************************************************************************)
(* The browser's store beside the service.  Whatever the store does, the   *)
(* service takes one of its own steps or none.                             *)
(***************************************************************************)
\* The stream that feeds the store has its message on the screen, or the screen
\* has moved on.
LiveOnScreen ==
    live # None =>
        \/ live \in moved
        \/ \E i \in DOMAIN messages : IsAssistant(messages[i], live)

\* A session that is being loaded exists.
LoadingExists == loading # None => sessKb[loading] # "absent"

StoreParts ==
    /\ StoreTypeOK /\ LiveOnScreen /\ LoadingExists
    /\ DeltasStayInTheirMessage /\ PanelMatchesScreen

TurnInductive == ChatInductive /\ StoreParts

\* The stored turns of a session are turns, in a sequence of their own.
LEMMA RowsOfType ==
    ASSUME rows \in Seq(Row), NEW s
    PROVE RowsOf(s) \in Seq(Row)
<1> DEFINE N == Len(rows)
           Body(f, n) == IF n = 0 THEN <<>>
                         ELSE IF rows[n].session = s THEN Append(f[n - 1], rows[n]) ELSE f[n - 1]
           kept == CHOOSE f : f = [n \in 0..N |-> Body(f, n)]
           step == [n \in 1..N |-> [q \in Seq(Row) |->
                        IF rows[n].session = s THEN Append(q, rows[n]) ELSE q]]
<1>1. N \in Nat /\ \A n \in 1..N : rows[n] \in Row
  OBVIOUS
<1>2. step \in [1..N -> [Seq(Row) -> Seq(Row)]]
  BY <1>1
<1> HIDE DEF N
<1>3. \E f : f = [n \in 0..N |-> Body(f, n)]
  <2>1. PICK f \in [0..N -> Seq(Row)] :
          \A n \in 0..N : f[n] = IF n = 0 THEN <<>> ELSE step[n][f[n - 1]]
    <3>1. <<>> \in Seq(Row)
      OBVIOUS
    <3>2. PICK f : Follows(f, Seq(Row), <<>>, step, N)
      <4> HIDE DEF step
      <4> QED BY <1>1, <1>2, <3>1, RecursionUpTo
    <3> QED BY <3>2 DEF Follows
  <2>2. \A n \in 0..N : f[n] = Body(f, n)
    BY <1>1, <2>1
  <2>3. f = [n \in 0..N |-> Body(f, n)]
    BY <2>1, <2>2
  <2> QED BY <2>3
<1>4. kept = [n \in 0..N |-> Body(kept, n)]
  BY <1>3
<1>5. RowsOf(s) = kept[N]
  BY DEF RowsOf, N
<1> HIDE DEF kept
<1>6. \A n \in 0..N : kept[n] = Body(kept, n)
  BY <1>4
<1> DEFINE S == {n \in 0..N : kept[n] \in Seq(Row)}
<1>7. 0 \in S
  <2>1. 0 \in 0..N /\ <<>> \in Seq(Row)
    BY <1>1
  <2>2. kept[0] = <<>>
    BY <1>6, <2>1
  <2> QED BY <2>1, <2>2
<1>8. ASSUME NEW n \in 0..N, n \in S, n < N PROVE n + 1 \in S
  <2>1. n + 1 \in 1..N /\ (n + 1) - 1 = n
    BY <1>1, <1>8
  <2>2. kept[n + 1] = IF rows[n + 1].session = s THEN Append(kept[n], rows[n + 1]) ELSE kept[n]
    BY <1>6, <2>1
  <2>3. kept[n] \in Seq(Row) /\ rows[n + 1] \in Row
    BY <1>1, <1>8, <2>1
  <2>4. Append(kept[n], rows[n + 1]) \in Seq(Row)
    BY <2>3
  <2>5. kept[n + 1] \in Seq(Row)
    BY <2>2, <2>3, <2>4
  <2> QED BY <2>1, <2>5
<1> HIDE DEF S
<1>9. 0..N \subseteq S
  BY <1>1, <1>7, <1>8, BoundedInduction
<1> QED BY <1>1, <1>5, <1>9 DEF S

\* What a handler does to the message of its stream, and to no other.
LEMMA UpdatedOnly ==
    ASSUME StoreParts, NEW t \in Turns, NEW new \in [Message -> Message],
           \A m \in Message : /\ new[m].turn = m.turn /\ new[m].local = m.local
                              /\ new[m].from \subseteq m.from \cup {t},
           messages' = [i \in DOMAIN messages |->
                          IF IsAssistant(messages[i], t) THEN new[messages[i]] ELSE messages[i]],
           live' \in {live, None}, moved' = moved
    PROVE /\ messages' \in Seq(Message) /\ DOMAIN messages' = DOMAIN messages
          /\ \A i \in DOMAIN messages :
                /\ messages[i] \in Message /\ messages'[i].turn = messages[i].turn
                /\ messages'[i] = IF IsAssistant(messages[i], t) THEN new[messages[i]] ELSE messages[i]
          /\ DeltasStayInTheirMessage' /\ LiveOnScreen'
<1>1. messages \in Seq(Message) /\ DOMAIN messages = 1..Len(messages) /\ Len(messages) \in Nat
  BY DEF StoreParts, StoreTypeOK
<1>2. \A i \in DOMAIN messages : messages[i] \in Message
  BY <1>1
<1>3. /\ DOMAIN messages' = DOMAIN messages
      /\ \A i \in DOMAIN messages :
            messages'[i] = IF IsAssistant(messages[i], t) THEN new[messages[i]] ELSE messages[i]
  OBVIOUS
<1>4. \A i \in DOMAIN messages :
        /\ messages'[i] \in Message /\ messages'[i].turn = messages[i].turn
        /\ messages'[i].local = messages[i].local
  BY <1>2, <1>3
<1>5. messages' \in Seq(Message)
  BY <1>1, <1>4
<1>6. DeltasStayInTheirMessage'
  <2> SUFFICES ASSUME NEW i \in DOMAIN messages PROVE messages'[i].from \subseteq {messages'[i].turn}
    BY <1>3 DEF DeltasStayInTheirMessage
  <2>1. messages[i].from \subseteq {messages[i].turn}
    BY DEF StoreParts, DeltasStayInTheirMessage
  <2>2. CASE IsAssistant(messages[i], t)
    BY <1>2, <1>3, <2>1, <2>2 DEF IsAssistant
  <2>3. CASE ~IsAssistant(messages[i], t)
    BY <1>3, <2>1, <2>3
  <2> QED BY <2>2, <2>3
<1>7. LiveOnScreen'
  BY <1>3, <1>4 DEF StoreParts, LiveOnScreen, IsAssistant
<1> QED BY <1>2, <1>3, <1>4, <1>5, <1>6, <1>7

LEMMA ContentKeeps ==
    ASSUME StoreParts, NEW t \in Turns, OnContent(t), sessKb' = sessKb
    PROVE StoreParts'
<1> DEFINE new == [m \in Message |-> [m EXCEPT !.from = @ \cup {t}]]
<1>1. new \in [Message -> Message]
  BY DEF Message
<1>2. /\ messages' = [i \in DOMAIN messages |->
                        IF IsAssistant(messages[i], t) THEN [messages[i] EXCEPT !.from = @ \cup {t}]
                        ELSE messages[i]]
      /\ UNCHANGED <<activeSession, activeKb, latest, streaming, live, pending, loading, moved>>
  BY DEF OnContent, Updated
<1>3. messages \in Seq(Message) /\ \A i \in DOMAIN messages : messages[i] \in Message
  BY DEF StoreParts, StoreTypeOK
<1>4. messages' = [i \in DOMAIN messages |->
                     IF IsAssistant(messages[i], t) THEN new[messages[i]] ELSE messages[i]]
  BY <1>2, <1>3
<1>5. \A m \in Message : /\ new[m].turn = m.turn /\ new[m].local = m.local /\ new[m].cites = m.cites
                         /\ new[m].from \subseteq m.from \cup {t}
  BY DEF Message
<1> HIDE DEF new
<1>6. /\ messages' \in Seq(Message) /\ DOMAIN messages' = DOMAIN messages
      /\ \A i \in DOMAIN messages :
            /\ messages[i] \in Message /\ messages'[i].turn = messages[i].turn
            /\ messages'[i] = IF IsAssistant(messages[i], t) THEN new[messages[i]] ELSE messages[i]
      /\ DeltasStayInTheirMessage' /\ LiveOnScreen'
  BY <1>1, <1>2, <1>4, <1>5, UpdatedOnly
<1>7. StoreTypeOK'
  BY <1>2, <1>6 DEF StoreParts, StoreTypeOK
<1>8. PanelMatchesScreen'
  <2>1. \A i \in DOMAIN messages : messages'[i].cites = messages[i].cites
    BY <1>5, <1>6
  <2> QED BY <1>2, <1>6, <2>1 DEF StoreParts, PanelMatchesScreen
<1>9. LoadingExists'
  BY <1>2 DEF StoreParts, LoadingExists
<1> QED BY <1>6, <1>7, <1>8, <1>9 DEF StoreParts

\* A stream that fails clears the panel.
LEMMA ErrorKeeps ==
    ASSUME StoreParts, NEW t \in Turns, sessKb' = sessKb,
           messages' = Updated(t, LAMBDA m : [m EXCEPT !.status = "error", !.cites = {}]),
           latest' = NoReferences,
           streaming' \in BOOLEAN, live' \in {live, None}, pending' \in SUBSET Docs,
           UNCHANGED <<activeSession, activeKb, loading, moved>>
    PROVE StoreParts'
<1> DEFINE new == [m \in Message |-> [m EXCEPT !.status = "error", !.cites = {}]]
<1>1. new \in [Message -> Message]
  BY DEF Message
<1>2. messages' = [i \in DOMAIN messages |->
                     IF IsAssistant(messages[i], t)
                     THEN [messages[i] EXCEPT !.status = "error", !.cites = {}] ELSE messages[i]]
  BY DEF Updated
<1>3. messages \in Seq(Message) /\ \A i \in DOMAIN messages : messages[i] \in Message
  BY DEF StoreParts, StoreTypeOK
<1>4. messages' = [i \in DOMAIN messages |->
                     IF IsAssistant(messages[i], t) THEN new[messages[i]] ELSE messages[i]]
  BY <1>2, <1>3
<1>5. \A m \in Message : /\ new[m].turn = m.turn /\ new[m].local = m.local
                         /\ new[m].from \subseteq m.from \cup {t}
  BY DEF Message
<1> HIDE DEF new
<1>6. messages' \in Seq(Message) /\ DeltasStayInTheirMessage' /\ LiveOnScreen'
  BY <1>1, <1>4, <1>5, UpdatedOnly
<1>7. StoreTypeOK'
  BY <1>6, ChatConstants DEF StoreParts, StoreTypeOK, NoReferences
<1>8. PanelMatchesScreen' /\ LoadingExists'
  BY DEF StoreParts, PanelMatchesScreen, NoReferences, LoadingExists
<1> QED BY <1>6, <1>7, <1>8 DEF StoreParts

\* The answer is shown in its message, and its documents in the panel.
LEMMA DoneKeeps ==
    ASSUME StoreParts, NEW t \in Turns, live = t, NEW finish, OnDone(t, finish), sessKb' = sessKb
    PROVE StoreParts'
<1> DEFINE shown == IF finish = "no_hit" THEN {} ELSE pending
           new == [m \in Message |-> [m EXCEPT !.status = "done", !.cites = shown]]
<1>1. shown \in SUBSET Docs
  BY DEF StoreParts, StoreTypeOK
<1>2. /\ messages' = [i \in DOMAIN messages |->
                        IF IsAssistant(messages[i], t)
                        THEN [messages[i] EXCEPT !.status = "done", !.cites = shown] ELSE messages[i]]
      /\ latest' = IF shown = {} THEN NoReferences ELSE [turn |-> t, cites |-> shown]
      /\ streaming' = FALSE /\ live' = None /\ pending' = {}
      /\ UNCHANGED <<activeSession, activeKb, loading, moved>>
  BY DEF OnDone, Updated, StillStreaming
<1> HIDE DEF shown
<1>3. new \in [Message -> Message]
  BY <1>1 DEF Message
<1>4. messages \in Seq(Message) /\ \A i \in DOMAIN messages : messages[i] \in Message
  BY DEF StoreParts, StoreTypeOK
<1>5. messages' = [i \in DOMAIN messages |->
                     IF IsAssistant(messages[i], t) THEN new[messages[i]] ELSE messages[i]]
  BY <1>2, <1>4
<1>6. \A m \in Message : /\ new[m].turn = m.turn /\ new[m].local = m.local /\ new[m].cites = shown
                         /\ new[m].from \subseteq m.from \cup {t}
  BY DEF Message
<1> HIDE DEF new
<1>7. /\ messages' \in Seq(Message) /\ DOMAIN messages' = DOMAIN messages
      /\ \A i \in DOMAIN messages :
            /\ messages[i] \in Message /\ messages'[i].turn = messages[i].turn
            /\ messages'[i] = IF IsAssistant(messages[i], t) THEN new[messages[i]] ELSE messages[i]
      /\ DeltasStayInTheirMessage' /\ LiveOnScreen'
  BY <1>2, <1>3, <1>5, <1>6, UpdatedOnly
<1>8. StoreTypeOK'
  <2>1. latest' \in [turn: Turns \cup {None}, cites: SUBSET Docs]
    BY <1>1, <1>2 DEF NoReferences
  <2> QED BY <1>2, <1>7, <2>1 DEF StoreParts, StoreTypeOK
<1>9. PanelMatchesScreen'
  <2> SUFFICES ASSUME shown # {}
               PROVE \/ \E i \in DOMAIN messages' : messages'[i].turn = t /\ messages'[i].cites = shown
                     \/ t \in moved
    BY <1>2 DEF PanelMatchesScreen, NoReferences
  <2>1. t \in moved \/ \E i \in DOMAIN messages : IsAssistant(messages[i], t)
    BY ChatConstants DEF StoreParts, LiveOnScreen
  <2>2. ASSUME NEW i \in DOMAIN messages, IsAssistant(messages[i], t)
        PROVE messages'[i].turn = t /\ messages'[i].cites = shown
    BY <1>6, <1>7, <2>2 DEF IsAssistant
  <2> QED BY <1>7, <2>1, <2>2
<1>10. LoadingExists'
  BY <1>2 DEF StoreParts, LoadingExists
<1> QED BY <1>7, <1>8, <1>9, <1>10 DEF StoreParts

\* A question is put on the screen, with its stream or with its refusal.
LEMMA SendKeeps ==
    ASSUME StoreParts, NEW t \in Turns, SendQuestion(t) \/ SendFails(t),
           loading # None => sessKb'[loading] # "absent"
    PROVE StoreParts'
<1>1. PICK status \in {"streaming", "error"} :
        messages' = Append(messages, [turn |-> t, local |-> TRUE, from |-> {},
                                      status |-> status, cites |-> {}])
  BY DEF SendQuestion, SendFails
<1> DEFINE m == [turn |-> t, local |-> TRUE, from |-> {}, status |-> status, cites |-> {}]
<1>2. m \in Message /\ m.from = {} /\ IsAssistant(m, t) /\ messages' = Append(messages, m)
  BY <1>1 DEF Message, IsAssistant
<1>3. /\ latest' = NoReferences /\ UNCHANGED <<activeSession, activeKb, loading, moved>>
      /\ \/ live' = t /\ pending' = {} /\ streaming' = TRUE
         \/ UNCHANGED <<live, pending, streaming>>
  BY DEF SendQuestion, SendFails
<1> HIDE DEF m
<1>4. /\ messages \in Seq(Message) /\ Len(messages) \in Nat /\ messages' \in Seq(Message)
      /\ DOMAIN messages = 1..Len(messages) /\ DOMAIN messages' = 1..(Len(messages) + 1)
      /\ \A i \in DOMAIN messages : messages'[i] = messages[i]
      /\ messages'[Len(messages) + 1] = m
  BY <1>2 DEF StoreParts, StoreTypeOK
<1>5. StoreTypeOK'
  BY <1>3, <1>4 DEF StoreParts, StoreTypeOK, NoReferences
<1>6. DeltasStayInTheirMessage'
  <2> SUFFICES ASSUME NEW i \in DOMAIN messages' PROVE messages'[i].from \subseteq {messages'[i].turn}
    BY DEF DeltasStayInTheirMessage
  <2>1. CASE i \in DOMAIN messages
    BY <1>4, <2>1 DEF StoreParts, DeltasStayInTheirMessage
  <2>2. CASE i = Len(messages) + 1
    BY <1>2, <1>4, <2>2
  <2> QED BY <1>4, <2>1, <2>2
<1>7. LiveOnScreen'
  <2>1. CASE live' = t
    BY <1>2, <1>4, <2>1 DEF LiveOnScreen, IsAssistant
  <2>2. CASE live' = live
    BY <1>3, <1>4, <2>2 DEF StoreParts, LiveOnScreen, IsAssistant
  <2> QED BY <1>3, <2>1, <2>2
<1>8. PanelMatchesScreen' /\ LoadingExists'
  BY <1>3 DEF StoreParts, PanelMatchesScreen, NoReferences, LoadingExists
<1> QED BY <1>5, <1>6, <1>7, <1>8 DEF StoreParts

\* Another conversation comes to the screen: an empty one, or a stored one.
LEMMA ScreenKeeps ==
    ASSUME StoreParts, NEW shown \in Seq(Message), messages' = shown,
           \A i \in DOMAIN shown : shown[i].from \subseteq {shown[i].turn},
           latest' = NoReferences \/ \E i \in DOMAIN shown :
                latest' = [turn |-> shown[i].turn, cites |-> shown[i].cites],
           moved' = Leaving, activeSession' \in Sessions \cup {None}, activeKb' \in KBs \cup {None},
           loading' \in {loading, None},
           UNCHANGED <<streaming, live, pending, sessKb>>
    PROVE StoreParts'
<1>1. \A i \in DOMAIN shown : shown[i] \in Message
  OBVIOUS
<1>2. latest' \in [turn: Turns \cup {None}, cites: SUBSET Docs]
  BY <1>1 DEF NoReferences, Message
<1>3. moved' \in SUBSET Turns /\ (live # None => live \in moved')
  BY DEF Leaving, StoreParts, StoreTypeOK
<1>4. StoreTypeOK' /\ LoadingExists' /\ LiveOnScreen'
  BY <1>2, <1>3 DEF StoreParts, StoreTypeOK, LoadingExists, LiveOnScreen
<1>5. DeltasStayInTheirMessage'
  BY DEF DeltasStayInTheirMessage
<1>6. PanelMatchesScreen'
  BY DEF PanelMatchesScreen, NoReferences
<1> QED BY <1>4, <1>5, <1>6 DEF StoreParts

LEMMA ResetKeeps ==
    ASSUME StoreParts, NEW kb \in KBs \cup {None}, Reset(kb),
           UNCHANGED <<streaming, live, pending, loading, sessKb>>
    PROVE StoreParts'
<1>1. /\ <<>> \in Seq(Message) /\ messages' = <<>> /\ latest' = NoReferences /\ moved' = Leaving
      /\ activeSession' = None /\ activeKb' = kb
  BY DEF Reset, ClearedReferences
<1>2. DOMAIN <<>> = {}
  OBVIOUS
<1> QED BY <1>1, <1>2, ScreenKeeps

LEMMA ShowKeeps ==
    ASSUME TurnInductive, ShowSession, UNCHANGED serviceVars
    PROVE StoreParts'
<1> USE DEF TurnInductive
<1> DEFINE stored == RowsOf(loading)
           shown == [i \in DOMAIN stored |-> LoadedMessage(stored[i])]
           kb == sessKb[loading]
<1>1. loading \in Sessions /\ kb \in KBs \cup {None} /\ rows \in Seq(Row)
      /\ activeKb \in KBs \cup {None}
  BY DEF ShowSession, ChatInductive, ServiceTypeOK, StoreParts, StoreTypeOK, LoadingExists
<1>2. stored \in Seq(Row)
  BY <1>1, RowsOfType
<1>3. /\ activeSession' = loading /\ activeKb' = (IF kb = None THEN activeKb ELSE kb)
      /\ messages' = shown /\ loading' = None /\ moved' = Leaving
      /\ UNCHANGED <<streaming, live, pending, sessKb>>
      /\ latest' = IF shown = <<>> \/ Last(shown).cites = {} THEN NoReferences
                   ELSE [turn |-> Last(shown).turn, cites |-> Last(shown).cites]
  BY DEF ShowSession, serviceVars
<1> HIDE DEF stored, kb
<1>4. /\ Len(stored) \in Nat /\ DOMAIN stored = 1..Len(stored)
      /\ \A i \in DOMAIN stored : stored[i] \in Row
  BY <1>2
<1>5. \A r \in Row : /\ LoadedMessage(r) \in Message
                     /\ LoadedMessage(r).from \subseteq {LoadedMessage(r).turn}
  BY DEF LoadedMessage, Row, Message
<1>6. /\ shown \in Seq(Message) /\ DOMAIN shown = 1..Len(shown) /\ Len(shown) \in Nat
      /\ \A i \in DOMAIN shown : shown[i].from \subseteq {shown[i].turn}
  BY <1>4, <1>5
<1> HIDE DEF shown
<1>7. latest' = NoReferences \/ \E i \in DOMAIN shown :
        latest' = [turn |-> shown[i].turn, cites |-> shown[i].cites]
  <2>1. CASE shown = <<>> \/ Last(shown).cites = {}
    BY <1>3, <2>1
  <2>2. CASE shown # <<>> /\ Last(shown).cites # {}
    <3>1. Len(shown) \in DOMAIN shown /\ Last(shown) = shown[Len(shown)]
      BY <1>6, <2>2 DEF Last
    <3> QED BY <1>3, <2>2, <3>1
  <2> QED BY <2>1, <2>2
<1>8. activeSession' \in Sessions \cup {None} /\ activeKb' \in KBs \cup {None}
  BY <1>1, <1>3
<1> QED BY <1>3, <1>6, <1>7, <1>8, ScreenKeeps

-----------------------------------------------------------------------------
\* What the store's steps are to the service.
LEMMA ServedStep ==
    ASSUME TurnInductive, [Next]_vars
    PROVE [ServiceNext]_serviceVars
<1> USE DEF TurnInductive
<1>1. ASSUME NEW t \in Turns, Ask(t) PROVE ServiceNext
  <2>1. activeSession \in Sessions \cup {None} /\ activeKb \in KBs \cup {None}
    BY DEF StoreParts, StoreTypeOK
  <2>2. CASE CheckSession(t, activeKb, activeSession) /\ SendQuestion(t)
    BY <2>1, <2>2 DEF ServiceNext, SendQuestion, ReadyToSend
  <2>3. CASE Reject(t)
    BY <2>3 DEF ServiceNext
  <2> QED BY <1>1, <2>2, <2>3 DEF Ask
<1>2. ASSUME NEW t \in Turns, StreamProgress(t) \/ Lost(t) PROVE ServiceNext
  BY <1>2 DEF StreamProgress, SendReferences, SendContent, SendNoHit, SendError, SendDone, Silent,
              Lost, ServiceNext, StreamNext
<1>3. CASE \/ StopClick \/ \E k \in KBs : NewConversation(k) /\ UNCHANGED serviceVars
           \/ \E s \in Sessions : OpenConversation(s) \/ RemoveConversation(s)
           \/ ShowSession /\ UNCHANGED serviceVars
  BY <1>3 DEF StopClick, OpenConversation, RemoveConversation
<1>4. CASE UNCHANGED vars
  BY <1>4 DEF vars
<1> QED BY <1>1, <1>2, <1>3, <1>4 DEF Next

LEMMA StoreStep ==
    ASSUME TurnInductive, [Next]_vars
    PROVE StoreParts'
<1> USE ChatConstants DEF TurnInductive
<1>1. ASSUME UNCHANGED storeVars, \A s \in Sessions : sessKb[s] # "absent" => sessKb'[s] # "absent"
      PROVE StoreParts'
  BY <1>1 DEF storeVars, StoreParts, StoreTypeOK, LiveOnScreen, LoadingExists,
              DeltasStayInTheirMessage, PanelMatchesScreen, IsAssistant
<1>2. ASSUME NEW t \in Turns, Ask(t) PROVE StoreParts'
  <2>1. SendQuestion(t) \/ SendFails(t)
    BY <1>2 DEF Ask
  <2>2. loading # None => sessKb'[loading] # "absent"
    <3>1. activeKb \in KBs \cup {None} /\ loading \in Sessions \cup {None}
          /\ sessKb \in [Sessions -> KBs \cup {None, "absent"}]
      BY DEF StoreParts, StoreTypeOK, ChatInductive, ServiceTypeOK
    <3>2. CASE CheckSession(t, activeKb, activeSession)
      BY <3>1, <3>2 DEF CheckSession, StoreParts, LoadingExists
    <3>3. CASE Reject(t)
      BY <3>3 DEF Reject, StoreParts, LoadingExists
    <3> QED BY <1>2, <3>2, <3>3 DEF Ask
  <2> QED BY <2>1, <2>2, SendKeeps
<1>3. ASSUME NEW t \in Turns, StreamProgress(t) \/ Lost(t) PROVE StoreParts'
  <2>1. CASE BeginStream(t) /\ UNCHANGED storeVars
    <3>1. stream[t].kb # "absent"
      BY <2>1 DEF BeginStream, ChatInductive, StreamBound, BoundAs, InFlight, Checked
    <3>2. \A s \in Sessions : sessKb'[s] \in {sessKb[s], stream[t].kb}
      BY <2>1 DEF BeginStream, ChatInductive, ServiceTypeOK
    <3> QED BY <1>1, <2>1, <3>1, <3>2
  <2>2. CASE ~(BeginStream(t) /\ UNCHANGED storeVars)
    <3>1. sessKb' = sessKb
      BY <1>3, <2>2 DEF StreamProgress, SendReferences, SendContent, SendNoHit, SendError, SendDone,
         Silent, Lost, Retrieve, Delta, NoHitAnswer, LlmFails, Done, FallBack, Generated, Persist,
         Disconnect, StreamStep
    <3>2. CASE UNCHANGED storeVars
      BY <1>1, <3>1, <3>2
    <3>3. CASE SendReferences(t) /\ ~UNCHANGED storeVars
      <4>1. /\ stream[t].phase = "accepted" /\ OnReferences(stream[t].session, stream'[t].cited)
            /\ Retrieve(t)
        BY <3>3 DEF SendReferences, Retrieve, Deliver
      <4>2. stream[t].session \in Sessions
        BY <4>1 DEF ChatInductive, StreamBound, BoundAs, InFlight
      <4>3. stream'[t].cited \in SUBSET Docs
        <5>1. ChatInductive'
          BY <4>1, RetrieveKeeps
        <5> QED BY <5>1 DEF ChatInductive, ServiceTypeOK, StreamState
      <4> QED BY <3>1, <4>1, <4>2, <4>3 DEF OnReferences, StoreParts, StoreTypeOK, LiveOnScreen,
                LoadingExists, DeltasStayInTheirMessage, PanelMatchesScreen, IsAssistant
    <3>4. CASE (SendContent(t) \/ SendNoHit(t)) /\ ~UNCHANGED storeVars
      BY <3>1, <3>4, ContentKeeps DEF SendContent, SendNoHit, Deliver
    <3>5. CASE SendError(t) /\ ~UNCHANGED storeVars
      <4>1. OnError(t)
        BY <3>5 DEF SendError, Deliver
      <4> QED BY <3>1, <4>1, ErrorKeeps DEF OnError, StoreParts, StoreTypeOK
    <3>6. CASE SendDone(t) /\ ~UNCHANGED storeVars
      BY <3>1, <3>6, DoneKeeps DEF SendDone, Deliver
    <3>7. CASE Lost(t) /\ ~UNCHANGED storeVars
      <4>1. OnConnectionLost(t)
        BY <3>7 DEF Lost, Deliver
      <4>2. CASE UNCHANGED <<messages, latest>>
        BY <3>1, <4>1, <4>2 DEF OnConnectionLost, StoreParts, StoreTypeOK, LiveOnScreen,
           LoadingExists, DeltasStayInTheirMessage, PanelMatchesScreen
      <4>3. CASE latest' = NoReferences
                 /\ messages' = Updated(t, LAMBDA m : [m EXCEPT !.status = "error", !.cites = {}])
        BY <3>1, <4>1, <4>3, ErrorKeeps DEF OnConnectionLost
      <4> QED BY <4>1, <4>2, <4>3 DEF OnConnectionLost
    <3> QED BY <1>3, <2>2, <3>2, <3>3, <3>4, <3>5, <3>6, <3>7 DEF StreamProgress, Silent
  <2> QED BY <2>1, <2>2
<1>4. CASE StopClick
  BY <1>4 DEF StopClick, Stop, serviceVars, StoreParts, StoreTypeOK, LiveOnScreen,
              LoadingExists, DeltasStayInTheirMessage, PanelMatchesScreen
<1>5. ASSUME NEW k \in KBs, NewConversation(k), UNCHANGED serviceVars PROVE StoreParts'
  BY <1>5, ResetKeeps DEF NewConversation, serviceVars
<1>6. ASSUME NEW s \in Sessions, OpenConversation(s) PROVE StoreParts'
  BY <1>6 DEF OpenConversation, AskSession, serviceVars, StoreParts, StoreTypeOK, LiveOnScreen,
              LoadingExists, DeltasStayInTheirMessage, PanelMatchesScreen, IsAssistant
<1>7. ASSUME NEW s \in Sessions, RemoveConversation(s) PROVE StoreParts'
  <2>1. CASE activeSession = s
    BY <1>7, <2>1, ResetKeeps DEF RemoveConversation, SessionRemoved, serviceVars, StoreParts, StoreTypeOK
  <2>2. CASE activeSession # s
    BY <1>1, <1>7, <2>2 DEF RemoveConversation, SessionRemoved, serviceVars, storeVars
  <2> QED BY <2>1, <2>2
<1>8. CASE ShowSession /\ UNCHANGED serviceVars
  BY <1>8, ShowKeeps
<1>9. CASE UNCHANGED vars
  BY <1>1, <1>9 DEF vars, serviceVars
<1> QED BY <1>2, <1>3, <1>4, <1>5, <1>6, <1>7, <1>8, <1>9 DEF Next

LEMMA TurnInit == Init => TurnInductive
<1> SUFFICES ASSUME Init PROVE TurnInductive
  OBVIOUS
<1>1. ChatInductive
  BY ChatInit DEF Init
<1>2. activeKb \in KBs \cup {None}
  BY DEF Init, StoreInit
<1>3. messages \in Seq(Message) /\ DOMAIN messages = {}
  BY DEF Init, StoreInit
<1>4. StoreParts
  BY <1>2, <1>3 DEF Init, StoreInit, StoreParts, StoreTypeOK, NoReferences, LiveOnScreen,
              LoadingExists, DeltasStayInTheirMessage, PanelMatchesScreen
<1> QED BY <1>1, <1>4 DEF TurnInductive

LEMMA TurnStep == TurnInductive /\ [Next]_vars => TurnInductive'
BY ServedStep, StoreStep, ChatStep DEF TurnInductive

\* The chat as a whole: the service's invariant and the store's.
THEOREM TurnInvariant == Spec => []TurnInductive
<1> QED BY TurnInit, TurnStep, PTL DEF Spec

\* However the store drives it, the service keeps to its own specification.
THEOREM TheStoreIsServed == Spec => ServiceSpec
<1>1. Init => ServiceInit
  BY DEF Init
<1> QED BY <1>1, ServedStep, TurnInvariant, PTL DEF Spec, ServiceSpec

\* What a stream delivers lands in the message of its own question (chat.ts:165).
THEOREM DeltasFindTheirMessage == Spec => []DeltasStayInTheirMessage
<1>1. TurnInductive => DeltasStayInTheirMessage
  BY DEF TurnInductive, StoreParts
<1> QED BY <1>1, TurnInvariant, PTL

\* The evidence panel belongs to an answer on the screen, or to one that was
\* still streaming when its conversation was left (chat.ts:216).
THEOREM PanelBelongsToTheScreen == Spec => []PanelMatchesScreen
<1>1. TurnInductive => PanelMatchesScreen
  BY DEF TurnInductive, StoreParts
<1> QED BY <1>1, TurnInvariant, PTL
=============================================================================
