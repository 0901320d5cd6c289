-------------------------- MODULE IngestInvariant --------------------------
(***************************************************************************)
(* The inductive strengthening of the safety properties of IngestPipeline, *)
(* as named conjuncts.                                                     *)
(***************************************************************************)
EXTENDS IngestPipeline

\* Whatever names a job names one that a request has committed for a document.
Committed(j) == j \in Jobs /\ jobStatus[j] # "none"

References ==
    /\ \A j \in unsent \cup lost \cup dropped : Committed(j)
    /\ \A m \in queue : Committed(m.job)
    /\ \A w \in Workers : Active(w) => Committed(wJob[w])

\* A job row belongs to a document row; without it, it has no receipts.
JobRowsMatch ==
    \A j \in Jobs :
        /\ jobStatus[j] = "none" <=> jobDoc[j] = NoDoc
        /\ jobStatus[j] \in JobRowStatus => Present(jobDoc[j])
        /\ jobStatus[j] = "gone" => docStatus[jobDoc[j]] = "deleted"
        /\ jobStatus[j] \notin JobRowStatus => receipts[j] = {}

\* Rows of the index and parse tables belong to a document row; a delete request
\* knows its document, and unlinks files only after the row is gone.
DataRowsMatch ==
    \A d \in Docs :
        /\ ~Present(d) => ~parseRow[d] /\ \A s \in IndexSteps : rows[s][d] = 0
        /\ delPhase[d] = "collected" => docStatus[d] # "absent"
        /\ delPhase[d] = "committed" => docStatus[d] = "deleted"

\* A task that takes the cancelled path has lost its document for good.
CancelledAreGone == \A w \in Workers : phase[w] = "cancel" => ~Present(Doc(w))

\* A transaction that has deleted index rows still has them to replace: another
\* one at the same table and document has found none.
RowsLocked ==
    \A w \in Workers : phase[w] = "record" /\ seg[w] \in IndexSteps =>
        /\ Present(Doc(w)) => seen[w] <= rows[seg[w]][Doc(w)]
        /\ \A v \in Workers \ {w} :
              At(v, "record", seg[w]) /\ Doc(v) = Doc(w) => seen[v] = 0 \/ seen[w] = 0

\* A worker's position tells which receipts its job has.
StepsRecorded ==
    \A w \in Workers : Active(w) /\ Present(Doc(w)) =>
        /\ \A s \in ReceiptSteps : s < seg[w] => s \in receipts[wJob[w]]
        /\ hit[w] /\ phase[w] \in {"work", "record"} => seg[w] \in receipts[wJob[w]]

\* A worker's position tells which rows and files its document has.
StepsWritten ==
    \A w \in Workers : Active(w) /\ Present(Doc(w)) =>
        /\ \A s \in IndexSteps : s < seg[w] => rows[s][Doc(w)] > 0
        /\ At(w, "record", AssetRegister) \/ seg[w] = Finalize => "assets" \in files[Doc(w)]
        /\ At(w, "record", Finalize) => "markdown" \in files[Doc(w)]

\* The uploaded file lasts as long as the document.
PdfKept == \A d \in Docs : Present(d) => "pdf" \in files[d]

\* Somebody will still write the status of d: a message, a worker that has not
\* reported its failure yet, or (while d is pending) a request.
WillSettle(d) ==
    \/ docStatus[d] = "pending" /\ \E j \in unsent \cup lost : jobDoc[j] = d
    \/ \E m \in queue : jobDoc[m.job] = d
    \/ \E w \in Workers : Active(w) /\ phase[w] # "raise" /\ Doc(w) = d

\* The last run of a job of d ended without a report.
WasDropped(d) == \E j \in dropped : jobDoc[j] = d

UnsettledInHand ==
    \A d \in Docs : docStatus[d] \in LiveStatus \ Settled => WillSettle(d) \/ WasDropped(d)

Inductive ==
    /\ TypeOK /\ References /\ JobRowsMatch /\ DataRowsMatch /\ CancelledAreGone
    /\ RowsLocked /\ StepsRecorded /\ StepsWritten /\ PdfKept
    /\ SucceededLedger /\ ReadyComplete /\ UnsettledInHand

(***************************************************************************)
(* The session ids in receipts, and what workers hold of them.             *)
(***************************************************************************)
\* The receipt of upload_to_ocr names a session, and lasts as long as the job.
UploadRecorded ==
    \A j \in Jobs :
        /\ UploadToOcr \in receipts[j] => upSession[j] \in Sessions
        /\ jobStatus[j] \notin JobRowStatus => upSession[j] = NoSession

\* A worker about to commit an upload knows its session.
FreshKnown ==
    \A w \in Workers : At(w, "record", UploadToOcr) /\ ~hit[w] => fresh[w] \in Sessions

\* Between the poll and the release a worker holds the job's session; past the
\* release the service no longer has it.
SessionHeld ==
    \A w \in Workers : Active(w) /\ Present(Doc(w)) =>
        /\ \/ seg[w] = PollAndFetchOcr /\ phase[w] \in {"work", "record"}
           \/ seg[w] = ReleaseOcr /\ phase[w] \in {"check", "work"}
           => held[w] = upSession[wJob[w]]
        /\ At(w, "record", ReleaseOcr) \/ seg[w] > ReleaseOcr
           => session[upSession[wJob[w]]] = "gone"

SessionsInductive ==
    Inductive /\ UploadRecorded /\ FreshKnown /\ SessionHeld /\ SucceededReleasesOcr

(***************************************************************************)
(* Who has a job in hand while no message is delivered twice at a time,    *)
(* and whose session is whose.                                             *)
(***************************************************************************)
\* A job is with one request, one message or one worker.
SoleCustody ==
    redeliveries = 0 =>
        /\ \A j \in unsent :
              /\ \A m \in queue : m.job # j
              /\ \A w \in Workers : Active(w) => wJob[w] # j
        /\ \A m, n \in queue : m.job = n.job => m = n
        /\ \A m \in queue, w \in Workers : Active(w) => wJob[w] # m.job
        /\ \A v, w \in Workers : Active(v) /\ Active(w) /\ wJob[v] = wJob[w] => v = w

\* A session in a receipt, in a worker's hands or just uploaded is nobody else's.
SessionsOwned ==
    /\ \A i, j \in Jobs : upSession[i] \in Sessions /\ upSession[i] = upSession[j] => i = j
    /\ \A j \in Jobs : upSession[j] \in Sessions => session[upSession[j]] # "unused"
    /\ \A w \in Workers : held[w] \in Sessions =>
          /\ Active(w) /\ session[held[w]] # "unused"
          /\ \A j \in Jobs \ {wJob[w]} : upSession[j] # held[w]
    /\ \A w \in Workers : fresh[w] \in Sessions =>
          /\ session[fresh[w]] = "live"
          /\ \A j \in Jobs : upSession[j] # fresh[w]
          /\ \A v \in Workers : held[v] # fresh[w]
          /\ \A v \in Workers \ {w} : fresh[v] # fresh[w]

\* The session of a job lives until its result was fetched.
LiveUntilPolled ==
    \A j \in Jobs : jobStatus[j] \in JobRowStatus
        /\ UploadToOcr \in receipts[j] /\ PollAndFetchOcr \notin receipts[j]
        => session[upSession[j]] = "live"

\* Two workers do not hold the same session.
HeldApart ==
    redeliveries = 0 =>
        \A w \in Workers : held[w] \in Sessions =>
            \A v \in Workers \ {w} : held[v] # held[w]

\* The one worker of a document's one job has seen all the rows it replaces.
SeenAll ==
    redeliveries = 0 =>
        \A w \in Workers : phase[w] = "record" /\ seg[w] \in IndexSteps
            /\ Present(Doc(w)) /\ OneJob(Doc(w)) => seen[w] = rows[seg[w]][Doc(w)]

CustodyInductive ==
    /\ SessionsInductive
    /\ SoleCustody /\ SessionsOwned /\ LiveUntilPolled /\ HeldApart /\ SeenAll
    /\ PollsLiveSession /\ SingleIndexCopy
=============================================================================
