----------------------------- MODULE Retrieval ------------------------------
(***************************************************************************)
(* The nodes of prepare_citations over the chunks of TextIndex and those   *)
(* of another document: two tracks are searched, fused by reciprocal rank, *)
(* the chunks loaded, citations of the same place merged and the score     *)
(* compared with the threshold.  Between two nodes a document may go.      *)
(***************************************************************************)
EXTENDS TextIndex, FiniteSets, SequencesExt

CONSTANTS
    K,             \* citations asked for
    Other,         \* numbers of the chunks of another document
    MaxAsked,      \* bound: questions are asked of documents of so many lines
    MaxIndexed     \* bound: ... and of so many chunks

RrfK == 60
TrackLength == 2 * K

ASSUME RetrievalConstants ==
    /\ K \in Nat \ {0} /\ MaxIndexed \in Nat
    /\ Other \subseteq Nat /\ \A n \in 1..MaxIndexed : n \notin Other

VARIABLES
    node,        \* the next node
    live,        \* chunks in the database
    trackA, trackB, fused, candidates, citations,
    hasHit

ragVars == <<node, live, trackA, trackB, fused, candidates, citations, hasHit>>
vars == <<textVars, ragVars>>

Init ==
    /\ TextInit
    /\ node = "idle" /\ live = {}
    /\ trackA = <<>> /\ trackB = <<>> /\ fused = <<>>
    /\ candidates = <<>> /\ citations = <<>> /\ hasHit = FALSE

-----------------------------------------------------------------------------
Own == 1..Len(chunks)

\* Where a chunk points: document, section path and first page.
Key(c) ==
    IF c \in Other THEN <<"other", <<>>, 0>>
    ELSE LET s == sections[chunks[c].section] IN <<"this", s.path, s.start>>

Ask ==
    /\ Indexed /\ node = "idle"
    /\ lineNo <= MaxAsked /\ Len(chunks) \in 1..MaxIndexed
    /\ node' = "trackA"
    /\ live' = Own \cup Other
    /\ UNCHANGED <<textVars, trackA, trackB, fused, candidates, citations, hasHit>>

\* A document is deleted, with its chunks, while the question is answered.
DeleteDocument(set) ==
    /\ node \in {"trackB", "fuse", "load"} /\ set \cap live # {}
    /\ live' = live \ set
    /\ UNCHANGED <<textVars, node, trackA, trackB, fused, candidates, citations, hasHit>>

\* Any ranking of any of the chunks: what the similarity, the full text search
\* and their fallbacks return.
Rankings == {r \in UNION {[1..n -> live] : n \in 0..TrackLength} : IsInjective(r)}

RetrieveTrackA ==
    /\ node = "trackA" /\ node' = "trackB"
    /\ trackA' \in Rankings
    /\ UNCHANGED <<textVars, live, trackB, fused, candidates, citations, hasHit>>

RetrieveTrackB ==
    /\ node = "trackB" /\ node' = "fuse"
    /\ trackB' \in Rankings
    /\ UNCHANGED <<textVars, live, trackA, fused, candidates, citations, hasHit>>

-----------------------------------------------------------------------------
\* 1 / (rrf_k + rank), over a common denominator.
Denominator ==
    LET product[r \in 0..TrackLength] == IF r = 0 THEN 1 ELSE product[r - 1] * (RrfK + r)
    IN product[TrackLength]

Weight(r) == Denominator \div (RrfK + r)

WeightIn(track, c) ==
    IF c \in ToSet(track) THEN Weight(CHOOSE r \in DOMAIN track : track[r] = c) ELSE 0
Score(c) == WeightIn(trackA, c) + WeightIn(trackB, c)

Before(seq, i, j) ==
    \/ Score(seq[i]) > Score(seq[j])
    \/ Score(seq[i]) = Score(seq[j]) /\ i < j

Rank(seq, kept, i) == Cardinality({j \in kept : Before(seq, j, i)}) + 1

\* What seq has at the kept positions, by score: sorted(..., reverse=True) keeps
\* the order of equals.
Sorted(seq, kept) ==
    [n \in 1..Cardinality(kept) |-> seq[CHOOSE i \in kept : Rank(seq, kept, i) = n]]

First(seq, n) == SubSeq(seq, 1, IF Len(seq) < n THEN Len(seq) ELSE n)

\* The dict of scores has its keys in the order in which they were met.
RrfFusion ==
    LET both == trackA \o trackB
        met == {i \in DOMAIN both : \A j \in DOMAIN both : both[i] = both[j] => i <= j}
    IN
    /\ node = "fuse" /\ node' = "load"
    /\ fused' = First(Sorted(both, met), TrackLength)
    /\ UNCHANGED <<textVars, live, trackA, trackB, candidates, citations, hasHit>>

\* materialize_candidates: the chunks that are still there, by score.
MaterializeCandidates ==
    /\ node = "load" /\ node' = "dedupe"
    /\ candidates' = Sorted(fused, {i \in DOMAIN fused : fused[i] \in live})
    /\ UNCHANGED <<textVars, live, trackA, trackB, fused, citations, hasHit>>

\* Mutation: the last chunk of a place replaces the ones before it.
KeepsLast(i, j) == i >= j

KeepsBest(i, j) ==
    \/ Score(candidates[i]) > Score(candidates[j])
    \/ Score(candidates[i]) = Score(candidates[j]) /\ i <= j

DedupeCitations ==
    LET best == {i \in DOMAIN candidates :
                    \A j \in DOMAIN candidates :
                        Key(candidates[i]) = Key(candidates[j]) => KeepsBest(i, j)}
    IN
    /\ node = "dedupe" /\ node' = "decide"
    /\ citations' = First(Sorted(candidates, best), K)
    /\ UNCHANGED <<textVars, live, trackA, trackB, fused, candidates, hasHit>>

\* should_answer: the best score, normalised by the tracks that found anything,
\* against chat_min_score_threshold = 1/20.
ActiveTracks == Cardinality({t \in {"A", "B"} : IF t = "A" THEN trackA # <<>> ELSE trackB # <<>>})

ShouldAnswer ==
    /\ node = "decide" /\ node' = "done"
    /\ hasHit' = (citations # <<>>
                  /\ 20 * Score(citations[1]) >= ActiveTracks * Weight(1))
    /\ UNCHANGED <<textVars, live, trackA, trackB, fused, candidates, citations>>

-----------------------------------------------------------------------------
Next ==
    \/ TextNext /\ UNCHANGED ragVars
    \/ Ask \/ RetrieveTrackA \/ RetrieveTrackB \/ RrfFusion
    \/ DeleteDocument(Own) \/ DeleteDocument(Other)
    \/ MaterializeCandidates \/ DedupeCitations \/ ShouldAnswer

Spec == Init /\ [][Next]_vars

-----------------------------------------------------------------------------
\* Up to so many citations even the last rank of one of two tracks reaches the
\* threshold: 1 / (60 + 2 * 275) over 2 / 61 is 1 / 20.
Reach == 275

\* The answer cites what was found: its first citation is a chunk that nothing
\* still there beats, no place is cited twice, and a question has a hit exactly
\* when something found is still there: up to Reach citations no fused score is
\* below the threshold (config.py:54), which then never refuses an answer.
CitationsAreBest ==
    node = "done" =>
        LET found == ToSet(fused) \cap ToSet(candidates) IN
        /\ K <= Reach => (hasHit <=> found # {})
        /\ \A c \in found : Score(citations[1]) >= Score(c)
        /\ \A i, j \in DOMAIN citations :
            /\ citations[i] \in found
            /\ i < j => Key(citations[i]) # Key(citations[j])
            /\ i < j => Score(citations[i]) >= Score(citations[j])
        /\ \A c \in found : Len(citations) = K \/ \E i \in DOMAIN citations :
            Key(citations[i]) = Key(c) /\ Score(citations[i]) >= Score(c)
=============================================================================
