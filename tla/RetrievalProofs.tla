---------------------------- MODULE RetrievalProofs --------------------------
(***************************************************************************)
(* What chunking does to every document, whatever its lines, headings and  *)
(* pages and whatever the limits and the overlap: no line of text is lost, *)
(* and a chunk's tokens stay bounded by its pieces' number.  And what is   *)
(* cited, whatever was found: the best of it, by place.                    *)
(***************************************************************************)
EXTENDS Retrieval, SequenceTheorems, FiniteSetTheorems, FunctionTheorems, NatRecursion, TLAPS

LineRecords == {l \in [line: Nat, first: BOOLEAN, ends: BOOLEAN, count: Counts] : l.count.chars > 0}
PieceRecords == [lines: SUBSET Nat, part: Nat, of: Nat, count: Counts]
Headings == [title: Nat, level: Nat]
ChunkRecords == [section: Nat, pieces: Seq(PieceRecords)]
SectionRecords == [path: Seq(Nat), start: Nat, end: Nat, lines: Seq(LineRecords)]

TextTypeOK ==
    /\ lineNo \in Nat /\ page \in Nat
    /\ open \in [path: Seq(Nat), start: Nat, lines: Seq(LineRecords), gap: BOOLEAN]
    /\ stack \in Seq(Headings)
    /\ sections \in Seq(SectionRecords)
    /\ cursor \in [section: Nat, line: Nat]
    /\ current \in Seq(PieceRecords) /\ tokens \in Nat
    /\ chunks \in Seq(ChunkRecords)
    /\ text \subseteq [line: Nat, page: Nat, path: Seq(Nat)]

\* Before the last flush nothing is chunked.
OneAfterTheOther ==
    IF cursor = Parsing
    THEN current = <<>> /\ tokens = 0 /\ chunks = <<>> /\ open.start <= page
    ELSE cursor.section > 0 /\ cursor.line > 0

HasLine(lines, t) == \E k \in 1..Len(lines) : lines[k].line = t.line

\* A section that holds a line: under its headings and around its page.
HoldsLine(path, start, end, lines, t) ==
    path = t.path /\ start <= t.page /\ t.page <= end /\ HasLine(lines, t)

\* Every line read is in the section being read or in one of the flushed ones.
LinesKept ==
    \A t \in text :
        \/ cursor = Parsing /\ HoldsLine(open.path, open.start, page, open.lines, t)
        \/ \E i \in 1..Len(sections) :
            HoldsLine(sections[i].path, sections[i].start, sections[i].end, sections[i].lines, t)

HasPart(pieces, lines, part, of) ==
    \E k \in 1..Len(pieces) :
        pieces[k].lines = lines /\ pieces[k].part = part /\ pieces[k].of = of

HasChunk(built, i, lines, part, of) ==
    \E c \in 1..Len(built) : built[c].section = i /\ HasPart(built[c].pieces, lines, part, of)

\* The piece of this line is in chunks of section i in all its parts, or whole
\* among these pieces.
IsBuilt(built, i, line) ==
    \E lines, of : /\ line \in lines /\ of \in Nat \ {0}
                   /\ \A part \in 1..of : HasChunk(built, i, lines, part, of)
IsPacked(pieces, line) == \E lines : line \in lines /\ HasPart(pieces, lines, 1, 1)

\* A line the packing has passed is in a chunk of its section, or in the chunk
\* being packed.
Passed(i, k) == i < cursor.section \/ (i = cursor.section /\ k < cursor.line)

PiecesKept ==
    cursor # Parsing =>
        \A i \in 1..Len(sections) : \A k \in 1..Len(sections[i].lines) :
            Passed(i, k) =>
                \/ IsBuilt(chunks, i, sections[i].lines[k].line)
                \/ i = cursor.section /\ IsPacked(current, sections[i].lines[k].line)

Largest == 2 * Limit + Overlap

\* The pieces being packed are within the limit each, within the bound together
\* and counted at least one by one.
PackedBounded ==
    /\ OwnTokens(current) <= tokens /\ OwnTokens(current) <= Largest
    /\ \A k \in 1..Len(current) : CountTokens(current[k].count) <= Limit

TextInductive ==
    /\ TextTypeOK /\ OneAfterTheOther
    /\ LinesKept /\ PiecesKept
    /\ PackedBounded /\ ChunksBounded

-----------------------------------------------------------------------------
(* Totals of sequences of numbers *)

LEMMA Regroup ==
    ASSUME NEW a \in Nat, NEW b \in Nat, NEW c \in Nat
    PROVE (a + b) + c = a + (b + c)
  OBVIOUS

Sums(s, f) ==
    /\ f \in [0..Len(s) -> Nat]
    /\ f[0] = 0
    /\ \A n \in 1..Len(s) : f[n] = f[n - 1] + s[n]

\* Total is the last of the sums of the first numbers.
LEMMA TotalIsASum ==
    ASSUME NEW s \in Seq(Nat)
    PROVE \E f : Sums(s, f) /\ Total(s) = f[Len(s)]
<1> DEFINE N == Len(s)
           Body(f, n) == IF n = 0 THEN 0 ELSE f[n - 1] + s[n]
           sum == CHOOSE f : f = [n \in 0..N |-> Body(f, n)]
           step == [n \in 1..N |-> [a \in Nat |-> a + s[n]]]
<1>1. N \in Nat /\ \A n \in 1..N : s[n] \in Nat
  OBVIOUS
<1>2. step \in [1..N -> [Nat -> Nat]]
  BY <1>1
<1>3. Total(s) = sum[N]
  BY DEF Total, N
<1> HIDE DEF N
<1>4. PICK f : Follows(f, Nat, 0, step, N)
  <2> HIDE DEF step
  <2> QED BY <1>1, <1>2, RecursionUpTo
<1>5. \A n \in 1..N : f[n - 1] \in Nat /\ f[n] = f[n - 1] + s[n]
  <2> SUFFICES ASSUME NEW n \in 1..N
               PROVE f[n - 1] \in Nat /\ f[n] = f[n - 1] + s[n]
    OBVIOUS
  <2>1. n - 1 \in 0..N /\ n \in 0..N /\ n # 0
    BY <1>1
  <2>2. f[n - 1] \in Nat /\ f[n] = step[n][f[n - 1]]
    <3> HIDE DEF step
    <3> QED BY <1>4, <2>1 DEF Follows
  <2> QED BY <2>2
<1>6. f \in [0..N -> Nat] /\ f[0] = 0
  <2> HIDE DEF step
  <2>1. 0 \in 0..N
    BY <1>1
  <2>2. /\ f \in [0..N -> Nat]
        /\ \A i \in 0..N : f[i] = IF i = 0 THEN 0 ELSE step[i][f[i - 1]]
    BY <1>4 DEF Follows
  <2> QED BY <2>1, <2>2
<1>7. f = [n \in 0..N |-> Body(f, n)]
  <2>1. \A n \in 0..N : f[n] = Body(f, n)
    BY <1>1, <1>5, <1>6
  <2> QED BY <1>6, <2>1
<1>8. sum = [n \in 0..N |-> Body(sum, n)]
  BY <1>7
<1> HIDE DEF sum
<1>9. sum[0] = 0 /\ \A n \in 1..N : sum[n] = sum[n - 1] + s[n]
  <2>1. \A n \in 0..N : sum[n] = Body(sum, n)
    BY <1>8
  <2>2. 0 \in 0..N /\ \A n \in 1..N : n \in 0..N /\ n # 0
    BY <1>1
  <2> QED BY <2>1, <2>2
<1> DEFINE S == {n \in 0..N : sum[n] = f[n]}
<1>10. 0 \in S
  BY <1>1, <1>6, <1>9
<1>11. ASSUME NEW n \in 0..N, n \in S, n < N PROVE n + 1 \in S
  <2>1. n + 1 \in 1..N /\ (n + 1) - 1 = n
    BY <1>1, <1>11
  <2> QED BY <1>5, <1>9, <1>11, <2>1
<1> HIDE DEF S
<1>12. 0..N \subseteq S
  BY <1>1, <1>10, <1>11, BoundedInduction
<1>13. sum[N] = f[N]
  BY <1>1, <1>12 DEF S
<1> QED BY <1>3, <1>5, <1>6, <1>13 DEF Sums, N

\* From k on, t has the first n numbers of s.
Repeats(t, k, s, n) == \A i \in 1..n : s[i] = t[k + i]

\* The sums of two sequences that begin alike, one of them at k, differ by the
\* sum of what is before k.
LEMMA SumsAgree ==
    ASSUME NEW s \in Seq(Nat), NEW t \in Seq(Nat), NEW f, NEW g,
           Sums(s, f), Sums(t, g),
           NEW k \in Nat, NEW n \in Nat, n <= Len(s), k + n <= Len(t),
           Repeats(t, k, s, n)
    PROVE g[k + n] = g[k] + f[n]
<1> USE DEF Repeats
<1> DEFINE S == {i \in 0..n : g[k + i] = g[k] + f[i]}
<1>1. Len(s) \in Nat /\ Len(t) \in Nat
  OBVIOUS
<1>2. 0 \in S
  <2>1. k \in 0..Len(t) /\ k + 0 = k
    BY <1>1
  <2>2. g[k] \in Nat /\ f[0] = 0
    BY <2>1 DEF Sums
  <2> QED BY <2>1, <2>2
<1>3. ASSUME NEW i \in 0..n, i \in S, i < n PROVE i + 1 \in S
  <2>1. i + 1 \in 1..Len(s) /\ (i + 1) - 1 = i
    BY <1>1, <1>3
  <2>2. k + (i + 1) \in 1..Len(t) /\ k + (i + 1) - 1 = k + i
    BY <1>1, <1>3
  <2>3. i \in 0..Len(s) /\ k \in 0..Len(t)
    BY <1>1, <1>3
  <2>4. s[i + 1] \in Nat /\ s[i + 1] = t[k + (i + 1)]
    <3>1. i + 1 \in 1..n
      BY <1>3
    <3>2. s[i + 1] = t[k + (i + 1)]
      BY <3>1
    <3> QED BY <2>1, <3>2
  <2>5. f[i + 1] = f[i] + s[i + 1] /\ g[k + (i + 1)] = g[k + i] + s[i + 1]
    <3>1. f[i + 1] = f[(i + 1) - 1] + s[i + 1]
      BY <2>1 DEF Sums
    <3>2. g[k + (i + 1)] = g[k + (i + 1) - 1] + t[k + (i + 1)]
      BY <2>2 DEF Sums
    <3> QED BY <2>1, <2>2, <2>4, <3>1, <3>2
  <2>6. f[i] \in Nat /\ g[k] \in Nat
    BY <2>3 DEF Sums
  <2>7. g[k + i] = g[k] + f[i] /\ i + 1 \in 0..n
    BY <1>3
  <2>8. g[k + (i + 1)] = (g[k] + f[i]) + s[i + 1] /\ f[i + 1] = f[i] + s[i + 1]
    BY <2>5, <2>7
  <2>9. g[k + (i + 1)] = g[k] + f[i + 1]
    BY <2>4, <2>6, <2>8, Regroup
  <2> QED BY <2>7, <2>9
<1> HIDE DEF S
<1>4. 0..n \subseteq S
  BY <1>2, <1>3, BoundedInduction
<1>5. n \in S
  BY <1>4
<1> QED BY <1>5 DEF S

LEMMA TotalIsNat ==
    ASSUME NEW s \in Seq(Nat)
    PROVE /\ Total(s) \in Nat
          /\ Len(s) = 0 => Total(s) = 0
          /\ Len(s) > 0 => Total(s) >= s[Len(s)]
<1>1. PICK f : Sums(s, f) /\ Total(s) = f[Len(s)]
  BY TotalIsASum
<1>2. Len(s) \in Nat /\ Len(s) \in 0..Len(s)
  OBVIOUS
<1>3. f[Len(s)] \in Nat /\ f[0] = 0
  BY <1>1, <1>2 DEF Sums
<1>4. ASSUME Len(s) > 0 PROVE Total(s) >= s[Len(s)]
  <2>1. Len(s) \in 1..Len(s) /\ Len(s) - 1 \in 0..Len(s)
    BY <1>2, <1>4
  <2>2. f[Len(s)] = f[Len(s) - 1] + s[Len(s)]
    BY <1>1, <2>1 DEF Sums
  <2>3. f \in [0..Len(s) -> Nat]
    BY <1>1 DEF Sums
  <2>4. f[Len(s) - 1] \in Nat
    BY <2>1, <2>3
  <2>5. s[Len(s)] \in Nat
    BY <2>1
  <2> QED BY <1>1, <2>2, <2>4, <2>5
<1> QED BY <1>1, <1>3, <1>4

\* One number more at the end.
LEMMA TotalGrows ==
    ASSUME NEW s \in Seq(Nat), NEW t \in Seq(Nat), Len(t) = Len(s) + 1,
           \A i \in 1..Len(s) : s[i] = t[i]
    PROVE Total(t) = Total(s) + t[Len(t)]
<1>1. Len(s) \in Nat /\ Len(s) + 1 \in 1..Len(t) /\ (Len(s) + 1) - 1 = Len(s)
  OBVIOUS
<1>2. PICK f : Sums(s, f) /\ Total(s) = f[Len(s)]
  BY TotalIsASum
<1>3. PICK g : Sums(t, g) /\ Total(t) = g[Len(t)]
  BY TotalIsASum
<1>4. g[0 + Len(s)] = g[0] + f[Len(s)]
  <2>1. Repeats(t, 0, s, Len(s))
    BY DEF Repeats
  <2>2. 0 \in Nat /\ Len(s) <= Len(s) /\ 0 + Len(s) <= Len(t)
    BY <1>1
  <2>3. Sums(s, f) /\ Sums(t, g)
    BY <1>2, <1>3
  <2> QED BY <1>1, <2>1, <2>2, <2>3, SumsAgree
<1>5. g[Len(s)] = f[Len(s)]
  <2>1. Len(s) \in 0..Len(s)
    BY <1>1
  <2>2. g[0] = 0 /\ f[Len(s)] \in Nat
    BY <1>2, <1>3, <2>1 DEF Sums
  <2> QED BY <1>1, <1>4, <2>2
<1>6. g[Len(s) + 1] = g[Len(s)] + t[Len(s) + 1]
  BY <1>1, <1>3 DEF Sums
<1> QED BY <1>1, <1>2, <1>3, <1>5, <1>6

\* One number more at the front.
LEMMA TotalGrowsInFront ==
    ASSUME NEW s \in Seq(Nat), NEW t \in Seq(Nat), Len(t) = Len(s) + 1,
           \A i \in 1..Len(s) : s[i] = t[1 + i]
    PROVE Total(t) = Total(s) + t[1]
<1>1. Len(s) \in Nat /\ 1 \in 1..Len(t) /\ 1 - 1 = 0 /\ 1 + Len(s) = Len(t) /\ t[1] \in Nat
  OBVIOUS
<1>2. PICK f : Sums(s, f) /\ Total(s) = f[Len(s)]
  BY TotalIsASum
<1>3. PICK g : Sums(t, g) /\ Total(t) = g[Len(t)]
  BY TotalIsASum
<1>4. g[1 + Len(s)] = g[1] + f[Len(s)]
  <2>1. Repeats(t, 1, s, Len(s))
    BY DEF Repeats
  <2>2. 1 \in Nat /\ Len(s) <= Len(s) /\ 1 + Len(s) <= Len(t)
    BY <1>1
  <2>3. Sums(s, f) /\ Sums(t, g)
    BY <1>2, <1>3
  <2> QED BY <1>1, <2>1, <2>2, <2>3, SumsAgree
<1>5. g[1] = t[1]
  <2>1. g[1] = g[1 - 1] + t[1] /\ g[0] = 0
    BY <1>1, <1>3 DEF Sums
  <2> QED BY <1>1, <2>1
<1>6. f[Len(s)] \in Nat
  BY <1>2, TotalIsNat
<1> QED BY <1>1, <1>2, <1>3, <1>4, <1>5, <1>6

-----------------------------------------------------------------------------
(* What lines and pieces count *)

LEMMA TokensAreNat ==
    ASSUME NEW count \in Counts
    PROVE /\ count.words \in Nat /\ count.other \in Nat /\ count.chars \in Nat
          /\ CountTokens(count) \in Nat
          /\ 4 * CountTokens(count) <= 4 * count.words + count.other
          /\ 4 * count.words + count.other <= 4 * CountTokens(count) + 3
<1>1. count.words \in Nat /\ count.other \in Nat /\ count.chars \in Nat
  BY DEF Counts
<1>2. \A n \in Nat : n \div 4 \in Nat /\ 4 * (n \div 4) <= n /\ n <= 4 * (n \div 4) + 3
  OBVIOUS
<1> QED BY <1>1, <1>2 DEF CountTokens

WordCounts(items) == [i \in 1..Len(items) |-> items[i].count.words]
OtherCounts(items) == [i \in 1..Len(items) |-> items[i].count.other]
CharCounts(items) == [i \in 1..Len(items) |-> items[i].count.chars]
OwnCounts(items) == [i \in 1..Len(items) |-> CountTokens(items[i].count)]

Counted(R) == \A r \in R : r.count \in Counts

LEMMA RecordsCount ==
    /\ Counted(LineRecords) /\ Counted(PieceRecords)
    /\ \A l \in LineRecords : l.line \in Nat /\ l.count.chars > 0
    /\ \A p \in PieceRecords : p.lines \in SUBSET Nat /\ p.part \in Nat /\ p.of \in Nat
BY DEF Counted, LineRecords, PieceRecords

LEMMA CountsAreNat ==
    ASSUME NEW R, Counted(R), NEW items \in Seq(R)
    PROVE /\ Len(items) \in Nat
          /\ WordCounts(items) \in Seq(Nat) /\ Len(WordCounts(items)) = Len(items)
          /\ OtherCounts(items) \in Seq(Nat) /\ Len(OtherCounts(items)) = Len(items)
          /\ CharCounts(items) \in Seq(Nat) /\ Len(CharCounts(items)) = Len(items)
          /\ OwnCounts(items) \in Seq(Nat) /\ Len(OwnCounts(items)) = Len(items)
<1>1. Len(items) \in Nat /\ \A i \in 1..Len(items) : items[i].count \in Counts
  BY DEF Counted
<1>2. \A i \in 1..Len(items) :
        /\ items[i].count.words \in Nat /\ items[i].count.other \in Nat
        /\ items[i].count.chars \in Nat /\ CountTokens(items[i].count) \in Nat
  BY <1>1, TokensAreNat
<1>3. WordCounts(items) \in Seq(Nat) /\ Len(WordCounts(items)) = Len(items)
  BY <1>1, <1>2 DEF WordCounts
<1>4. OtherCounts(items) \in Seq(Nat) /\ Len(OtherCounts(items)) = Len(items)
  BY <1>1, <1>2 DEF OtherCounts
<1>5. CharCounts(items) \in Seq(Nat) /\ Len(CharCounts(items)) = Len(items)
  BY <1>1, <1>2 DEF CharCounts
<1>6. OwnCounts(items) \in Seq(Nat) /\ Len(OwnCounts(items)) = Len(items)
  BY <1>1, <1>2 DEF OwnCounts
<1> QED BY <1>1, <1>3, <1>4, <1>5, <1>6

LEMMA GapsAreNat ==
    ASSUME NEW gap \in 1..2, NEW n \in Nat \ {0}
    PROVE gap * (n - 1) \in Nat /\ gap * (n - 1) <= 2 * n
<1>1. CASE gap = 1
  BY <1>1
<1>2. CASE gap = 2
  BY <1>2
<1> QED BY <1>1, <1>2

\* What is joined is counted: the words, the other characters and the characters
\* between, which are at most two for an item.
LEMMA JoinedCounts ==
    ASSUME NEW R, Counted(R), NEW items \in Seq(R), NEW gap \in 1..2
    PROVE /\ Joined(items, gap) \in Counts
          /\ Joined(items, gap).words = Total(WordCounts(items))
          /\ Joined(items, gap).other >= Total(OtherCounts(items))
          /\ Joined(items, gap).other <= Total(OtherCounts(items)) + 2 * Len(items)
          /\ Joined(items, gap).chars >= Total(CharCounts(items))
<1> DEFINE gaps == IF items = <<>> THEN 0 ELSE gap * (Len(items) - 1)
<1>1. Len(items) \in Nat /\ (items # <<>> => Len(items) # 0)
  OBVIOUS
<1>2. gaps \in Nat /\ gaps <= 2 * Len(items)
  BY <1>1, GapsAreNat
<1>3. /\ Total(WordCounts(items)) \in Nat /\ Total(OtherCounts(items)) \in Nat
      /\ Total(CharCounts(items)) \in Nat
  BY CountsAreNat, TotalIsNat
<1>4. Joined(items, gap) = [words |-> Total(WordCounts(items)),
                            other |-> gaps + Total(OtherCounts(items)),
                            chars |-> gaps + Total(CharCounts(items))]
  BY DEF Joined, WordCounts, OtherCounts, CharCounts
<1> HIDE DEF gaps
<1>5. Joined(items, gap) \in Counts
  BY <1>2, <1>3, <1>4 DEF Counts
<1> QED BY <1>1, <1>2, <1>3, <1>4, <1>5

LEMMA JoinedLinesHaveCharacters ==
    ASSUME NEW lines \in Seq(LineRecords), Len(lines) > 0
    PROVE Joined(lines, 1).chars > 0
<1>1. /\ CharCounts(lines) \in Seq(Nat) /\ Len(CharCounts(lines)) = Len(lines)
      /\ Len(lines) \in Nat
  BY CountsAreNat, RecordsCount
<1>2. Len(lines) \in 1..Len(lines) /\ lines[Len(lines)] \in LineRecords
  BY <1>1
<1>3. CharCounts(lines)[Len(lines)] = lines[Len(lines)].count.chars
  BY <1>2 DEF CharCounts
<1>4. lines[Len(lines)].count.chars \in Nat /\ lines[Len(lines)].count.chars > 0
  BY <1>2, RecordsCount, TokensAreNat DEF Counted
<1>5. Total(CharCounts(lines)) >= CharCounts(lines)[Len(lines)] /\ Total(CharCounts(lines)) \in Nat
  BY <1>1, TotalIsNat
<1>6. Joined(lines, 1).chars >= Total(CharCounts(lines)) /\ Joined(lines, 1) \in Counts
  BY RecordsCount, JoinedCounts
<1>7. Joined(lines, 1).chars \in Nat
  BY <1>6, TokensAreNat
<1> QED BY <1>3, <1>4, <1>5, <1>6, <1>7

LEMMA OneMoreIsNear ==
    ASSUME NEW f \in Nat, NEW g \in Nat, NEW h \in Nat, NEW n \in Nat,
           NEW words \in Nat, NEW other \in Nat, NEW own \in Nat,
           4 * h <= 4 * f + g, 4 * f + g <= 4 * h + 3 * n,
           4 * own <= 4 * words + other, 4 * words + other <= 4 * own + 3
    PROVE /\ 4 * (h + own) <= 4 * (f + words) + (g + other)
          /\ 4 * (f + words) + (g + other) <= 4 * (h + own) + 3 * (n + 1)
  OBVIOUS

LEMMA JoinedIsNear ==
    ASSUME NEW f \in Nat, NEW g \in Nat, NEW h \in Nat, NEW n \in Nat,
           NEW other \in Nat, NEW all \in Nat,
           4 * h <= 4 * f + g, 4 * f + g <= 4 * h + 3 * n,
           g <= other, other <= g + 2 * n,
           4 * all <= 4 * f + other, 4 * f + other <= 4 * all + 3
    PROVE h <= all /\ 4 * all <= 4 * h + 5 * n
  OBVIOUS

\* Counted together pieces count no less than one by one, and no more than 5/4
\* of a token for each piece besides.
LEMMA JoinsAddLittle ==
    ASSUME NEW s \in Seq(PieceRecords)
    PROVE /\ OwnTokens(s) \in Nat /\ TokensOf(s) \in Nat /\ Len(s) \in Nat
          /\ OwnTokens(s) <= TokensOf(s)
          /\ 4 * TokensOf(s) <= 4 * OwnTokens(s) + 5 * Len(s)
<1>1. /\ Len(s) \in Nat
      /\ WordCounts(s) \in Seq(Nat) /\ Len(WordCounts(s)) = Len(s)
      /\ OtherCounts(s) \in Seq(Nat) /\ Len(OtherCounts(s)) = Len(s)
      /\ OwnCounts(s) \in Seq(Nat) /\ Len(OwnCounts(s)) = Len(s)
  BY CountsAreNat, RecordsCount
<1>2. PICK f : Sums(WordCounts(s), f) /\ Total(WordCounts(s)) = f[Len(s)]
  BY <1>1, TotalIsASum
<1>3. PICK g : Sums(OtherCounts(s), g) /\ Total(OtherCounts(s)) = g[Len(s)]
  BY <1>1, TotalIsASum
<1>4. PICK h : Sums(OwnCounts(s), h) /\ Total(OwnCounts(s)) = h[Len(s)]
  BY <1>1, TotalIsASum
<1>5. ASSUME NEW n \in 0..Len(s) PROVE f[n] \in Nat /\ g[n] \in Nat /\ h[n] \in Nat
  BY <1>1, <1>2, <1>3, <1>4 DEF Sums
<1> DEFINE Near(n) == 4 * h[n] <= 4 * f[n] + g[n] /\ 4 * f[n] + g[n] <= 4 * h[n] + 3 * n
           S == {n \in 0..Len(s) : Near(n)}
<1>6. 0 \in S
  <2>1. f[0] = 0 /\ g[0] = 0 /\ h[0] = 0
    BY <1>2, <1>3, <1>4 DEF Sums
  <2> QED BY <1>1, <2>1
<1>7. ASSUME NEW n \in 0..Len(s), n \in S, n < Len(s) PROVE n + 1 \in S
  <2> DEFINE c == s[n + 1].count
  <2>1. n + 1 \in 1..Len(s) /\ (n + 1) - 1 = n /\ n + 1 \in 0..Len(s) /\ n \in Nat
    BY <1>1, <1>7
  <2>2. c \in Counts
    BY <2>1, RecordsCount DEF Counted
  <2>3. /\ WordCounts(s)[n + 1] = c.words /\ OtherCounts(s)[n + 1] = c.other
        /\ OwnCounts(s)[n + 1] = CountTokens(c)
    BY <2>1 DEF WordCounts, OtherCounts, OwnCounts
  <2>4. /\ c.words \in Nat /\ c.other \in Nat /\ CountTokens(c) \in Nat
        /\ 4 * CountTokens(c) <= 4 * c.words + c.other
        /\ 4 * c.words + c.other <= 4 * CountTokens(c) + 3
    BY <2>2, TokensAreNat
  <2>5. f[n + 1] = f[n] + c.words
    BY <1>1, <1>2, <2>1, <2>3 DEF Sums
  <2>6. g[n + 1] = g[n] + c.other
    BY <1>1, <1>3, <2>1, <2>3 DEF Sums
  <2>7. h[n + 1] = h[n] + CountTokens(c)
    BY <1>1, <1>4, <2>1, <2>3 DEF Sums
  <2>8. f[n] \in Nat /\ g[n] \in Nat /\ h[n] \in Nat /\ Near(n)
    BY <1>5, <1>7
  <2> HIDE DEF c
  <2>9. Near(n + 1)
    <3>1. 4 * h[n] <= 4 * f[n] + g[n] /\ 4 * f[n] + g[n] <= 4 * h[n] + 3 * n
      BY <2>8
    <3>2. /\ 4 * (h[n] + CountTokens(c)) <= 4 * (f[n] + c.words) + (g[n] + c.other)
          /\ 4 * (f[n] + c.words) + (g[n] + c.other)
                <= 4 * (h[n] + CountTokens(c)) + 3 * (n + 1)
      BY <2>1, <2>4, <2>8, <3>1, OneMoreIsNear
    <3> QED BY <2>5, <2>6, <2>7, <3>2
  <2> QED BY <2>1, <2>9
<1> HIDE DEF S
<1>8. 0..Len(s) \subseteq S
  BY <1>1, <1>6, <1>7, BoundedInduction
<1>9. 4 * h[Len(s)] <= 4 * f[Len(s)] + g[Len(s)]
      /\ 4 * f[Len(s)] + g[Len(s)] <= 4 * h[Len(s)] + 3 * Len(s)
  <2>1. Len(s) \in S
    BY <1>1, <1>8
  <2> QED BY <2>1 DEF S
<1>10. OwnTokens(s) = h[Len(s)]
  BY <1>4 DEF OwnTokens, OwnCounts
<1> DEFINE joined == Joined(s, 2)
<1>11. /\ joined \in Counts /\ joined.words = f[Len(s)]
       /\ joined.other >= g[Len(s)] /\ joined.other <= g[Len(s)] + 2 * Len(s)
  BY <1>2, <1>3, RecordsCount, JoinedCounts
<1>12. TokensOf(s) = CountTokens(joined)
  BY DEF TokensOf
<1> HIDE DEF joined
<1>13. /\ joined.other \in Nat /\ CountTokens(joined) \in Nat
       /\ 4 * CountTokens(joined) <= 4 * joined.words + joined.other
       /\ 4 * joined.words + joined.other <= 4 * CountTokens(joined) + 3
  BY <1>11, TokensAreNat
<1>14. f[Len(s)] \in Nat /\ g[Len(s)] \in Nat /\ h[Len(s)] \in Nat
  BY <1>1, <1>5
<1>15. h[Len(s)] <= CountTokens(joined)
       /\ 4 * CountTokens(joined) <= 4 * h[Len(s)] + 5 * Len(s)
  <2> DEFINE N == Len(s)
             words == f[N]
             other == g[N]
             own == h[N]
             others == joined.other
             all == CountTokens(joined)
  <2>1. /\ words \in Nat /\ other \in Nat /\ own \in Nat /\ N \in Nat
        /\ others \in Nat /\ all \in Nat
    BY <1>1, <1>13, <1>14
  <2>2. /\ 4 * own <= 4 * words + other /\ 4 * words + other <= 4 * own + 3 * N
        /\ other <= others /\ others <= other + 2 * N
    BY <1>9, <1>11, <2>1
  <2>3. 4 * all <= 4 * words + others /\ 4 * words + others <= 4 * all + 3
    BY <1>11, <1>13
  <2>4. own <= all /\ 4 * all <= 4 * own + 5 * N
    <3> HIDE DEF N, words, other, own, others, all
    <3> QED BY <2>1, <2>2, <2>3, JoinedIsNear
  <2> QED BY <2>4
<1> QED BY <1>1, <1>10, <1>12, <1>13, <1>14, <1>15

LEMMA OwnOfNone == OwnTokens(<<>>) = 0
<1>1. <<>> \in Seq(PieceRecords) /\ Len(<<>>) = 0
  OBVIOUS
<1>2. OwnCounts(<<>>) \in Seq(Nat) /\ Len(OwnCounts(<<>>)) = 0
  BY <1>1, CountsAreNat, RecordsCount
<1>3. Total(OwnCounts(<<>>)) = 0
  BY <1>2, TotalIsNat
<1> QED BY <1>3 DEF OwnTokens, OwnCounts

LEMMA OwnOfAppend ==
    ASSUME NEW s \in Seq(PieceRecords), NEW p \in PieceRecords
    PROVE OwnTokens(Append(s, p)) = OwnTokens(s) + CountTokens(p.count)
<1> DEFINE t == Append(s, p)
<1>1. /\ t \in Seq(PieceRecords) /\ Len(s) \in Nat /\ Len(t) = Len(s) + 1
      /\ \A i \in 1..Len(s) : s[i] = t[i]
      /\ t[Len(s) + 1] = p
  BY AppendProperties
<1> HIDE DEF t
<1>2. /\ OwnCounts(s) \in Seq(Nat) /\ Len(OwnCounts(s)) = Len(s)
      /\ OwnCounts(t) \in Seq(Nat) /\ Len(OwnCounts(t)) = Len(t)
  BY <1>1, CountsAreNat, RecordsCount
<1>3. \A i \in 1..Len(s) : OwnCounts(s)[i] = OwnCounts(t)[i]
  BY <1>1 DEF OwnCounts
<1>4. OwnCounts(t)[Len(t)] = CountTokens(p.count)
  BY <1>1 DEF OwnCounts
<1>5. Total(OwnCounts(t)) = Total(OwnCounts(s)) + CountTokens(p.count)
  BY <1>1, <1>2, <1>3, <1>4, TotalGrows
<1> QED BY <1>5 DEF OwnTokens, OwnCounts, t

LEMMA LastPiecesType ==
    ASSUME NEW s \in Seq(PieceRecords), NEW n \in 0..Len(s)
    PROVE /\ LastPieces(s, n) \in Seq(PieceRecords)
          /\ Len(LastPieces(s, n)) = n
          /\ \A i \in 1..n : LastPieces(s, n)[i] = s[Len(s) - n + i]
<1>1. Len(s) \in Nat /\ Len(s) - n + 1 \in Int
  OBVIOUS
<1>2. \A i \in Len(s) - n + 1..Len(s) : s[i] \in PieceRecords
  BY <1>1
<1>3. /\ LastPieces(s, n) \in Seq(PieceRecords)
      /\ Len(LastPieces(s, n)) =
            IF Len(s) - n + 1 <= Len(s) THEN Len(s) - (Len(s) - n + 1) + 1 ELSE 0
      /\ \A i \in 1..Len(s) - (Len(s) - n + 1) + 1 :
            LastPieces(s, n)[i] = s[(Len(s) - n + 1) + i - 1]
  BY <1>1, <1>2, SubSeqProperties DEF LastPieces
<1>4. Len(LastPieces(s, n)) = n
  BY <1>1, <1>3
<1>5. ASSUME NEW i \in 1..n PROVE LastPieces(s, n)[i] = s[Len(s) - n + i]
  <2>1. i \in 1..Len(s) - (Len(s) - n + 1) + 1 /\ (Len(s) - n + 1) + i - 1 = Len(s) - n + i
    BY <1>1
  <2> QED BY <1>3, <2>1
<1> QED BY <1>3, <1>4, <1>5

\* One piece more at the front of a tail adds its tokens.
LEMMA TailGrows ==
    ASSUME NEW s \in Seq(PieceRecords), NEW n \in 1..Len(s)
    PROVE OwnTokens(LastPieces(s, n)) =
            OwnTokens(LastPieces(s, n - 1)) + CountTokens(s[Len(s) - n + 1].count)
<1> DEFINE long == LastPieces(s, n)
           short == LastPieces(s, n - 1)
<1>1. Len(s) \in Nat /\ n \in 0..Len(s) /\ n - 1 \in 0..Len(s) /\ 1 \in 1..n
  OBVIOUS
<1>2. /\ long \in Seq(PieceRecords) /\ Len(long) = n
      /\ \A i \in 1..n : long[i] = s[Len(s) - n + i]
  BY <1>1, LastPiecesType
<1>3. /\ short \in Seq(PieceRecords) /\ Len(short) = n - 1
      /\ \A i \in 1..n - 1 : short[i] = s[Len(s) - (n - 1) + i]
  BY <1>1, LastPiecesType
<1> HIDE DEF long, short
<1>4. ASSUME NEW i \in 1..n - 1 PROVE short[i] = long[1 + i]
  <2>1. 1 + i \in 1..n /\ Len(s) - (n - 1) + i = Len(s) - n + (1 + i)
    BY <1>1
  <2> QED BY <1>2, <1>3, <2>1
<1>5. /\ OwnCounts(short) \in Seq(Nat) /\ Len(OwnCounts(short)) = n - 1
      /\ OwnCounts(long) \in Seq(Nat) /\ Len(OwnCounts(long)) = n
  BY <1>2, <1>3, CountsAreNat, RecordsCount
<1>6. ASSUME NEW i \in 1..n - 1 PROVE OwnCounts(short)[i] = OwnCounts(long)[1 + i]
  <2>1. i \in 1..Len(short) /\ 1 + i \in 1..Len(long)
    BY <1>1, <1>2, <1>3
  <2> QED BY <1>4, <2>1 DEF OwnCounts
<1>7. OwnCounts(long)[1] = CountTokens(s[Len(s) - n + 1].count)
  BY <1>1, <1>2 DEF OwnCounts
<1>8. Len(OwnCounts(long)) = Len(OwnCounts(short)) + 1
  BY <1>1, <1>5
<1>9. Total(OwnCounts(long)) = Total(OwnCounts(short)) + OwnCounts(long)[1]
  BY <1>5, <1>6, <1>8, TotalGrowsInFront
<1> QED BY <1>7, <1>9 DEF OwnTokens, OwnCounts, long, short

\* The tail kept is the last pieces, or none, and less than the overlap and
\* its first piece.
LEMMA TailIsShort ==
    ASSUME NEW s \in Seq(PieceRecords), \A k \in 1..Len(s) : CountTokens(s[k].count) <= Limit
    PROVE /\ TailOverlap(s) \in Seq(PieceRecords)
          /\ OwnTokens(TailOverlap(s)) <= Limit + Overlap
          /\ \A k \in 1..Len(TailOverlap(s)) : CountTokens(TailOverlap(s)[k].count) <= Limit
<1> USE TextConstants
<1>1. CASE Overlap = 0
  <2>1. TailOverlap(s) = <<>>
    BY <1>1 DEF TailOverlap
  <2>2. <<>> \in Seq(PieceRecords) /\ Len(<<>>) = 0
    OBVIOUS
  <2>3. OwnTokens(<<>>) = 0
    BY OwnOfNone
  <2> QED BY <2>1, <2>2, <2>3
<1>2. CASE Overlap # 0
  <2> DEFINE Reaches(n) == n = Len(s) \/ OwnTokens(LastPieces(s, n)) >= Overlap
             Fewest(n) == /\ Reaches(n)
                          /\ \A m \in 0..(n - 1) : OwnTokens(LastPieces(s, m)) < Overlap
             T == {n \in 0..Len(s) : Reaches(n)}
  <2>1. Len(s) \in Nat
    OBVIOUS
  <2>2. \E n \in 0..Len(s) : Fewest(n)
    <3>1. T \in SUBSET Nat /\ Len(s) \in T
      BY <2>1
    <3>2. PICK n \in T : \A m \in T : n <= m
      <4> HIDE DEF T
      <4> QED BY <3>1, LeastNumber
    <3>3. ASSUME NEW m \in 0..(n - 1) PROVE OwnTokens(LastPieces(s, m)) < Overlap
      <4>1. m \in 0..Len(s) /\ m < n
        BY <2>1
      <4>2. m \notin T
        BY <3>1, <3>2, <4>1
      <4>3. OwnTokens(LastPieces(s, m)) \in Nat
        BY <4>1, LastPiecesType, JoinsAddLittle
      <4> QED BY <4>1, <4>2, <4>3
    <3> QED BY <3>3
  <2> DEFINE c == CHOOSE n \in 0..Len(s) : Fewest(n)
  <2>3. c \in 0..Len(s) /\ Fewest(c)
    BY <2>2
  <2>4. TailOverlap(s) = LastPieces(s, c)
    BY <1>2 DEF TailOverlap
  <2> HIDE DEF c
  <2>5. /\ LastPieces(s, c) \in Seq(PieceRecords) /\ Len(LastPieces(s, c)) = c
        /\ \A i \in 1..c : LastPieces(s, c)[i] = s[Len(s) - c + i]
    BY <2>3, LastPiecesType
  <2>6. OwnTokens(LastPieces(s, c)) <= Limit + Overlap
    <3>1. CASE c = 0
      <4>1. LastPieces(s, c) = <<>>
        BY <2>5, <3>1
      <4>2. OwnTokens(LastPieces(s, c)) = 0
        BY <4>1, OwnOfNone
      <4> QED BY <4>2
    <3>2. CASE c # 0
      <4>1. c \in 1..Len(s) /\ c - 1 \in 0..(c - 1) /\ c - 1 \in 0..Len(s)
        BY <2>1, <2>3, <3>2
      <4>2. OwnTokens(LastPieces(s, c)) = OwnTokens(LastPieces(s, c - 1)) + CountTokens(s[Len(s) - c + 1].count)
        BY <4>1, TailGrows
      <4>3. OwnTokens(LastPieces(s, c - 1)) < Overlap
        BY <2>3, <4>1
      <4>4. OwnTokens(LastPieces(s, c - 1)) \in Nat
        BY <4>1, LastPiecesType, JoinsAddLittle
      <4>5. CountTokens(s[Len(s) - c + 1].count) \in Nat /\ CountTokens(s[Len(s) - c + 1].count) <= Limit
        <5>1. Len(s) - c + 1 \in 1..Len(s)
          BY <2>1, <4>1
        <5> QED BY <5>1, RecordsCount, TokensAreNat DEF Counted
      <4> QED BY <4>2, <4>3, <4>4, <4>5
    <3> QED BY <3>1, <3>2
  <2>7. ASSUME NEW k \in 1..Len(LastPieces(s, c)) PROVE CountTokens(LastPieces(s, c)[k].count) <= Limit
    <3>1. k \in 1..c /\ Len(s) - c + k \in 1..Len(s)
      BY <2>1, <2>3, <2>5
    <3> QED BY <2>5, <3>1
  <2> QED BY <2>4, <2>5, <2>6, <2>7
<1> QED BY <1>1, <1>2

-----------------------------------------------------------------------------
(* Reading the outline *)

\* The headings left on the stack are a prefix of it.
LEMMA AboveType ==
    ASSUME stack \in Seq(Headings), NEW level \in Nat
    PROVE Above(level) \in Seq(Headings)
<1> DEFINE Stays(n) == /\ n = 0 \/ stack[n].level < level
                       /\ \A m \in n + 1..Len(stack) : stack[m].level >= level
           T == {n \in 0..Len(stack) : \A m \in n + 1..Len(stack) : stack[m].level >= level}
<1>1. Len(stack) \in Nat /\ \A n \in 1..Len(stack) : stack[n] \in Headings
  OBVIOUS
<1>2. \A n \in 1..Len(stack) : stack[n].level \in Nat
  BY <1>1 DEF Headings
<1>3. \E n \in 0..Len(stack) : Stays(n)
  <2>1. T \in SUBSET Nat /\ Len(stack) \in T
    BY <1>1
  <2>2. PICK n \in T : \A m \in T : n <= m
    <3> HIDE DEF T
    <3> QED BY <2>1, LeastNumber
  <2>3. n = 0 \/ stack[n].level < level
    <3> SUFFICES ASSUME n # 0, ~ (stack[n].level < level) PROVE FALSE
      OBVIOUS
    <3>1. n \in 1..Len(stack) /\ stack[n].level >= level
      BY <1>1, <1>2
    <3>2. n - 1 \in T
      BY <1>1, <3>1
    <3>3. n <= n - 1
      <4> HIDE DEF T
      <4> QED BY <2>2, <3>2
    <3> QED BY <1>1, <3>1, <3>3
  <2> QED BY <2>3
<1> DEFINE c == CHOOSE n \in 0..Len(stack) : Stays(n)
<1>4. c \in 0..Len(stack)
  BY <1>3
<1>5. Above(level) = SubSeq(stack, 1, c)
  BY DEF Above
<1> HIDE DEF c
<1>6. \A i \in 1..c : stack[i] \in Headings
  BY <1>1, <1>4
<1> QED BY <1>4, <1>5, <1>6, SubSeqProperties

\* While the outline is read nothing is packed.
LEMMA NothingPacked ==
    ASSUME TextInductive, cursor = Parsing,
           UNCHANGED <<current, tokens, chunks>>
    PROVE PackedBounded' /\ ChunksBounded'
<1>1. current' = <<>> /\ tokens' = 0 /\ chunks' = <<>>
  BY DEF TextInductive, OneAfterTheOther
<1>2. Len(<<>>) = 0
  OBVIOUS
<1>3. OwnTokens(<<>>) = 0
  BY OwnOfNone
<1>4. 0 <= Largest
  BY TextConstants DEF Largest
<1>5. PackedBounded'
  BY <1>1, <1>2, <1>3, <1>4 DEF PackedBounded, Largest
<1>6. ChunksBounded'
  BY <1>1, <1>2 DEF ChunksBounded
<1> QED BY <1>5, <1>6

\* A flush puts the section being read, with its lines, behind the others,
\* unless it has no line.
LEMMA FlushKeeps ==
    ASSUME TextInductive, cursor = Parsing
    PROVE /\ Flushed \in Seq(SectionRecords)
          /\ \A t \in text : \E i \in 1..Len(Flushed) :
                HoldsLine(Flushed[i].path, Flushed[i].start, Flushed[i].end, Flushed[i].lines, t)
<1>1. sections \in Seq(SectionRecords) /\ Len(sections) \in Nat /\ NewSection \in SectionRecords
  BY DEF TextInductive, TextTypeOK, SectionRecords, NewSection
<1>2. CASE open.lines = <<>> /\ open.path # Untitled
  <2>1. Flushed = sections
    BY <1>2 DEF Flushed
  <2>2. ASSUME NEW t
        PROVE ~ HoldsLine(open.path, open.start, page, open.lines, t)
    BY <1>2 DEF HoldsLine, HasLine
  <2> QED BY <1>1, <2>1, <2>2 DEF TextInductive, LinesKept
<1>3. CASE ~ (open.lines = <<>> /\ open.path # Untitled)
  <2>1. Flushed = Append(sections, NewSection)
    BY <1>3 DEF Flushed
  <2>2. /\ Flushed \in Seq(SectionRecords) /\ Len(Flushed) = Len(sections) + 1
        /\ \A i \in 1..Len(sections) : Flushed[i] = sections[i]
        /\ Flushed[Len(sections) + 1] = NewSection
    BY <1>1, <2>1, AppendProperties
  <2>3. ASSUME NEW t \in text
        PROVE \E i \in 1..Len(Flushed) :
                HoldsLine(Flushed[i].path, Flushed[i].start, Flushed[i].end, Flushed[i].lines, t)
    <3>1. CASE HoldsLine(open.path, open.start, page, open.lines, t)
      <4>1. HoldsLine(NewSection.path, NewSection.start, NewSection.end,
                      NewSection.lines, t)
        BY <3>1 DEF NewSection
      <4>2. Len(sections) + 1 \in 1..Len(Flushed)
        BY <1>1, <2>2
      <4> QED BY <2>2, <4>1, <4>2
    <3>2. ASSUME NEW i \in 1..Len(sections),
                 HoldsLine(sections[i].path, sections[i].start, sections[i].end,
                           sections[i].lines, t)
          PROVE \E j \in 1..Len(Flushed) :
                HoldsLine(Flushed[j].path, Flushed[j].start, Flushed[j].end, Flushed[j].lines, t)
      <4>1. i \in 1..Len(Flushed) /\ Flushed[i] = sections[i]
        BY <1>1, <2>2
      <4> QED BY <3>2, <4>1
    <3> QED BY <3>1, <3>2 DEF TextInductive, LinesKept
  <2> QED BY <2>2, <2>3
<1> QED BY <1>2, <1>3

LEMMA ReadTextKeeps ==
    ASSUME TextInductive, NEW n \in Texts, NEW ends \in BOOLEAN, ReadText(n, ends)
    PROVE TextInductive'
<1> DEFINE new == [line |-> lineNo + 1, first |-> open.gap, ends |-> ends, count |-> n]
           read == [line |-> lineNo + 1, page |-> page, path |-> open.path]
<1>1. /\ cursor = Parsing /\ cursor' = Parsing /\ lineNo' = lineNo + 1
      /\ open' = [open EXCEPT !.gap = FALSE, !.lines = Append(open.lines, new)]
      /\ text' = text \cup {read}
      /\ UNCHANGED <<page, stack, sections, current, tokens, chunks>>
  BY DEF ReadText, ReadsLine
<1>2. new \in LineRecords /\ read \in [line: Nat, page: Nat, path: Seq(Nat)]
  BY TextConstants DEF TextInductive, TextTypeOK, LineRecords
<1>3. /\ open.lines \in Seq(LineRecords) /\ Len(open.lines) \in Nat
      /\ Append(open.lines, new) \in Seq(LineRecords)
      /\ Len(Append(open.lines, new)) = Len(open.lines) + 1
      /\ \A i \in 1..Len(open.lines) : Append(open.lines, new)[i] = open.lines[i]
      /\ Append(open.lines, new)[Len(open.lines) + 1] = new
  <2>1. open.lines \in Seq(LineRecords)
    BY DEF TextInductive, TextTypeOK
  <2> QED BY <1>2, <2>1, AppendProperties
<1>4. open'.lines = Append(open.lines, new) /\ open'.path = open.path /\ open'.start = open.start
  BY <1>1 DEF TextInductive, TextTypeOK
<1>5. TextTypeOK'
  <2>1. text' \subseteq [line: Nat, page: Nat, path: Seq(Nat)] /\ lineNo' \in Nat
    BY <1>1, <1>2 DEF TextInductive, TextTypeOK
  <2>2. open' \in [path: Seq(Nat), start: Nat, lines: Seq(LineRecords), gap: BOOLEAN]
    BY <1>1, <1>3 DEF TextInductive, TextTypeOK
  <2> QED BY <1>1, <2>1, <2>2 DEF TextInductive, TextTypeOK, Parsing
<1>6. OneAfterTheOther'
  BY <1>1, <1>4 DEF TextInductive, OneAfterTheOther
<1>7. LinesKept'
  <2>1. ASSUME NEW t \in text
        PROVE HasLine(open.lines, t) => HasLine(open'.lines, t)
    <3> SUFFICES ASSUME NEW k \in 1..Len(open.lines),
                        open.lines[k].line = t.line
                 PROVE HasLine(open'.lines, t)
      BY DEF HasLine
    <3>1. k \in 1..Len(open'.lines) /\ open'.lines[k] = open.lines[k]
      BY <1>3, <1>4
    <3> QED BY <3>1 DEF HasLine
  <2>2. HoldsLine(open'.path, open'.start, page, open'.lines, read)
    <3>1. Len(open.lines) + 1 \in 1..Len(open'.lines) /\ open'.lines[Len(open.lines) + 1] = new
      BY <1>3, <1>4
    <3>2. HasLine(open'.lines, read)
      BY <3>1 DEF HasLine
    <3>3. open'.start <= page /\ page <= page
      BY <1>1, <1>4 DEF TextInductive, OneAfterTheOther, TextTypeOK
    <3> QED BY <1>4, <3>2, <3>3 DEF HoldsLine
  <2>3. ASSUME NEW t \in text'
        PROVE \/ HoldsLine(open'.path, open'.start, page, open'.lines, t)
              \/ \E i \in 1..Len(sections) :
                    HoldsLine(sections[i].path, sections[i].start, sections[i].end,
                              sections[i].lines, t)
    <3>1. CASE t = read
      BY <2>2, <3>1
    <3>2. CASE t \in text
      BY <1>4, <2>1, <3>2 DEF TextInductive, LinesKept, HoldsLine
    <3> QED BY <1>1, <3>1, <3>2
  <2> QED BY <1>1, <2>3 DEF LinesKept
<1>8. PiecesKept'
  BY <1>1 DEF PiecesKept
<1> QED BY <1>1, <1>5, <1>6, <1>7, <1>8, NothingPacked DEF TextInductive

LEMMA ReadBlankKeeps ==
    ASSUME TextInductive, ReadBlank
    PROVE TextInductive'
<1>1. /\ cursor = Parsing /\ cursor' = Parsing /\ lineNo' = lineNo + 1
      /\ open' = [open EXCEPT !.gap = TRUE]
      /\ UNCHANGED <<page, stack, sections, current, tokens, chunks, text>>
  BY DEF ReadBlank, ReadsLine
<1>2. /\ open'.path = open.path /\ open'.start = open.start /\ open'.lines = open.lines
      /\ open' \in [path: Seq(Nat), start: Nat, lines: Seq(LineRecords), gap: BOOLEAN]
  BY <1>1 DEF TextInductive, TextTypeOK
<1>3. TextTypeOK'
  <2>1. /\ lineNo \in Nat /\ page \in Nat /\ stack \in Seq(Headings)
        /\ sections \in Seq(SectionRecords) /\ cursor \in [section: Nat, line: Nat]
        /\ current \in Seq(PieceRecords) /\ tokens \in Nat /\ chunks \in Seq(ChunkRecords)
        /\ text \subseteq [line: Nat, page: Nat, path: Seq(Nat)]
    BY DEF TextInductive, TextTypeOK
  <2>2. lineNo' \in Nat /\ cursor' = cursor
    BY <1>1, <2>1
  <2> QED BY <1>1, <1>2, <2>1, <2>2 DEF TextTypeOK
<1>4. OneAfterTheOther'
  BY <1>1, <1>2 DEF TextInductive, OneAfterTheOther
<1>5. LinesKept'
  BY <1>1, <1>2 DEF TextInductive, LinesKept
<1>6. PiecesKept'
  BY <1>1 DEF PiecesKept
<1> QED BY <1>1, <1>3, <1>4, <1>5, <1>6, NothingPacked DEF TextInductive

LEMMA ReadPageKeeps ==
    ASSUME TextInductive, ReadPageSplit
    PROVE TextInductive'
<1>1. /\ cursor = Parsing /\ cursor' = Parsing /\ lineNo' = lineNo + 1 /\ page' = page + 1
      /\ UNCHANGED <<open, stack, sections, current, tokens, chunks, text>>
  BY DEF ReadPageSplit, ReadsLine
<1>2. TextTypeOK'
  BY <1>1 DEF TextInductive, TextTypeOK, Parsing
<1>3. open.start \in Nat /\ page \in Nat /\ \A t \in text : t.page \in Nat
  BY DEF TextInductive, TextTypeOK
<1>4. OneAfterTheOther'
  BY <1>1, <1>3 DEF TextInductive, OneAfterTheOther
<1>5. LinesKept'
  <2>1. ASSUME NEW t \in text
        PROVE HoldsLine(open.path, open.start, page, open.lines, t) =>
              HoldsLine(open.path, open.start, page + 1, open.lines, t)
    BY <1>3 DEF HoldsLine
  <2> QED BY <1>1, <2>1 DEF TextInductive, LinesKept
<1>6. PiecesKept'
  BY <1>1 DEF PiecesKept
<1> QED BY <1>1, <1>2, <1>4, <1>5, <1>6, NothingPacked DEF TextInductive

LEMMA ReadHeadingKeeps ==
    ASSUME TextInductive, NEW level \in Levels, ReadHeading(level)
    PROVE TextInductive'
<1> DEFINE top == [title |-> lineNo + 1, level |-> level]
<1>1. /\ cursor = Parsing /\ cursor' = Parsing /\ lineNo' = lineNo + 1
      /\ sections' = Flushed /\ stack' = Append(Above(level), top)
      /\ open' = [path |-> [i \in 1..Len(stack') |-> stack'[i].title],
                  start |-> page, lines |-> <<>>, gap |-> TRUE]
      /\ UNCHANGED <<page, current, tokens, chunks, text>>
  BY DEF ReadHeading, ReadsLine, Opened
<1>2. top \in Headings /\ level \in Nat
  BY TextConstants DEF TextInductive, TextTypeOK, Headings
<1>3. stack' \in Seq(Headings)
  <2>1. Above(level) \in Seq(Headings)
    BY <1>2, AboveType DEF TextInductive, TextTypeOK
  <2> QED BY <1>1, <1>2, <2>1
<1>4. open' \in [path: Seq(Nat), start: Nat, lines: Seq(LineRecords), gap: BOOLEAN]
  <2>1. Len(stack') \in Nat /\ \A i \in 1..Len(stack') : stack'[i].title \in Nat
    <3>1. Len(stack') \in Nat /\ \A i \in 1..Len(stack') : stack'[i] \in Headings
      BY <1>3
    <3> QED BY <3>1 DEF Headings
  <2>2. [i \in 1..Len(stack') |-> stack'[i].title] \in Seq(Nat)
    BY <2>1
  <2>3. page \in Nat
    BY DEF TextInductive, TextTypeOK
  <2> QED BY <1>1, <2>2, <2>3
<1>5. TextTypeOK'
  BY <1>1, <1>3, <1>4, FlushKeeps DEF TextInductive, TextTypeOK, Parsing
<1>6. OneAfterTheOther'
  <2>1. page \in Nat /\ open'.start = page
    BY <1>1 DEF TextInductive, TextTypeOK
  <2> QED BY <1>1, <2>1 DEF TextInductive, OneAfterTheOther
<1>7. LinesKept'
  BY <1>1, FlushKeeps DEF LinesKept
<1>8. PiecesKept'
  BY <1>1 DEF PiecesKept
<1> QED BY <1>1, <1>5, <1>6, <1>7, <1>8, NothingPacked DEF TextInductive

LEMMA FinishKeeps ==
    ASSUME TextInductive, FinishOutline
    PROVE TextInductive'
<1>1. /\ cursor = Parsing /\ sections' = Flushed /\ cursor' = [section |-> 1, line |-> 1]
      /\ UNCHANGED <<lineNo, page, open, stack, current, tokens, chunks, text>>
  BY DEF FinishOutline
<1>2. cursor'.section = 1 /\ cursor'.line = 1 /\ cursor' # Parsing
  BY <1>1 DEF Parsing
<1>3. TextTypeOK'
  BY <1>1, FlushKeeps DEF TextInductive, TextTypeOK
<1>4. OneAfterTheOther'
  BY <1>2 DEF OneAfterTheOther
<1>5. LinesKept'
  BY <1>1, FlushKeeps DEF LinesKept
<1>6. PiecesKept'
  <2>1. ASSUME NEW i \in Nat, NEW k \in Nat, i > 0, k > 0 PROVE ~ Passed(i, k)'
    BY <1>2, <2>1 DEF Passed
  <2> SUFFICES ASSUME NEW i \in 1..Len(sections'), NEW k \in 1..Len(sections'[i].lines)
               PROVE ~ Passed(i, k)'
    BY DEF PiecesKept
  <2>2. i \in Nat /\ k \in Nat /\ i > 0 /\ k > 0
    <3>1. sections' \in Seq(SectionRecords)
      BY <1>3 DEF TextTypeOK
    <3>2. sections'[i] \in SectionRecords
      BY <3>1
    <3>3. sections'[i].lines \in Seq(LineRecords)
      BY <3>2 DEF SectionRecords
    <3>4. Len(sections') \in Nat /\ Len(sections'[i].lines) \in Nat
      BY <3>1, <3>3
    <3> QED BY <3>4
  <2> QED BY <2>1, <2>2
<1> QED BY <1>1, <1>3, <1>4, <1>5, <1>6, NothingPacked DEF TextInductive

-----------------------------------------------------------------------------
(* Packing *)

\* A chunk within the bound.
Fits(pieces) == 4 * TokensOf(pieces) <= 4 * Largest + 5 * Len(pieces)

Bounded(built) == \A i \in 1..Len(built) : Fits(built[i].pieces)

LEMMA BoundedChunks == Bounded(chunks) <=> ChunksBounded
BY DEF Bounded, Fits, ChunksBounded, Largest

LEMMA PackedFits ==
    ASSUME NEW pieces \in Seq(PieceRecords), OwnTokens(pieces) <= Largest
    PROVE Fits(pieces)
<1> DEFINE own == OwnTokens(pieces)
           all == TokensOf(pieces)
           n == Len(pieces)
<1>1. own \in Nat /\ all \in Nat /\ n \in Nat /\ 4 * all <= 4 * own + 5 * n
  BY JoinsAddLittle
<1>2. Largest \in Nat /\ own <= Largest
  BY TextConstants DEF Largest
<1> HIDE DEF own, all, n
<1>3. 4 * all <= 4 * Largest + 5 * n
  BY <1>1, <1>2
<1> QED BY <1>3 DEF Fits, all, n

LEMMA BuiltTogether ==
    ASSUME NEW a \in Seq(ChunkRecords), NEW b \in Seq(ChunkRecords)
    PROVE /\ a \o b \in Seq(ChunkRecords)
          /\ Bounded(a) /\ Bounded(b) => Bounded(a \o b)
          /\ \A i, lines, part, of :
                HasChunk(a, i, lines, part, of) => HasChunk(a \o b, i, lines, part, of)
          /\ \A i, lines, part, of :
                HasChunk(b, i, lines, part, of) => HasChunk(a \o b, i, lines, part, of)
<1>1. /\ a \o b \in Seq(ChunkRecords) /\ Len(a) \in Nat /\ Len(b) \in Nat
      /\ Len(a \o b) = Len(a) + Len(b)
      /\ \A i \in 1..Len(a) + Len(b) : (a \o b)[i] = IF i <= Len(a) THEN a[i] ELSE b[i - Len(a)]
  BY ConcatProperties
<1>2. \A i \in 1..Len(a) : i \in 1..Len(a \o b) /\ (a \o b)[i] = a[i]
  BY <1>1
<1>3. ASSUME NEW i \in 1..Len(b)
      PROVE Len(a) + i \in 1..Len(a \o b) /\ (a \o b)[Len(a) + i] = b[i]
  <2>1. Len(a) + i \in 1..Len(a) + Len(b) /\ ~ (Len(a) + i <= Len(a))
        /\ (Len(a) + i) - Len(a) = i
    BY <1>1
  <2> QED BY <1>1, <2>1
<1>4. ASSUME Bounded(a), Bounded(b) PROVE Bounded(a \o b)
  <2> SUFFICES ASSUME NEW i \in 1..Len(a \o b)
               PROVE Fits((a \o b)[i].pieces)
    BY DEF Bounded
  <2>1. CASE i <= Len(a)
    <3>1. i \in 1..Len(a) /\ (a \o b)[i] = a[i]
      BY <1>1, <2>1
    <3> QED BY <1>4, <3>1 DEF Bounded
  <2>2. CASE ~ (i <= Len(a))
    <3>1. i - Len(a) \in 1..Len(b) /\ (a \o b)[i] = b[i - Len(a)]
      BY <1>1, <2>2
    <3> QED BY <1>4, <3>1 DEF Bounded
  <2> QED BY <2>1, <2>2
<1>5. ASSUME NEW i, NEW lines, NEW part, NEW of, HasChunk(a, i, lines, part, of)
      PROVE HasChunk(a \o b, i, lines, part, of)
  <2>1. PICK c \in 1..Len(a) : a[c].section = i /\ HasPart(a[c].pieces, lines, part, of)
    BY <1>5 DEF HasChunk
  <2>2. c \in 1..Len(a \o b) /\ (a \o b)[c] = a[c]
    BY <1>2
  <2> QED BY <2>1, <2>2 DEF HasChunk
<1>6. ASSUME NEW i, NEW lines, NEW part, NEW of, HasChunk(b, i, lines, part, of)
      PROVE HasChunk(a \o b, i, lines, part, of)
  <2>1. PICK c \in 1..Len(b) : b[c].section = i /\ HasPart(b[c].pieces, lines, part, of)
    BY <1>6 DEF HasChunk
  <2>2. Len(a) + c \in 1..Len(a \o b) /\ (a \o b)[Len(a) + c] = b[c]
    BY <1>3
  <2> QED BY <2>1, <2>2 DEF HasChunk
<1> QED BY <1>1, <1>4, <1>5, <1>6

\* What keeps the parts that are built keeps the lines that are, and a line
\* packed is built with its chunk.
LEMMA BuiltLinesStay ==
    ASSUME NEW a, NEW b,
           \A i, lines, part, of :
                HasChunk(a, i, lines, part, of) => HasChunk(b, i, lines, part, of)
    PROVE \A i, line : IsBuilt(a, i, line) => IsBuilt(b, i, line)
<1> SUFFICES ASSUME NEW i, NEW line, IsBuilt(a, i, line) PROVE IsBuilt(b, i, line)
  OBVIOUS
<1>1. PICK lines, of : /\ line \in lines /\ of \in Nat \ {0}
                       /\ \A part \in 1..of : HasChunk(a, i, lines, part, of)
  BY DEF IsBuilt
<1>2. \A part \in 1..of : HasChunk(b, i, lines, part, of)
  BY <1>1
<1> QED BY <1>1, <1>2 DEF IsBuilt

LEMMA PackedLinesAreBuilt ==
    ASSUME NEW pieces, NEW built, NEW i,
           \A lines, part, of :
                HasPart(pieces, lines, part, of) => HasChunk(built, i, lines, part, of)
    PROVE \A line : IsPacked(pieces, line) => IsBuilt(built, i, line)
<1> SUFFICES ASSUME NEW line, IsPacked(pieces, line) PROVE IsBuilt(built, i, line)
  OBVIOUS
<1>1. PICK lines : line \in lines /\ HasPart(pieces, lines, 1, 1)
  BY DEF IsPacked
<1>2. HasChunk(built, i, lines, 1, 1)
  BY <1>1
<1>3. 1 \in Nat \ {0} /\ \A part \in 1..1 : part = 1
  OBVIOUS
<1>4. \A part \in 1..1 : HasChunk(built, i, lines, part, 1)
  BY <1>2, <1>3
<1> QED BY <1>1, <1>3, <1>4 DEF IsBuilt

LEMMA OneChunk ==
    ASSUME NEW pieces \in Seq(PieceRecords), cursor.section \in Nat, OwnTokens(pieces) <= Largest
    PROVE /\ NonEmpty(pieces) \in Seq(ChunkRecords)
          /\ Bounded(NonEmpty(pieces))
          /\ \A lines, part, of : HasPart(pieces, lines, part, of) =>
                HasChunk(NonEmpty(pieces), cursor.section, lines, part, of)
<1> DEFINE c == Chunk(pieces)
<1>1. c \in ChunkRecords /\ c.section = cursor.section /\ c.pieces = pieces
  BY DEF Chunk, ChunkRecords
<1> HIDE DEF c
<1>2. <<c>> \in Seq(ChunkRecords) /\ Len(<<c>>) = 1 /\ <<c>>[1] = c
  BY <1>1
<1>3. <<>> \in Seq(ChunkRecords) /\ Len(<<>>) = 0
  OBVIOUS
<1>4. CASE pieces = <<>>
  <2>1. NonEmpty(pieces) = <<>>
    BY <1>4 DEF NonEmpty
  <2>2. \A lines, part, of : ~ HasPart(pieces, lines, part, of)
    BY <1>3, <1>4 DEF HasPart
  <2> QED BY <1>3, <2>1, <2>2 DEF Bounded
<1>5. CASE pieces # <<>>
  <2>1. NonEmpty(pieces) = <<c>>
    BY <1>5 DEF NonEmpty, c
  <2>2. Bounded(<<c>>)
    BY <1>1, <1>2, PackedFits DEF Bounded
  <2>3. ASSUME NEW lines, NEW part, NEW of, HasPart(pieces, lines, part, of)
        PROVE HasChunk(<<c>>, cursor.section, lines, part, of)
    BY <1>1, <1>2, <2>3 DEF HasChunk
  <2> QED BY <1>2, <2>1, <2>2, <2>3
<1> QED BY <1>4, <1>5

\* A piece cut into parts is all there, part by part.
LEMMA PartsBuilt ==
    ASSUME NEW p \in PieceRecords, p.count.chars > 0, cursor.section \in Nat
    PROVE /\ HardParts(p) \in Seq(ChunkRecords)
          /\ Bounded(HardParts(p))
          /\ \A line \in p.lines : IsBuilt(HardParts(p), cursor.section, line)
<1> DEFINE C == p.count.chars
           N == (C + Limit - 1) \div Limit
           size(i) == IF i * Limit <= C THEN Limit ELSE C % Limit
           piece(i) == [lines |-> p.lines, part |-> i, of |-> N,
                        count |-> [words |-> size(i), other |-> 0, chars |-> size(i)]]
<1>1. C \in Nat \ {0} /\ p.lines \in SUBSET Nat /\ Limit \in Nat \ {0}
  BY TextConstants, RecordsCount, TokensAreNat DEF Counted
<1>2. N \in Nat \ {0}
  <2> HIDE DEF C
  <2>1. C + Limit - 1 \in Nat /\ C + Limit - 1 >= Limit
    BY <1>1
  <2> QED BY <1>1, <2>1
<1>3. C % Limit \in Nat /\ C % Limit <= Limit
  BY <1>1
<1>4. HardParts(p) = [i \in 1..N |-> Chunk(<<piece(i)>>)]
  BY DEF HardParts
<1> HIDE DEF N, C
<1>5. \A i \in Nat : size(i) \in Nat /\ size(i) <= Limit
  BY <1>1, <1>3
<1> HIDE DEF size
<1>6. ASSUME NEW i \in 1..N
      PROVE /\ piece(i) \in PieceRecords /\ CountTokens(piece(i).count) = size(i)
            /\ piece(i).lines = p.lines /\ piece(i).part = i /\ piece(i).of = N
  <2>1. i \in Nat /\ size(i) \in Nat
    BY <1>2, <1>5
  <2>2. piece(i).count \in Counts
    BY <2>1 DEF Counts
  <2>3. CountTokens(piece(i).count) = size(i)
    BY <2>1 DEF CountTokens
  <2> QED BY <1>1, <1>2, <2>1, <2>2, <2>3 DEF PieceRecords
<1> HIDE DEF piece
<1>7. ASSUME NEW i \in 1..N
      PROVE /\ <<piece(i)>> \in Seq(PieceRecords)
            /\ Len(<<piece(i)>>) = 1 /\ <<piece(i)>>[1] = piece(i)
            /\ Chunk(<<piece(i)>>) \in ChunkRecords
            /\ Fits(<<piece(i)>>)
  <2>1. <<piece(i)>> \in Seq(PieceRecords) /\ Len(<<piece(i)>>) = 1 /\ <<piece(i)>>[1] = piece(i)
    BY <1>6
  <2>2. Chunk(<<piece(i)>>) \in ChunkRecords
    BY <2>1 DEF Chunk, ChunkRecords
  <2>3. OwnTokens(<<piece(i)>>) = size(i)
    <3>1. <<>> \in Seq(PieceRecords) /\ Append(<<>>, piece(i)) = <<piece(i)>>
      OBVIOUS
    <3>2. OwnTokens(Append(<<>>, piece(i))) = OwnTokens(<<>>) + CountTokens(piece(i).count)
      BY <1>6, <3>1, OwnOfAppend
    <3>3. size(i) \in Nat /\ CountTokens(piece(i).count) = size(i)
      BY <1>2, <1>5, <1>6
    <3> QED BY <3>1, <3>2, <3>3, OwnOfNone
  <2>4. size(i) <= Largest
    <3>1. size(i) \in Nat /\ size(i) <= Limit
      BY <1>2, <1>5
    <3> QED BY <1>1, <3>1, TextConstants DEF Largest
  <2> QED BY <2>1, <2>2, <2>3, <2>4, PackedFits
<1>8. HardParts(p) \in Seq(ChunkRecords) /\ Len(HardParts(p)) = N
      /\ \A i \in 1..N : HardParts(p)[i] = Chunk(<<piece(i)>>)
  BY <1>2, <1>4, <1>7
<1>9. Bounded(HardParts(p))
  BY <1>7, <1>8 DEF Bounded, Chunk
<1>10. ASSUME NEW part \in 1..N
       PROVE HasChunk(HardParts(p), cursor.section, p.lines, part, N)
  <2>1. HasPart(<<piece(part)>>, p.lines, part, N)
    BY <1>6, <1>7 DEF HasPart
  <2>2. Chunk(<<piece(part)>>).section = cursor.section
        /\ Chunk(<<piece(part)>>).pieces = <<piece(part)>>
    BY DEF Chunk
  <2> QED BY <1>8, <2>1, <2>2 DEF HasChunk
<1>11. \A line \in p.lines : IsBuilt(HardParts(p), cursor.section, line)
  BY <1>2, <1>10 DEF IsBuilt
<1> QED BY <1>8, <1>9, <1>11

\* What a turn of the loop begins with: the pieces kept of the current chunk,
\* and the chunks with the one that was full.
PackedSoFar(full, kept, built) ==
    /\ kept \in Seq(PieceRecords) /\ OwnTokens(kept) <= Largest
    /\ \A k \in 1..Len(kept) : CountTokens(kept[k].count) <= Limit
    /\ full => OwnTokens(kept) <= Limit + Overlap
    /\ built \in Seq(ChunkRecords) /\ Bounded(built)
    /\ \A i, lines, part, of :
          HasChunk(chunks, i, lines, part, of) => HasChunk(built, i, lines, part, of)
    /\ \A line : IsPacked(current, line) =>
          IsBuilt(built, cursor.section, line) \/ IsPacked(kept, line)

LEMMA FullChunkIsBuilt ==
    ASSUME TextInductive, NEW full \in BOOLEAN, full => current # <<>>
    PROVE PackedSoFar(full, IF full THEN TailOverlap(current) ELSE current,
                      IF full THEN Append(chunks, Chunk(current)) ELSE chunks)
<1>1. /\ current \in Seq(PieceRecords) /\ chunks \in Seq(ChunkRecords) /\ cursor.section \in Nat
      /\ OwnTokens(current) <= Largest
      /\ \A k \in 1..Len(current) : CountTokens(current[k].count) <= Limit
      /\ Bounded(chunks)
  BY BoundedChunks DEF TextInductive, TextTypeOK, PackedBounded
<1>2. CASE full
  <2>1. /\ TailOverlap(current) \in Seq(PieceRecords)
        /\ OwnTokens(TailOverlap(current)) <= Limit + Overlap
        /\ \A k \in 1..Len(TailOverlap(current)) :
              CountTokens(TailOverlap(current)[k].count) <= Limit
    BY <1>1, TailIsShort
  <2>2. OwnTokens(TailOverlap(current)) <= Largest
    BY <2>1, JoinsAddLittle, TextConstants DEF Largest
  <2>3. Append(chunks, Chunk(current)) = chunks \o NonEmpty(current)
    <3>1. Chunk(current) \in ChunkRecords /\ NonEmpty(current) = <<Chunk(current)>>
      BY <1>1, <1>2 DEF Chunk, ChunkRecords, NonEmpty
    <3> QED BY <1>1, <3>1, AppendIsConcat
  <2> DEFINE built == chunks \o NonEmpty(current)
  <2>4. /\ NonEmpty(current) \in Seq(ChunkRecords) /\ Bounded(NonEmpty(current))
        /\ \A lines, part, of : HasPart(current, lines, part, of) =>
              HasChunk(NonEmpty(current), cursor.section, lines, part, of)
    BY <1>1, OneChunk
  <2>5. /\ built \in Seq(ChunkRecords) /\ Bounded(built)
        /\ \A i, lines, part, of :
              HasChunk(chunks, i, lines, part, of) => HasChunk(built, i, lines, part, of)
        /\ \A i, lines, part, of :
              HasChunk(NonEmpty(current), i, lines, part, of) => HasChunk(built, i, lines, part, of)
    BY <1>1, <2>4, BuiltTogether
  <2> HIDE DEF built
  <2>6. \A line : IsPacked(current, line) => IsBuilt(built, cursor.section, line)
    BY <2>4, <2>5, PackedLinesAreBuilt
  <2>7. PackedSoFar(TRUE, TailOverlap(current), built)
    BY <2>1, <2>2, <2>5, <2>6 DEF PackedSoFar
  <2> QED BY <1>2, <2>3, <2>7 DEF built
<1>3. CASE ~full
  BY <1>1, <1>3 DEF PackedSoFar
<1> QED BY <1>2, <1>3

\* The lines the packing is at.
LEMMA LinesAtHand ==
    ASSUME TextInductive, Chunking
    PROVE /\ cursor.section \in 1..Len(sections) /\ Section = sections[cursor.section]
          /\ Lines \in Seq(LineRecords) /\ Len(Lines) \in Nat
          /\ cursor.line \in Nat /\ cursor.line > 0
<1>1. /\ sections \in Seq(SectionRecords) /\ Len(sections) \in Nat
      /\ cursor.section \in Nat /\ cursor.line \in Nat
      /\ cursor.section > 0 /\ cursor.line > 0 /\ cursor.section <= Len(sections)
  BY DEF TextInductive, TextTypeOK, OneAfterTheOther, Chunking
<1>2. cursor.section \in 1..Len(sections)
  BY <1>1
<1>3. Section \in SectionRecords
  BY <1>1, <1>2 DEF Section
<1>4. Lines \in Seq(LineRecords) /\ Len(Lines) \in Nat
  BY <1>3 DEF SectionRecords, Lines
<1> QED BY <1>1, <1>2, <1>4 DEF Section

\* A paragraph and a sentence end somewhere from a line on.
LEMMA PieceEnds ==
    ASSUME NEW ends \in SUBSET (1..Len(Lines)), Len(Lines) \in Nat, Len(Lines) \in ends,
           NEW k \in Nat, k <= Len(Lines)
    PROVE EndFrom(ends, k) \in k..Len(Lines)
<1> DEFINE T == {e \in ends : k <= e}
           Is(e) == k <= e /\ \A i \in ends : k <= i => e <= i
<1>1. T \in SUBSET Nat /\ T # {}
  <2>1. Len(Lines) \in T
    OBVIOUS
  <2>2. \A e \in ends : e \in Nat
    OBVIOUS
  <2> QED BY <2>1, <2>2
<1>2. PICK e \in T : \A i \in T : e <= i
  <2> HIDE DEF T
  <2> QED BY <1>1, LeastNumber
<1>3. \E x \in ends : Is(x)
  BY <1>2
<1> DEFINE c == CHOOSE x \in ends : Is(x)
<1>4. c \in ends /\ Is(c)
  BY <1>3
<1>5. EndFrom(ends, k) = c
  BY DEF EndFrom
<1> HIDE DEF c
<1> QED BY <1>4, <1>5

LEMMA PieceAtHand ==
    ASSUME TextInductive, Chunking, cursor.line <= Len(Lines)
    PROVE /\ LastLine \in cursor.line..Len(Lines)
          /\ NextPiece \in PieceRecords /\ NextPiece.part = 1 /\ NextPiece.of = 1
          /\ NextPiece.count.chars > 0
          /\ \A k \in cursor.line..LastLine : Lines[k].line \in NextPiece.lines
<1>1. /\ Lines \in Seq(LineRecords) /\ Len(Lines) \in Nat
      /\ cursor.line \in Nat /\ cursor.line > 0
  BY LinesAtHand
<1>2. Len(Lines) \in 1..Len(Lines)
  BY <1>1
<1>3. /\ ParagraphEnds \in SUBSET (1..Len(Lines)) /\ Len(Lines) \in ParagraphEnds
      /\ SentenceEnds \in SUBSET (1..Len(Lines)) /\ Len(Lines) \in SentenceEnds
  BY <1>2 DEF ParagraphEnds, SentenceEnds
<1>4. LastLine \in cursor.line..Len(Lines)
  BY <1>1, <1>3, PieceEnds DEF LastLine
<1> DEFINE first == cursor.line
           last == LastLine
           lines == SubSeq(Lines, first, last)
<1>5. first \in Int /\ last \in Int /\ first <= last /\ last <= Len(Lines) /\ first > 0
  BY <1>1, <1>4
<1>6. \A i \in first..last : Lines[i] \in LineRecords
  BY <1>1, <1>5
<1>7. /\ lines \in Seq(LineRecords) /\ Len(lines) = last - first + 1
      /\ \A i \in 1..last - first + 1 : lines[i] = Lines[first + i - 1]
  <2> HIDE DEF first, last
  <2> QED BY <1>5, <1>6, SubSeqProperties
<1>8. NextPiece = [lines |-> {lines[i].line : i \in 1..Len(lines)}, part |-> 1, of |-> 1,
                   count |-> Joined(lines, 1)]
  BY DEF NextPiece
<1> HIDE DEF lines, last, first
<1>9. Joined(lines, 1) \in Counts /\ Joined(lines, 1).chars > 0
  BY <1>5, <1>7, RecordsCount, JoinedCounts, JoinedLinesHaveCharacters
<1>10. {lines[i].line : i \in 1..Len(lines)} \in SUBSET Nat
  BY <1>7, RecordsCount
<1>11. NextPiece \in PieceRecords
  BY <1>8, <1>9, <1>10 DEF PieceRecords
<1>12. ASSUME NEW k \in first..last PROVE Lines[k].line \in NextPiece.lines
  <2>1. k - first + 1 \in 1..Len(lines) /\ first + (k - first + 1) - 1 = k
    BY <1>5, <1>7
  <2>2. lines[k - first + 1] = Lines[k]
    BY <1>7, <2>1
  <2> QED BY <1>8, <2>1, <2>2
<1> QED BY <1>4, <1>8, <1>9, <1>11, <1>12 DEF first, last

\* The cursor moves past the lines of one piece: those before it are kept, and
\* so are these.
LEMMA OnePiecePassed ==
    ASSUME TextInductive, Chunking, cursor.line <= Len(Lines),
           cursor' = [cursor EXCEPT !.line = LastLine + 1], UNCHANGED sections,
           \A i, line : IsBuilt(chunks, i, line) => IsBuilt(chunks', i, line),
           \A line : IsPacked(current, line) =>
                IsBuilt(chunks', cursor.section, line) \/ IsPacked(current', line),
           \A line \in NextPiece.lines :
                IsBuilt(chunks', cursor.section, line) \/ IsPacked(current', line)
    PROVE PiecesKept' /\ OneAfterTheOther' /\ cursor' \in [section: Nat, line: Nat]
<1>1. /\ cursor \in [section: Nat, line: Nat] /\ cursor # Parsing
      /\ cursor.section > 0 /\ cursor.line > 0
  BY DEF TextInductive, TextTypeOK, OneAfterTheOther, Chunking
<1>2. /\ LastLine \in Nat /\ LastLine >= cursor.line
      /\ \A k \in cursor.line..LastLine : Lines[k].line \in NextPiece.lines
  BY <1>1, LinesAtHand, PieceAtHand
<1>3. /\ cursor'.section = cursor.section /\ cursor'.line = LastLine + 1
      /\ cursor' \in [section: Nat, line: Nat]
  BY <1>1, <1>2
<1>4. cursor' # Parsing /\ OneAfterTheOther'
  BY <1>1, <1>2, <1>3 DEF OneAfterTheOther, Parsing
<1>5. ASSUME NEW i \in 1..Len(sections), NEW k \in 1..Len(sections[i].lines), Passed(i, k)'
      PROVE \/ IsBuilt(chunks', i, sections[i].lines[k].line)
            \/ i = cursor'.section /\ IsPacked(current', sections[i].lines[k].line)
  <2>1. k \in Nat
    <3>1. sections \in Seq(SectionRecords)
      BY DEF TextInductive, TextTypeOK
    <3>2. sections[i] \in SectionRecords
      BY <3>1
    <3>3. sections[i].lines \in Seq(LineRecords)
      BY <3>2 DEF SectionRecords
    <3>4. Len(sections[i].lines) \in Nat
      BY <3>3
    <3> QED BY <3>4
  <2>2. CASE Passed(i, k)
    <3>1. \/ IsBuilt(chunks, i, sections[i].lines[k].line)
          \/ i = cursor.section /\ IsPacked(current, sections[i].lines[k].line)
      BY <1>1, <2>2 DEF TextInductive, PiecesKept
    <3> QED BY <1>3, <3>1
  <2>3. CASE ~Passed(i, k)
    <3>1. i = cursor.section /\ k \in cursor.line..LastLine
      BY <1>1, <1>2, <1>3, <1>5, <2>1, <2>3 DEF Passed
    <3>2. sections[i].lines[k].line \in NextPiece.lines
      BY <1>2, <3>1 DEF Lines, Section
    <3> QED BY <1>3, <3>1, <3>2
  <2> QED BY <2>2, <2>3
<1>6. PiecesKept'
  BY <1>5 DEF PiecesKept
<1> QED BY <1>3, <1>4, <1>6

LEMMA PackPieceKeeps ==
    ASSUME TextInductive, PackPiece
    PROVE TextInductive'
<1> DEFINE p == NextPiece
           size == CountTokens(p.count)
           full == current # <<>> /\ tokens + size > Limit
           kept == IF full THEN TailOverlap(current) ELSE current
           built == IF full THEN Append(chunks, Chunk(current)) ELSE chunks
<1>1. /\ Chunking /\ cursor.line <= Len(Lines)
      /\ cursor' = [cursor EXCEPT !.line = LastLine + 1]
      /\ UNCHANGED <<lineNo, page, open, stack, sections, text>>
  BY DEF PackPiece
<1>2. /\ TooLarge(p) => /\ chunks' = built \o NonEmpty(kept) \o HardParts(p)
                        /\ current' = <<>> /\ tokens' = 0
      /\ ~TooLarge(p) => /\ chunks' = built /\ current' = Append(kept, p)
                         /\ tokens' = size + IF full THEN TokensOf(kept) ELSE tokens
  BY DEF PackPiece
<1>3. /\ p \in PieceRecords /\ p.part = 1 /\ p.of = 1 /\ p.count.chars > 0
      /\ cursor.section \in Nat
  BY <1>1, PieceAtHand DEF TextInductive, TextTypeOK
<1>4. PackedSoFar(full, kept, built)
  <2>1. full \in BOOLEAN /\ (full => current # <<>>)
    OBVIOUS
  <2> QED BY <2>1, FullChunkIsBuilt
<1>5. size \in Nat
  BY <1>3, RecordsCount, TokensAreNat DEF Counted
<1>6. /\ OwnTokens(current) <= tokens /\ OwnTokens(current) \in Nat /\ tokens \in Nat
      /\ Limit \in Nat /\ Overlap \in Nat
  BY TextConstants, JoinsAddLittle DEF TextInductive, TextTypeOK, PackedBounded
<1>7. ~full => kept = current /\ (OwnTokens(kept) = 0 \/ tokens + size <= Limit)
  BY <1>5, <1>6, OwnOfNone
<1>8. TooLarge(p) <=> size > Limit
  BY DEF TooLarge
<1>9. \A line : line \in p.lines => line \in NextPiece.lines
  OBVIOUS
<1> HIDE DEF full, kept, built, size
<1>10. /\ OwnTokens(kept) \in Nat /\ TokensOf(kept) \in Nat /\ OwnTokens(kept) <= TokensOf(kept)
  BY <1>4, JoinsAddLittle DEF PackedSoFar
<1>11. CASE TooLarge(p)
  <2>1. /\ NonEmpty(kept) \in Seq(ChunkRecords) /\ Bounded(NonEmpty(kept))
        /\ \A lines, part, of : HasPart(kept, lines, part, of) =>
              HasChunk(NonEmpty(kept), cursor.section, lines, part, of)
    BY <1>3, <1>4, OneChunk DEF PackedSoFar
  <2>2. /\ HardParts(p) \in Seq(ChunkRecords) /\ Bounded(HardParts(p))
        /\ \A line \in p.lines : IsBuilt(HardParts(p), cursor.section, line)
    BY <1>3, PartsBuilt
  <2> DEFINE first == built \o NonEmpty(kept)
  <2>3. /\ first \in Seq(ChunkRecords) /\ Bounded(first)
        /\ \A i, lines, part, of :
              HasChunk(built, i, lines, part, of) => HasChunk(first, i, lines, part, of)
        /\ \A i, lines, part, of :
              HasChunk(NonEmpty(kept), i, lines, part, of) => HasChunk(first, i, lines, part, of)
    BY <1>4, <2>1, BuiltTogether DEF PackedSoFar
  <2>4. chunks' = first \o HardParts(p)
    BY <1>2, <1>11
  <2> HIDE DEF first
  <2>5. /\ chunks' \in Seq(ChunkRecords) /\ Bounded(chunks')
        /\ \A i, lines, part, of :
              HasChunk(first, i, lines, part, of) => HasChunk(chunks', i, lines, part, of)
        /\ \A i, lines, part, of :
              HasChunk(HardParts(p), i, lines, part, of) => HasChunk(chunks', i, lines, part, of)
    BY <2>2, <2>3, <2>4, BuiltTogether
  <2>6. /\ \A i, line : IsBuilt(chunks, i, line) => IsBuilt(built, i, line)
        /\ \A i, line : IsBuilt(built, i, line) => IsBuilt(first, i, line)
        /\ \A i, line : IsBuilt(first, i, line) => IsBuilt(chunks', i, line)
        /\ \A i, line : IsBuilt(HardParts(p), i, line) => IsBuilt(chunks', i, line)
    <3>1. \A i, line : IsBuilt(chunks, i, line) => IsBuilt(built, i, line)
      BY <1>4, BuiltLinesStay DEF PackedSoFar
    <3>2. \A i, line : IsBuilt(built, i, line) => IsBuilt(first, i, line)
      BY <2>3, BuiltLinesStay
    <3>3. \A i, line : IsBuilt(first, i, line) => IsBuilt(chunks', i, line)
      BY <2>5, BuiltLinesStay
    <3>4. \A i, line : IsBuilt(HardParts(p), i, line) => IsBuilt(chunks', i, line)
      BY <2>5, BuiltLinesStay
    <3> QED BY <3>1, <3>2, <3>3, <3>4
  <2>7. \A line : IsPacked(kept, line) => IsBuilt(first, cursor.section, line)
    BY <2>1, <2>3, PackedLinesAreBuilt
  <2>8. \A i, line : IsBuilt(chunks, i, line) => IsBuilt(chunks', i, line)
    BY <2>6
  <2>9. \A line : IsPacked(current, line) => IsBuilt(chunks', cursor.section, line)
    BY <1>4, <2>6, <2>7 DEF PackedSoFar
  <2>10. \A line \in p.lines : IsBuilt(chunks', cursor.section, line)
    BY <2>2, <2>6
  <2>11. PiecesKept' /\ OneAfterTheOther' /\ cursor' \in [section: Nat, line: Nat]
    BY <1>1, <2>8, <2>9, <2>10, OnePiecePassed
  <2>12. current' = <<>> /\ tokens' = 0 /\ current' \in Seq(PieceRecords) /\ OwnTokens(current') = 0
    <3>1. <<>> \in Seq(PieceRecords)
      OBVIOUS
    <3> QED BY <1>2, <1>11, <3>1, OwnOfNone
  <2>13. PackedBounded'
    <3>1. 0 <= Largest /\ Largest' = Largest
      BY <1>6 DEF Largest
    <3>2. \A k \in 1..Len(current') : CountTokens(current'[k].count) <= Limit
      BY <2>12
    <3> QED BY <2>12, <3>1, <3>2 DEF PackedBounded
  <2>14. ChunksBounded'
    BY <2>5 DEF Bounded, Fits, ChunksBounded, Largest
  <2>15. TextTypeOK'
    BY <1>1, <2>5, <2>11, <2>12 DEF TextInductive, TextTypeOK
  <2>16. LinesKept'
    BY <1>1 DEF TextInductive, LinesKept, Chunking
  <2> QED BY <2>11, <2>13, <2>14, <2>15, <2>16 DEF TextInductive
<1>12. CASE ~TooLarge(p)
  <2>1. /\ chunks' = built /\ current' = Append(kept, p)
        /\ tokens' = size + IF full THEN TokensOf(kept) ELSE tokens
    BY <1>2, <1>12
  <2>2. /\ current' \in Seq(PieceRecords) /\ Len(kept) \in Nat /\ Len(current') = Len(kept) + 1
        /\ \A k \in 1..Len(kept) : current'[k] = kept[k]
        /\ current'[Len(kept) + 1] = p
    BY <1>3, <1>4, <2>1, AppendProperties DEF PackedSoFar
  <2>3. ASSUME NEW line, IsPacked(kept, line) PROVE IsPacked(current', line)
    <3>1. PICK lines : line \in lines /\ HasPart(kept, lines, 1, 1)
      BY <2>3 DEF IsPacked
    <3>2. PICK k \in 1..Len(kept) :
            kept[k].lines = lines /\ kept[k].part = 1 /\ kept[k].of = 1
      BY <3>1 DEF HasPart
    <3>3. k \in 1..Len(current') /\ current'[k] = kept[k]
      BY <2>2
    <3>4. HasPart(current', lines, 1, 1)
      BY <3>2, <3>3 DEF HasPart
    <3> QED BY <3>1, <3>4 DEF IsPacked
  <2>4. \A line \in p.lines : IsPacked(current', line)
    <3>1. Len(kept) + 1 \in 1..Len(current')
      BY <2>2
    <3>2. HasPart(current', p.lines, 1, 1)
      BY <1>3, <2>2, <3>1 DEF HasPart
    <3> QED BY <3>2 DEF IsPacked
  <2>5. PiecesKept' /\ OneAfterTheOther' /\ cursor' \in [section: Nat, line: Nat]
    <3>1. \A i, line : IsBuilt(chunks, i, line) => IsBuilt(chunks', i, line)
      BY <1>4, <2>1, BuiltLinesStay DEF PackedSoFar
    <3>2. \A line : IsPacked(current, line) =>
              IsBuilt(chunks', cursor.section, line) \/ IsPacked(current', line)
      BY <1>4, <2>1, <2>3 DEF PackedSoFar
    <3> QED BY <1>1, <2>4, <3>1, <3>2, OnePiecePassed
  <2>6. OwnTokens(current') = OwnTokens(kept) + size
    BY <1>3, <1>4, <2>1, OwnOfAppend DEF PackedSoFar, size
  <2>7. size <= Limit
    BY <1>5, <1>6, <1>8, <1>12
  <2>8. OwnTokens(current') <= tokens' /\ tokens' \in Nat
    <3>1. CASE full
      BY <1>5, <1>10, <2>1, <2>6, <3>1
    <3>2. CASE ~full
      BY <1>5, <1>6, <1>7, <2>1, <2>6, <3>2
    <3> QED BY <3>1, <3>2
  <2>9. OwnTokens(current') <= Largest
    <3>1. CASE full
      <4>1. OwnTokens(kept) <= Limit + Overlap
        BY <1>4, <3>1 DEF PackedSoFar
      <4> QED BY <1>5, <1>6, <1>10, <2>6, <2>7, <4>1 DEF Largest
    <3>2. CASE ~full
      <4>1. OwnTokens(kept) + size <= Limit
        BY <1>5, <1>6, <1>7, <2>7, <3>2
      <4> QED BY <1>5, <1>6, <1>10, <2>6, <4>1 DEF Largest
    <3> QED BY <3>1, <3>2
  <2>10. \A k \in 1..Len(current') : CountTokens(current'[k].count) <= Limit
    <3> SUFFICES ASSUME NEW k \in 1..Len(current')
                 PROVE CountTokens(current'[k].count) <= Limit
      OBVIOUS
    <3>1. CASE k \in 1..Len(kept)
      BY <1>4, <2>2, <3>1 DEF PackedSoFar
    <3>2. CASE k = Len(kept) + 1
      BY <2>2, <2>7, <3>2 DEF size
    <3> QED BY <2>2, <3>1, <3>2
  <2>11. PackedBounded'
    BY <2>8, <2>9, <2>10 DEF PackedBounded, Largest
  <2>12. chunks' \in Seq(ChunkRecords) /\ Bounded(chunks')
    BY <1>4, <2>1 DEF PackedSoFar
  <2>13. ChunksBounded'
    BY <2>12 DEF Bounded, Fits, ChunksBounded, Largest
  <2>14. TextTypeOK'
    BY <1>1, <2>2, <2>5, <2>8, <2>12 DEF TextInductive, TextTypeOK
  <2>15. LinesKept'
    BY <1>1 DEF TextInductive, LinesKept, Chunking
  <2> QED BY <2>5, <2>11, <2>13, <2>14, <2>15 DEF TextInductive
<1> QED BY <1>11, <1>12

LEMMA CloseSectionKeeps ==
    ASSUME TextInductive, CloseSection
    PROVE TextInductive'
<1>1. /\ Chunking /\ cursor.line > Len(Lines)
      /\ chunks' = chunks \o NonEmpty(current)
      /\ current' = <<>> /\ tokens' = 0
      /\ cursor' = [section |-> cursor.section + 1, line |-> 1]
      /\ UNCHANGED <<lineNo, page, open, stack, sections, text>>
  BY DEF CloseSection
<1>2. /\ cursor.section \in Nat /\ cursor.line \in Nat /\ cursor # Parsing
      /\ cursor.section > 0 /\ current \in Seq(PieceRecords) /\ OwnTokens(current) <= Largest
      /\ chunks \in Seq(ChunkRecords) /\ Bounded(chunks)
  BY <1>1, BoundedChunks DEF TextInductive, TextTypeOK, OneAfterTheOther, Chunking, PackedBounded
<1>3. /\ cursor'.section = cursor.section + 1 /\ cursor'.line = 1
      /\ cursor' \in [section: Nat, line: Nat]
  BY <1>1, <1>2
<1>4. cursor' # Parsing /\ OneAfterTheOther'
  BY <1>2, <1>3 DEF OneAfterTheOther, Parsing
<1>5. /\ NonEmpty(current) \in Seq(ChunkRecords) /\ Bounded(NonEmpty(current))
      /\ \A lines, part, of : HasPart(current, lines, part, of) =>
            HasChunk(NonEmpty(current), cursor.section, lines, part, of)
  BY <1>2, OneChunk
<1>6. /\ chunks' \in Seq(ChunkRecords) /\ Bounded(chunks')
      /\ \A i, lines, part, of :
            HasChunk(chunks, i, lines, part, of) => HasChunk(chunks', i, lines, part, of)
      /\ \A i, lines, part, of :
            HasChunk(NonEmpty(current), i, lines, part, of) => HasChunk(chunks', i, lines, part, of)
  BY <1>1, <1>2, <1>5, BuiltTogether
<1>7. \A i, line : IsBuilt(chunks, i, line) => IsBuilt(chunks', i, line)
  BY <1>6, BuiltLinesStay
<1>8. \A line : IsPacked(current, line) => IsBuilt(chunks', cursor.section, line)
  BY <1>5, <1>6, PackedLinesAreBuilt
<1>9. PiecesKept'
  <2>1. ASSUME NEW i \in 1..Len(sections), NEW k \in 1..Len(sections[i].lines), Passed(i, k)'
        PROVE IsBuilt(chunks', i, sections[i].lines[k].line)
    <3>1. k \in Nat /\ k <= Len(sections[i].lines) /\ Len(sections[i].lines) \in Nat
          /\ i \in Nat
      <4>1. sections[i] \in SectionRecords /\ Len(sections) \in Nat
        BY DEF TextInductive, TextTypeOK
      <4>2. Len(sections[i].lines) \in Nat
        BY <4>1 DEF SectionRecords
      <4> QED BY <4>1, <4>2
    <3>2. i <= cursor.section
      BY <1>2, <1>3, <2>1, <3>1 DEF Passed
    <3>3. Passed(i, k)
      BY <1>1, <1>2, <3>1, <3>2 DEF Passed, Section, Lines
    <3>4. \/ IsBuilt(chunks, i, sections[i].lines[k].line)
          \/ i = cursor.section /\ IsPacked(current, sections[i].lines[k].line)
      BY <1>2, <3>3 DEF TextInductive, PiecesKept
    <3> QED BY <1>7, <1>8, <3>4
  <2> QED BY <1>1, <2>1 DEF PiecesKept
<1>10. current' \in Seq(PieceRecords) /\ OwnTokens(current') = 0
  <2>1. <<>> \in Seq(PieceRecords)
    OBVIOUS
  <2> QED BY <1>1, <2>1, OwnOfNone
<1>11. PackedBounded'
  <2>1. 0 <= Largest /\ Largest' = Largest
    BY TextConstants DEF Largest
  <2>2. \A k \in 1..Len(current') : CountTokens(current'[k].count) <= Limit
    BY <1>1
  <2> QED BY <1>1, <1>10, <2>1, <2>2 DEF PackedBounded
<1>12. ChunksBounded'
  BY <1>6 DEF Bounded, Fits, ChunksBounded, Largest
<1>13. TextTypeOK'
  BY <1>1, <1>3, <1>6, <1>10 DEF TextInductive, TextTypeOK
<1>14. LinesKept'
  BY <1>1 DEF TextInductive, LinesKept, Chunking
<1> QED BY <1>4, <1>9, <1>11, <1>12, <1>13, <1>14 DEF TextInductive

-----------------------------------------------------------------------------
LEMMA TextStarts == TextInit => TextInductive
<1> SUFFICES ASSUME TextInit PROVE TextInductive
  OBVIOUS
<1>1. /\ <<>> \in Seq(PieceRecords) /\ <<>> \in Seq(LineRecords) /\ Len(<<>>) = 0
      /\ Untitled \in Seq(Nat)
  BY DEF Untitled
<1>2. TextTypeOK
  BY <1>1 DEF TextInit, TextTypeOK, Parsing, Opened
<1>3. OneAfterTheOther /\ LinesKept /\ PiecesKept
  BY DEF TextInit, OneAfterTheOther, LinesKept, PiecesKept, Opened
<1>4. 0 <= Largest
  BY TextConstants DEF Largest
<1>5. PackedBounded /\ ChunksBounded
  BY <1>1, <1>4, OwnOfNone DEF TextInit, PackedBounded, ChunksBounded
<1> QED BY <1>2, <1>3, <1>5 DEF TextInductive

LEMMA TextUnchanged == TextInductive /\ UNCHANGED textVars => TextInductive'
<1> SUFFICES ASSUME TextInductive, UNCHANGED textVars PROVE TextInductive'
  OBVIOUS
<1>1. TextTypeOK' /\ OneAfterTheOther'
  BY DEF TextInductive, textVars, TextTypeOK, OneAfterTheOther
<1>2. LinesKept' /\ PiecesKept'
  BY DEF TextInductive, textVars, LinesKept, PiecesKept, Passed
<1>3. PackedBounded' /\ ChunksBounded'
  BY DEF TextInductive, textVars, PackedBounded, ChunksBounded, Largest
<1> QED BY <1>1, <1>2, <1>3 DEF TextInductive

LEMMA TextStep == TextInductive /\ [Next]_vars => TextInductive'
<1> SUFFICES ASSUME TextInductive, [Next]_vars PROVE TextInductive'
  OBVIOUS
<1>1. CASE TextNext
  BY <1>1, ReadTextKeeps, ReadBlankKeeps, ReadPageKeeps, ReadHeadingKeeps, FinishKeeps,
     PackPieceKeeps, CloseSectionKeeps DEF TextNext
<1>2. CASE ~TextNext
  <2>1. UNCHANGED textVars
    BY <1>2 DEF Next, vars, Ask, RetrieveTrackA, RetrieveTrackB, RrfFusion, DeleteDocument,
                MaterializeCandidates, DedupeCitations, ShouldAnswer
  <2> QED BY <2>1, TextUnchanged
<1> QED BY <1>1, <1>2

\* When all is packed every line is in chunks of its section, with all parts of
\* its piece.
LEMMA PackedIsIndexed == TextInductive => TextIsIndexed
<1> SUFFICES ASSUME TextInductive, Indexed, NEW t \in text
             PROVE \E c \in 1..Len(chunks) : \E k \in 1..Len(chunks[c].pieces) :
                      LET p == chunks[c].pieces[k] IN
                      /\ t.line \in p.lines
                      /\ \A part \in 1..p.of :
                            \E d \in 1..Len(chunks) : Holds(chunks[d], t, p.lines, part, p.of)
  BY DEF TextIsIndexed
<1>1. PICK i \in 1..Len(sections) :
        HoldsLine(sections[i].path, sections[i].start, sections[i].end, sections[i].lines, t)
  BY DEF TextInductive, LinesKept, Indexed
<1>2. PICK n \in 1..Len(sections[i].lines) : sections[i].lines[n].line = t.line
  BY <1>1 DEF HoldsLine, HasLine
<1>3. Passed(i, n) /\ i # cursor.section
  <2>1. Len(sections) \in Nat /\ cursor.section \in Nat /\ cursor.section > Len(sections)
    BY DEF TextInductive, TextTypeOK, Indexed
  <2> QED BY <2>1 DEF Passed
<1>4. IsBuilt(chunks, i, t.line)
  BY <1>2, <1>3 DEF TextInductive, PiecesKept, Indexed
<1>5. PICK lines, of : /\ t.line \in lines /\ of \in Nat \ {0}
                       /\ \A part \in 1..of : HasChunk(chunks, i, lines, part, of)
  BY <1>4 DEF IsBuilt
<1>6. ASSUME NEW part \in 1..of
      PROVE \E d \in 1..Len(chunks) : Holds(chunks[d], t, lines, part, of)
  <2>1. PICK d \in 1..Len(chunks) :
            chunks[d].section = i /\ HasPart(chunks[d].pieces, lines, part, of)
    BY <1>5 DEF HasChunk
  <2>2. Holds(chunks[d], t, lines, part, of)
    BY <1>1, <2>1 DEF Holds, HoldsLine, HasPart
  <2> QED BY <2>2
<1>7. PICK c \in 1..Len(chunks) : HasPart(chunks[c].pieces, lines, 1, of)
  <2>1. 1 \in 1..of
    BY <1>5
  <2> QED BY <1>5, <2>1 DEF HasChunk
<1>8. PICK k \in 1..Len(chunks[c].pieces) :
        chunks[c].pieces[k].lines = lines /\ chunks[c].pieces[k].of = of
  BY <1>7 DEF HasPart
<1> QED BY <1>5, <1>6, <1>8

\* The invariant of reading and packing.
THEOREM TextInvariant == Spec => []TextInductive
<1>1. Init => TextInductive
  BY TextStarts DEF Init
<1> QED BY <1>1, TextStep, PTL DEF Spec

\* Whatever the document, the limits and the overlap: once it is chunked every
\* line of text in it is in a chunk, with its piece or all parts of it, under
\* the headings it stands below and with pages around its own.
THEOREM EveryTextLineIsIndexed == Spec => []TextIsIndexed
<1> QED BY TextInvariant, PackedIsIndexed, PTL

\* Whatever the document: the tokens of a chunk are at most twice chunk_tokens
\* and chunk_overlap, and 5/4 for each of its pieces.
THEOREM ChunksStayBounded == Spec => []ChunksBounded
<1>1. TextInductive => ChunksBounded
  BY DEF TextInductive
<1> QED BY <1>1, TextInvariant, PTL

-----------------------------------------------------------------------------
(* Sorting by score *)

\* Positions of a sequence whose scores can be compared.
Scored(seq, kept) ==
    /\ kept \in SUBSET Nat /\ IsFiniteSet(kept)
    /\ \A i \in kept : Score(seq[i]) \in Nat

LEMMA BeforeOrders ==
    ASSUME NEW seq, NEW kept, Scored(seq, kept),
           NEW i \in kept, NEW j \in kept, NEW k \in kept
    PROVE /\ ~Before(seq, i, i)
          /\ Before(seq, i, j) /\ Before(seq, j, k) => Before(seq, i, k)
          /\ i = j \/ Before(seq, i, j) \/ Before(seq, j, i)
BY DEF Scored, Before

Ahead(seq, kept, i) == {j \in kept : Before(seq, j, i)}

LEMMA RankCounts ==
    ASSUME NEW seq, NEW kept, Scored(seq, kept), NEW i \in kept
    PROVE /\ IsFiniteSet(Ahead(seq, kept, i)) /\ Cardinality(Ahead(seq, kept, i)) \in Nat
          /\ Rank(seq, kept, i) = Cardinality(Ahead(seq, kept, i)) + 1
          /\ Rank(seq, kept, i) \in 1..Cardinality(kept)
<1> DEFINE A == Ahead(seq, kept, i)
<1>1. A \in SUBSET kept /\ i \notin A
  BY BeforeOrders DEF Ahead
<1>2. IsFiniteSet(kept)
  BY DEF Scored
<1>3. Rank(seq, kept, i) = Cardinality(A) + 1
  BY DEF Rank, Ahead
<1> HIDE DEF A
<1>4. IsFiniteSet(A) /\ Cardinality(A) \in Nat /\ Cardinality(kept) \in Nat
  BY <1>1, <1>2, FS_Subset, FS_CardinalityType
<1>5. A \cup {i} \in SUBSET kept /\ Cardinality(A \cup {i}) = Cardinality(A) + 1
  BY <1>1, <1>4, FS_AddElement
<1>6. Cardinality(A \cup {i}) <= Cardinality(kept)
  BY <1>2, <1>5, FS_Subset
<1>7. Rank(seq, kept, i) \in 1..Cardinality(kept)
  BY <1>3, <1>4, <1>5, <1>6
<1> QED BY <1>3, <1>4, <1>7 DEF A

LEMMA RankRises ==
    ASSUME NEW seq, NEW kept, Scored(seq, kept), NEW i \in kept, NEW j \in kept,
           Before(seq, i, j)
    PROVE Rank(seq, kept, i) < Rank(seq, kept, j)
<1> DEFINE A == Ahead(seq, kept, i)
           B == Ahead(seq, kept, j)
<1>1. A \subseteq B /\ i \in B /\ i \notin A
  BY BeforeOrders DEF Ahead
<1>2. /\ IsFiniteSet(A) /\ Cardinality(A) \in Nat /\ Rank(seq, kept, i) = Cardinality(A) + 1
      /\ IsFiniteSet(B) /\ Cardinality(B) \in Nat /\ Rank(seq, kept, j) = Cardinality(B) + 1
  BY RankCounts
<1> HIDE DEF A, B
<1>3. A \cup {i} \in SUBSET B /\ Cardinality(A \cup {i}) = Cardinality(A) + 1
  BY <1>1, <1>2, FS_AddElement
<1>4. Cardinality(A \cup {i}) <= Cardinality(B)
  BY <1>2, <1>3, FS_Subset
<1> QED BY <1>2, <1>3, <1>4

\* Every rank is taken once.
LEMMA RankIsTaken ==
    ASSUME NEW seq, NEW kept, Scored(seq, kept)
    PROVE /\ \A i, j \in kept : Rank(seq, kept, i) = Rank(seq, kept, j) => i = j
          /\ \A n \in 1..Cardinality(kept) : \E i \in kept : Rank(seq, kept, i) = n
<1> DEFINE N == Cardinality(kept)
           f == [i \in kept |-> Rank(seq, kept, i)]
<1>1. \A i, j \in kept : Rank(seq, kept, i) = Rank(seq, kept, j) => i = j
  <2> SUFFICES ASSUME NEW i \in kept, NEW j \in kept,
                      Rank(seq, kept, i) = Rank(seq, kept, j), i # j
               PROVE FALSE
    OBVIOUS
  <2>1. Rank(seq, kept, i) \in Nat
    BY RankCounts
  <2> QED BY <2>1, BeforeOrders, RankRises
<1>2. IsFiniteSet(kept) /\ N \in Nat
  BY FS_CardinalityType DEF Scored
<1>3. f \in [kept -> 1..N]
  BY RankCounts
<1>4. f \in Injection(kept, 1..N)
  BY <1>1, <1>3, Fun_IsInj
<1> HIDE DEF f, N
<1>5. IsFiniteSet(1..N) /\ Cardinality(1..N) = N
  BY <1>2, FS_Interval
<1>6. f \in Surjection(kept, 1..N)
  BY <1>2, <1>4, <1>5, FS_Injection DEF N
<1>7. \A n \in 1..N : \E i \in kept : f[i] = n
  BY <1>6, Fun_SurjectionProperties
<1> QED BY <1>1, <1>7 DEF f, N

\* p lists the kept positions of seq, and s what is there.
Lists(s, seq, kept, p) ==
    /\ p \in [1..Len(s) -> kept]
    /\ \A n \in 1..Len(s) : s[n] = seq[p[n]]
    /\ \A i \in kept : \E n \in 1..Len(s) : p[n] = i
    /\ \A m, n \in 1..Len(s) : m < n => Before(seq, p[m], p[n])

LEMMA SortedLists ==
    ASSUME NEW seq \in Seq(Nat), NEW kept \in SUBSET (1..Len(seq)), Scored(seq, kept)
    PROVE /\ Sorted(seq, kept) \in Seq(Nat)
          /\ \E p : Lists(Sorted(seq, kept), seq, kept, p)
<1> DEFINE N == Cardinality(kept)
           p == [n \in 1..N |-> CHOOSE i \in kept : Rank(seq, kept, i) = n]
           s == [n \in 1..N |-> seq[p[n]]]
<1>1. N \in Nat
  BY FS_CardinalityType DEF Scored
<1>2. Sorted(seq, kept) = s
  BY DEF Sorted
<1>3. \A n \in 1..N : p[n] \in kept /\ Rank(seq, kept, p[n]) = n
  BY RankIsTaken
<1> HIDE DEF N, p
<1>4. s \in Seq(Nat) /\ Len(s) = N /\ \A n \in 1..N : s[n] = seq[p[n]]
  <2>0. \A i \in kept : seq[i] \in Nat
    OBVIOUS
  <2>1. \A n \in 1..N : seq[p[n]] \in Nat
    BY <1>3, <2>0
  <2> QED BY <1>1, <2>1
<1>5. p \in [1..N -> kept]
  BY <1>3 DEF p
<1>6. ASSUME NEW i \in kept PROVE \E n \in 1..N : p[n] = i
  <2>1. Rank(seq, kept, i) \in 1..N
    BY RankCounts DEF N
  <2>2. PICK n \in 1..N : n = Rank(seq, kept, i)
    BY <2>1
  <2> QED BY <1>3, <2>2, RankIsTaken
<1>7. ASSUME NEW m \in 1..N, NEW n \in 1..N, m < n PROVE Before(seq, p[m], p[n])
  <2>1. p[m] \in kept /\ p[n] \in kept /\ Rank(seq, kept, p[m]) = m /\ Rank(seq, kept, p[n]) = n
    BY <1>3
  <2>2. PICK i \in kept, j \in kept : i = p[m] /\ j = p[n]
    BY <2>1
  <2>3. ~Before(seq, j, i) /\ i # j
    BY <1>1, <1>7, <2>1, <2>2, RankRises
  <2> QED BY <2>2, <2>3, BeforeOrders
<1> HIDE DEF s
<1>8. Lists(s, seq, kept, p)
  BY <1>4, <1>5, <1>6, <1>7 DEF Lists
<1> QED BY <1>2, <1>4, <1>8

\* Of some positions one is before all others.
LEMMA OneIsFirst ==
    ASSUME NEW seq, NEW kept, Scored(seq, kept), NEW x \in kept
    PROVE \E i \in kept : \A j \in kept : i = j \/ Before(seq, i, j)
<1>1. Rank(seq, kept, x) \in 1..Cardinality(kept) /\ Cardinality(kept) \in Nat
  BY RankCounts, FS_CardinalityType DEF Scored
<1>2. PICK i \in kept : Rank(seq, kept, i) = 1
  BY <1>1, RankIsTaken
<1>3. ASSUME NEW j \in kept, Before(seq, j, i) PROVE FALSE
  BY <1>2, <1>3, RankCounts, RankRises
<1> QED BY <1>3, BeforeOrders

-----------------------------------------------------------------------------
(* The scores *)

\* The common denominator is a multiple of that of every rank.
LEMMA DenominatorIsCommon ==
    /\ Denominator \in Nat
    /\ \A r \in 1..TrackLength : \E q \in Nat : Denominator = (RrfK + r) * q
<1> DEFINE N == TrackLength
           Body(f, n) == IF n = 0 THEN 1 ELSE f[n - 1] * (RrfK + n)
           product == CHOOSE f : f = [n \in 0..N |-> Body(f, n)]
           step == [n \in 1..N |-> [a \in Nat |-> a * (RrfK + n)]]
<1>1. N \in Nat
  BY RetrievalConstants DEF TrackLength
<1>2. Denominator = product[N]
  BY DEF Denominator
<1> HIDE DEF N
<1>3. step \in [1..N -> [Nat -> Nat]]
  BY <1>1 DEF RrfK
<1>4. PICK f : Follows(f, Nat, 1, step, N)
  <2> HIDE DEF step
  <2> QED BY <1>1, <1>3, RecursionUpTo
<1>5. \A n \in 1..N : f[n - 1] \in Nat /\ f[n] = f[n - 1] * (RrfK + n)
  <2> SUFFICES ASSUME NEW n \in 1..N
               PROVE f[n - 1] \in Nat /\ f[n] = f[n - 1] * (RrfK + n)
    OBVIOUS
  <2>1. n - 1 \in 0..N /\ n \in 0..N /\ n # 0
    BY <1>1
  <2>2. f[n - 1] \in Nat /\ f[n] = step[n][f[n - 1]]
    <3> HIDE DEF step
    <3> QED BY <1>4, <2>1 DEF Follows
  <2> QED BY <2>2
<1>6. f \in [0..N -> Nat] /\ f[0] = 1
  <2> HIDE DEF step
  <2>1. f \in [0..N -> Nat]
    BY <1>4 DEF Follows
  <2>2. 0 \in 0..N
    BY <1>1
  <2>3. f[0] = 1
    BY <1>4, <2>2 DEF Follows
  <2> QED BY <2>1, <2>3
<1> HIDE DEF step
<1>7. f = [n \in 0..N |-> Body(f, n)]
  <2>1. \A n \in 0..N : f[n] = Body(f, n)
    BY <1>1, <1>5, <1>6
  <2> QED BY <1>6, <2>1
<1>8. product = [n \in 0..N |-> Body(product, n)]
  BY <1>7
<1>9. product = f
  <2> DEFINE S == {n \in 0..N : product[n] = f[n]}
  <2>1. 0 \in S
    <3>1. 0 \in 0..N
      BY <1>1
    <3>2. product[0] = Body(product, 0)
      BY <1>8, <3>1
    <3> QED BY <1>6, <3>1, <3>2
  <2>2. ASSUME NEW n \in 0..N, n \in S, n < N PROVE n + 1 \in S
    <3>1. n + 1 \in 0..N /\ n + 1 # 0 /\ (n + 1) - 1 = n
      BY <1>1, <2>2
    <3>2. product[n + 1] = product[n] * (RrfK + (n + 1))
      BY <1>8, <3>1
    <3>3. f[n + 1] = f[n] * (RrfK + (n + 1))
      BY <1>7, <3>1
    <3> QED BY <2>2, <3>1, <3>2, <3>3
  <2>3. 0..N \subseteq S
    <3> HIDE DEF S
    <3> QED BY <1>1, <2>1, <2>2, BoundedInduction
  <2> QED BY <1>6, <1>8, <2>3
<1> HIDE DEF product
<1>10. ASSUME NEW r \in 1..N PROVE \E q \in Nat : f[N] = (RrfK + r) * q
  <2> DEFINE S == {n \in 0..N : n >= r => \E q \in Nat : f[n] = (RrfK + r) * q}
  <2>1. 0 \in S
    BY <1>1
  <2>2. ASSUME NEW n \in 0..N, n \in S, n < N PROVE n + 1 \in S
    <3>1. n + 1 \in 1..N /\ (n + 1) - 1 = n
      BY <1>1, <2>2
    <3>2. f[n] \in Nat /\ f[n + 1] = f[n] * (RrfK + (n + 1))
      BY <1>5, <3>1
    <3> SUFFICES ASSUME n + 1 >= r PROVE \E q \in Nat : f[n + 1] = (RrfK + r) * q
      BY <3>1
    <3>3. CASE n + 1 = r
      <4>1. f[n + 1] = (RrfK + r) * f[n]
        BY <3>2, <3>3 DEF RrfK
      <4> QED BY <3>2, <4>1
    <3>4. CASE n >= r
      <4>1. PICK q \in Nat : f[n] = (RrfK + r) * q
        BY <2>2, <3>4
      <4>2. f[n + 1] = (RrfK + r) * (q * (RrfK + (n + 1)))
        BY <3>2, <4>1 DEF RrfK
      <4>3. q * (RrfK + (n + 1)) \in Nat
        BY DEF RrfK
      <4> QED BY <4>2, <4>3
    <3> QED BY <1>1, <3>3, <3>4
  <2>3. 0..N \subseteq S
    <3> HIDE DEF S
    <3> QED BY <1>1, <2>1, <2>2, BoundedInduction
  <2>4. N \in 0..N /\ N >= r
    BY <1>1
  <2> QED BY <2>3, <2>4
<1>11. Denominator = f[N] /\ f[N] \in Nat
  BY <1>1, <1>2, <1>6, <1>9
<1> QED BY <1>10, <1>11 DEF N

LEMMA WeightIsExact ==
    ASSUME NEW r \in 1..TrackLength
    PROVE Weight(r) \in Nat /\ Denominator = (RrfK + r) * Weight(r)
<1>1. RrfK + r \in Nat \ {0}
  BY RetrievalConstants DEF TrackLength, RrfK
<1>2. PICK q \in Nat : Denominator = (RrfK + r) * q
  BY DenominatorIsCommon
<1> DEFINE m == RrfK + r
<1> HIDE DEF m
<1>3. (m * q) \div m = q
  BY <1>1 DEF m
<1> QED BY <1>2, <1>3 DEF Weight, m

\* Up to Reach citations the last rank has a tenth of the first one's weight.
LEMMA LastRankReaches ==
    ASSUME K <= Reach, NEW r \in 1..TrackLength
    PROVE 20 * Weight(r) >= 2 * Weight(1)
<1>1. r \in Nat /\ RrfK + r <= 610 /\ 1 \in 1..TrackLength
  BY RetrievalConstants DEF TrackLength, RrfK, Reach
<1>2. PICK q \in Nat : q = Weight(r) /\ Denominator = (RrfK + r) * q
  BY WeightIsExact
<1>3. PICK p \in Nat : p = Weight(1) /\ Denominator = (RrfK + 1) * p
  BY <1>1, WeightIsExact
<1>4. 61 * p = (60 + r) * q
  BY <1>2, <1>3 DEF RrfK
<1>5. PICK m \in Nat : m = 60 + r /\ m <= 610
  BY <1>1 DEF RrfK
<1>6. m * q <= 610 * q
  BY <1>5
<1>7. 61 * p <= 610 * q
  BY <1>4, <1>5, <1>6
<1>8. 20 * q >= 2 * p
  BY <1>7
<1> QED BY <1>2, <1>3, <1>8

LEMMA WeightInType ==
    ASSUME NEW track \in Seq(Nat), Len(track) <= TrackLength, NEW c
    PROVE /\ WeightIn(track, c) \in Nat
          /\ c \in ToSet(track) => \E r \in 1..TrackLength : WeightIn(track, c) = Weight(r)
<1>1. CASE c \in ToSet(track)
  <2> DEFINE r == CHOOSE i \in DOMAIN track : track[i] = c
  <2>1. r \in DOMAIN track
    BY <1>1 DEF ToSet
  <2>2. r \in 1..TrackLength
    <3>1. TrackLength \in Nat /\ Len(track) \in Nat /\ DOMAIN track = 1..Len(track)
      BY RetrievalConstants DEF TrackLength
    <3> HIDE DEF r
    <3> QED BY <2>1, <3>1
  <2>3. WeightIn(track, c) = Weight(r)
    BY <1>1 DEF WeightIn
  <2> HIDE DEF r
  <2> QED BY <2>2, <2>3, WeightIsExact
<1>2. CASE c \notin ToSet(track)
  BY <1>2 DEF WeightIn
<1> QED BY <1>1, <1>2

\* A ranking, as long as one may be.
Ranked(track) == track \in Seq(Nat) /\ Len(track) <= TrackLength

LEMMA ScoreIsNat ==
    ASSUME Ranked(trackA), Ranked(trackB), NEW c
    PROVE /\ Score(c) \in Nat
          /\ c \in ToSet(trackA) \cup ToSet(trackB) =>
                \E r \in 1..TrackLength : Score(c) >= Weight(r) /\ Weight(r) \in Nat
<1>1. PICK a \in Nat, b \in Nat : a = WeightIn(trackA, c) /\ b = WeightIn(trackB, c)
  BY WeightInType DEF Ranked
<1>2. Score(c) = a + b
  BY <1>1 DEF Score
<1>3. ASSUME c \in ToSet(trackA) \cup ToSet(trackB)
      PROVE \E r \in 1..TrackLength : Score(c) >= Weight(r) /\ Weight(r) \in Nat
  <2>1. PICK r \in 1..TrackLength : a = Weight(r) \/ b = Weight(r)
    BY <1>1, <1>3, WeightInType DEF Ranked
  <2> QED BY <1>2, <2>1, WeightIsExact
<1> QED BY <1>2, <1>3

LEMMA FirstIsPrefix ==
    ASSUME NEW s \in Seq(Nat), NEW n \in Nat
    PROVE /\ First(s, n) \in Seq(Nat)
          /\ Len(First(s, n)) = IF Len(s) < n THEN Len(s) ELSE n
          /\ Len(First(s, n)) <= Len(s)
          /\ \A i \in 1..Len(First(s, n)) : First(s, n)[i] = s[i]
<1> DEFINE m == IF Len(s) < n THEN Len(s) ELSE n
<1>1. m \in Nat /\ m <= Len(s)
  OBVIOUS
<1>2. First(s, n) = SubSeq(s, 1, m)
  BY DEF First
<1> HIDE DEF m
<1>3. \A i \in 1..m : s[i] \in Nat
  BY <1>1
<1>4. /\ SubSeq(s, 1, m) \in Seq(Nat)
      /\ Len(SubSeq(s, 1, m)) = m
      /\ \A i \in 1..m : SubSeq(s, 1, m)[i] = s[i]
  BY <1>1, <1>3
<1> QED BY <1>1, <1>2, <1>4 DEF m

-----------------------------------------------------------------------------
(* The answer *)

Found == ToSet(fused) \cap ToSet(candidates)

\* What the citations promise, but for the hit.
Cites(cited) ==
    /\ \A c \in Found : Score(cited[1]) >= Score(c)
    /\ \A i, j \in DOMAIN cited :
        /\ cited[i] \in Found
        /\ i < j => Key(cited[i]) # Key(cited[j])
        /\ i < j => Score(cited[i]) >= Score(cited[j])
    /\ \A c \in Found : Len(cited) = K \/ \E i \in DOMAIN cited :
        Key(cited[i]) = Key(c) /\ Score(cited[i]) >= Score(c)

HitIsExact(hit) == K <= Reach => (hit <=> Found # {})

\* From node to node: what was fused was on a track, what was loaded was fused.
RagInductive ==
    /\ live \subseteq Nat
    /\ Ranked(trackA) /\ Ranked(trackB)
    /\ fused \in Seq(Nat) /\ candidates \in Seq(Nat) /\ citations \in Seq(Nat)
    /\ node # "idle" => Indexed
    /\ node \in {"load", "dedupe", "decide", "done"} =>
        ToSet(fused) \subseteq ToSet(trackA) \cup ToSet(trackB)
    /\ node \in {"dedupe", "decide", "done"} => ToSet(candidates) \subseteq ToSet(fused)
    /\ node \in {"decide", "done"} => Cites(citations)
    /\ node = "done" => HitIsExact(hasHit)

LEMMA RagStarts == Init => RagInductive
<1> SUFFICES ASSUME Init PROVE RagInductive
  OBVIOUS
<1>1. <<>> \in Seq(Nat) /\ Len(<<>>) = 0 /\ 0 <= TrackLength
  BY RetrievalConstants DEF TrackLength
<1> QED BY <1>1 DEF Init, RagInductive, Ranked

\* Reading and packing are over once a question is asked.
LEMMA TextStops ==
    ASSUME TextInductive, Indexed
    PROVE ~TextNext
<1>1. cursor # Parsing /\ cursor.section \in Nat /\ Len(sections) \in Nat
      /\ cursor.section > Len(sections)
  BY DEF TextInductive, TextTypeOK, Indexed
<1>2. ~ReadsLine /\ ~Chunking
  BY <1>1 DEF ReadsLine, Chunking
<1>3. ~ReadBlank /\ ~ReadPageSplit /\ ~FinishOutline /\ ~CloseSection
  BY <1>1, <1>2 DEF ReadBlank, ReadPageSplit, FinishOutline, CloseSection
<1>4. ~PackPiece
  BY <1>2 DEF PackPiece
<1>5. \A n, ends : ~ReadText(n, ends) /\ ~ReadHeading(n)
  BY <1>2 DEF ReadText, ReadHeading
<1> QED BY <1>3, <1>4, <1>5 DEF TextNext

LEMMA AnswerUnchanged ==
    ASSUME UNCHANGED <<sections, chunks, trackA, trackB, fused, candidates>>
    PROVE \A c : Cites(c)' <=> Cites(c)
<1>1. \A c : Score(c)' = Score(c) /\ Key(c)' = Key(c)
  BY DEF Score, Key
<1>2. Found' = Found
  BY DEF Found
<1> QED BY <1>1, <1>2 DEF Cites

LEMMA RagUnchanged ==
    ASSUME RagInductive, UNCHANGED ragVars, UNCHANGED <<sections, chunks, cursor>>
    PROVE RagInductive'
<1>1. Indexed' <=> Indexed
  BY DEF Indexed
<1>2. Cites(citations)' <=> Cites(citations)
  BY DEF Cites, Found, Score, Key, ragVars
<1>3. HitIsExact(hasHit)' <=> HitIsExact(hasHit)
  BY DEF HitIsExact, Found, ragVars
<1> QED BY <1>1, <1>2, <1>3 DEF RagInductive, ragVars, Ranked

LEMMA RankingsAreRanked ==
    ASSUME live \subseteq Nat, NEW r \in Rankings
    PROVE Ranked(r)
<1>1. PICK n \in 0..TrackLength : r \in [1..n -> live]
  BY DEF Rankings
<1>2. TrackLength \in Nat
  BY RetrievalConstants DEF TrackLength
<1>3. r \in [1..n -> Nat] /\ n \in Nat
  <2>1. n \in Nat
    BY <1>2
  <2>2. \A i \in 1..n : r[i] \in Nat
    BY <1>1
  <2>3. r = [i \in 1..n |-> r[i]]
    BY <1>1
  <2> QED BY <2>1, <2>2, <2>3
<1>4. r \in Seq(Nat) /\ Len(r) = n
  BY <1>3
<1> QED BY <1>1, <1>2, <1>4 DEF Ranked

LEMMA KeptIsScored ==
    ASSUME Ranked(trackA), Ranked(trackB), NEW seq \in Seq(Nat),
           NEW kept \in SUBSET (1..Len(seq))
    PROVE Scored(seq, kept)
<1>1. Len(seq) \in Nat
  OBVIOUS
<1>2. IsFiniteSet(1..Len(seq))
  BY <1>1, FS_Interval
<1>3. IsFiniteSet(kept)
  BY <1>2, FS_Subset
<1> QED BY <1>1, <1>3, ScoreIsNat DEF Scored

\* Sorting adds nothing.
LEMMA SortedIsFrom ==
    ASSUME Ranked(trackA), Ranked(trackB), NEW seq \in Seq(Nat),
           NEW kept \in SUBSET (1..Len(seq))
    PROVE Sorted(seq, kept) \in Seq(Nat) /\ ToSet(Sorted(seq, kept)) \subseteq ToSet(seq)
<1>1. Scored(seq, kept)
  BY KeptIsScored
<1> DEFINE s == Sorted(seq, kept)
<1>2. s \in Seq(Nat) /\ \E p : Lists(s, seq, kept, p)
  BY <1>1, SortedLists
<1> HIDE DEF s
<1>3. PICK p : Lists(s, seq, kept, p)
  BY <1>2
<1>4. \A n \in 1..Len(s) : p[n] \in 1..Len(seq) /\ s[n] = seq[p[n]]
  BY <1>3 DEF Lists
<1>5. DOMAIN s = 1..Len(s) /\ DOMAIN seq = 1..Len(seq)
  BY <1>2
<1>6. ToSet(s) \subseteq ToSet(seq)
  BY <1>4, <1>5 DEF ToSet
<1> QED BY <1>2, <1>6 DEF s

LEMMA PrefixIsFrom ==
    ASSUME NEW s \in Seq(Nat), NEW n \in Nat
    PROVE ToSet(First(s, n)) \subseteq ToSet(s)
<1> DEFINE t == First(s, n)
<1>1. t \in Seq(Nat) /\ Len(t) <= Len(s) /\ \A i \in 1..Len(t) : t[i] = s[i]
  BY FirstIsPrefix
<1> HIDE DEF t
<1>2. DOMAIN t = 1..Len(t) /\ DOMAIN s = 1..Len(s) /\ Len(t) \in Nat /\ Len(s) \in Nat
  BY <1>1
<1>3. ToSet(t) \subseteq ToSet(s)
  BY <1>1, <1>2 DEF ToSet
<1> QED BY <1>3 DEF t

\* The last chunks of a place go; of every place the best one stays.
LEMMA DedupeCites ==
    ASSUME RagInductive, node = "dedupe", DedupeCitations
    PROVE citations' \in Seq(Nat) /\ Cites(citations')
<1> DEFINE N == Len(candidates)
           best == {i \in DOMAIN candidates :
                       \A j \in DOMAIN candidates :
                           Key(candidates[i]) = Key(candidates[j]) => KeepsBest(i, j)}
           s == Sorted(candidates, best)
           cited == First(s, K)
<1>1. /\ Ranked(trackA) /\ Ranked(trackB) /\ candidates \in Seq(Nat)
      /\ N \in Nat /\ DOMAIN candidates = 1..N /\ K \in Nat /\ K >= 1
      /\ Found = ToSet(candidates)
  BY RetrievalConstants DEF RagInductive, Found
<1>2. citations' = cited
  BY DEF DedupeCitations
<1>3. best \in SUBSET (1..N)
  BY <1>1
<1>4. \A i, j \in 1..N : i \in best /\ Key(candidates[i]) = Key(candidates[j]) => KeepsBest(i, j)
  BY <1>1
<1>5. \A i \in 1..N :
        (\A j \in 1..N : Key(candidates[i]) = Key(candidates[j]) => KeepsBest(i, j)) => i \in best
  BY <1>1
<1> HIDE DEF best
<1>6. Scored(candidates, best) /\ Scored(candidates, 1..N)
  BY <1>1, <1>3, KeptIsScored
<1>7. s \in Seq(Nat) /\ \E p : Lists(s, candidates, best, p)
  BY <1>1, <1>3, <1>6, SortedLists
<1> HIDE DEF s
<1>8. PICK p : Lists(s, candidates, best, p)
  BY <1>7
<1>9. /\ cited \in Seq(Nat) /\ Len(cited) = (IF Len(s) < K THEN Len(s) ELSE K)
      /\ Len(cited) <= Len(s) /\ \A i \in 1..Len(cited) : cited[i] = s[i]
  BY <1>1, <1>7, FirstIsPrefix
<1> HIDE DEF cited
<1>10. /\ Len(s) \in Nat /\ Len(cited) \in Nat /\ DOMAIN cited = 1..Len(cited)
  BY <1>7, <1>9
<1>11. \A n \in 1..Len(s) : p[n] \in best /\ p[n] \in 1..N /\ s[n] = candidates[p[n]]
  BY <1>3, <1>8 DEF Lists
<1>12. \A m, n \in 1..Len(s) : m < n => Before(candidates, p[m], p[n])
  BY <1>8 DEF Lists
<1>13. \A i \in 1..N : Score(candidates[i]) \in Nat
  BY <1>1, ScoreIsNat
\* The best of a chunk's place is listed.
<1>14. ASSUME NEW c \in Found
       PROVE \E n \in 1..Len(s) : Key(s[n]) = Key(c) /\ Score(s[n]) >= Score(c)
  <2>1. PICK k \in 1..N : candidates[k] = c
    BY <1>1 DEF ToSet
  <2> DEFINE place == {j \in 1..N : Key(candidates[j]) = Key(c)}
  <2>2. place \in SUBSET (1..N) /\ k \in place
    BY <2>1
  <2>3. \A j \in 1..N : j \in place <=> Key(candidates[j]) = Key(c)
    OBVIOUS
  <2> HIDE DEF place
  <2>4. Scored(candidates, place)
    BY <1>1, <2>2, KeptIsScored
  <2>5. PICK i \in place : \A j \in place : i = j \/ Before(candidates, i, j)
    BY <2>2, <2>4, OneIsFirst
  <2>6. i \in 1..N /\ Key(candidates[i]) = Key(c)
    BY <2>2, <2>3, <2>5
  <2>7. ASSUME NEW j \in place PROVE KeepsBest(i, j) /\ Score(candidates[i]) >= Score(candidates[j])
    <3>1. j \in 1..N /\ Score(candidates[i]) \in Nat /\ Score(candidates[j]) \in Nat
      BY <1>13, <2>2, <2>6
    <3> QED BY <2>5, <2>6, <3>1 DEF KeepsBest, Before
  <2>8. i \in best
    <3>1. \A j \in 1..N : Key(candidates[i]) = Key(candidates[j]) => j \in place
      BY <2>3, <2>6
    <3> QED BY <1>5, <2>6, <2>7, <3>1
  <2>9. PICK n \in 1..Len(s) : p[n] = i
    BY <1>8, <2>8 DEF Lists
  <2>10. s[n] = candidates[i]
    BY <1>11, <2>9
  <2> QED BY <2>1, <2>2, <2>6, <2>7, <2>10
<1>15. ASSUME NEW m \in 1..Len(s), NEW n \in 1..Len(s), m < n
       PROVE Score(s[m]) >= Score(s[n]) /\ Key(s[m]) # Key(s[n])
  <2>1. PICK i \in 1..N, j \in 1..N : i = p[m] /\ j = p[n]
    BY <1>11
  <2>2. i \in best /\ j \in best /\ s[m] = candidates[i] /\ s[n] = candidates[j]
    BY <1>11, <2>1
  <2>3. Before(candidates, i, j)
    BY <1>12, <1>15, <2>1
  <2>4. Score(candidates[i]) \in Nat /\ Score(candidates[j]) \in Nat
    BY <1>13
  <2>5. Score(candidates[i]) >= Score(candidates[j])
    BY <2>3, <2>4 DEF Before
  <2>6. ~KeepsBest(j, i)
    BY <2>3, <2>4 DEF Before, KeepsBest
  <2>7. Key(candidates[i]) # Key(candidates[j])
    BY <1>4, <2>2, <2>6
  <2> QED BY <2>2, <2>5, <2>7
<1>16. ASSUME NEW c \in Found PROVE Score(cited[1]) >= Score(c)
  <2>1. PICK n \in 1..Len(s) : Score(s[n]) >= Score(c)
    BY <1>14
  <2>2. 1 \in 1..Len(s) /\ cited[1] = s[1]
    BY <1>1, <1>9, <1>10
  <2>3. n = 1 \/ Score(s[1]) >= Score(s[n])
    BY <1>10, <1>15, <2>2
  <2>4. Score(s[1]) \in Nat /\ Score(s[n]) \in Nat /\ Score(c) \in Nat
    BY <1>1, ScoreIsNat
  <2> QED BY <2>1, <2>2, <2>3, <2>4
<1>17. ASSUME NEW i \in DOMAIN cited, NEW j \in DOMAIN cited
       PROVE /\ cited[i] \in Found
             /\ i < j => Key(cited[i]) # Key(cited[j])
             /\ i < j => Score(cited[i]) >= Score(cited[j])
  <2>1. i \in 1..Len(s) /\ j \in 1..Len(s) /\ cited[i] = s[i] /\ cited[j] = s[j]
    BY <1>9, <1>10
  <2>2. s[i] \in Found
    BY <1>1, <1>11, <2>1 DEF ToSet
  <2> QED BY <1>15, <2>1, <2>2
<1>18. ASSUME NEW c \in Found
       PROVE Len(cited) = K \/ \E i \in DOMAIN cited :
                Key(cited[i]) = Key(c) /\ Score(cited[i]) >= Score(c)
  <2>1. PICK n \in 1..Len(s) : Key(s[n]) = Key(c) /\ Score(s[n]) >= Score(c)
    BY <1>14
  <2>2. Len(cited) = K \/ (n \in DOMAIN cited /\ cited[n] = s[n])
    BY <1>1, <1>9, <1>10
  <2> QED BY <2>1, <2>2
<1> QED BY <1>2, <1>9, <1>16, <1>17, <1>18 DEF Cites

\* What is on a track reaches the threshold.
LEMMA HitFound ==
    ASSUME RagInductive, node = "decide", ShouldAnswer
    PROVE HitIsExact(hasHit')
<1> SUFFICES ASSUME K <= Reach PROVE hasHit' <=> Found # {}
  BY DEF HitIsExact
<1>1. /\ Ranked(trackA) /\ Ranked(trackB) /\ Cites(citations) /\ citations \in Seq(Nat)
      /\ Found \subseteq ToSet(trackA) \cup ToSet(trackB)
  BY DEF RagInductive, Found
<1>2. hasHit' <=> citations # <<>> /\ 20 * Score(citations[1]) >= ActiveTracks * Weight(1)
  BY DEF ShouldAnswer
<1>3. ASSUME citations = <<>> PROVE Found = {}
  <2>1. Len(citations) = 0 /\ DOMAIN citations = {} /\ K # 0
    BY <1>3, RetrievalConstants
  <2> QED BY <1>1, <2>1 DEF Cites
<1>4. ASSUME citations # <<>>
      PROVE citations[1] \in Found /\ 20 * Score(citations[1]) >= ActiveTracks * Weight(1)
  <2>1. 1 \in DOMAIN citations
    BY <1>1, <1>4
  <2>2. citations[1] \in Found
    BY <1>1, <2>1 DEF Cites
  <2>3. PICK r \in 1..TrackLength : Score(citations[1]) >= Weight(r) /\ Weight(r) \in Nat
    BY <1>1, <2>2, ScoreIsNat
  <2>4. 20 * Weight(r) >= 2 * Weight(1)
    BY LastRankReaches
  <2>5. Weight(1) \in Nat
    <3>1. 1 \in 1..TrackLength
      BY RetrievalConstants DEF TrackLength
    <3> QED BY <3>1, WeightIsExact
  <2>6. ActiveTracks \in 0..2
    <3> DEFINE T == {t \in {"A", "B"} : IF t = "A" THEN trackA # <<>> ELSE trackB # <<>>}
    <3>1. T \in SUBSET {"A", "B"} /\ ActiveTracks = Cardinality(T)
      BY DEF ActiveTracks
    <3> HIDE DEF T
    <3>2. IsFiniteSet({"A", "B"}) /\ Cardinality({"A", "B"}) = 2
      <4>1. IsFiniteSet({"A"}) /\ Cardinality({"A"}) = 1
        BY FS_Singleton
      <4>2. {"A", "B"} = {"A"} \cup {"B"} /\ "B" \notin {"A"}
        OBVIOUS
      <4> QED BY <4>1, <4>2, FS_AddElement
    <3>3. IsFiniteSet(T) /\ Cardinality(T) <= 2
      BY <3>1, <3>2, FS_Subset
    <3> QED BY <3>1, <3>3, FS_CardinalityType
  <2>7. PICK m \in Nat, w \in Nat, v \in Nat, x \in Nat :
          m = ActiveTracks /\ m <= 2 /\ w = Weight(1) /\ v = Weight(r) /\ x = Score(citations[1])
    <3>1. Score(citations[1]) \in Nat
      BY <1>1, ScoreIsNat
    <3>2. ActiveTracks \in Nat /\ ActiveTracks <= 2
      BY <2>6
    <3> QED BY <2>3, <2>5, <3>1, <3>2
  <2>8. m * w <= 2 * w
    BY <2>7
  <2>9. x >= v /\ 20 * v >= 2 * w
    BY <2>3, <2>4, <2>7
  <2>10. 20 * x >= m * w
    BY <2>8, <2>9
  <2> QED BY <2>2, <2>7, <2>10
<1> QED BY <1>2, <1>3, <1>4

LEMMA RagStep == TextInductive /\ RagInductive /\ [Next]_vars => RagInductive'
<1> SUFFICES ASSUME TextInductive, RagInductive, [Next]_vars PROVE RagInductive'
  OBVIOUS
<1>1. ASSUME TextNext, UNCHANGED ragVars PROVE RagInductive'
  <2>1. node = "idle"
    BY <1>1, TextStops DEF RagInductive
  <2> QED BY <1>1, <2>1 DEF RagInductive, ragVars, Ranked
<1>2. ASSUME Ask PROVE RagInductive'
  <2>1. Own \cup Other \subseteq Nat
    <3>1. Len(chunks) \in Nat
      BY DEF TextInductive, TextTypeOK
    <3>2. Own \subseteq Nat
      BY <3>1 DEF Own
    <3> QED BY <3>2, RetrievalConstants
  <2>2. Indexed' <=> Indexed
    BY <1>2 DEF Indexed, Ask, textVars
  <2> QED BY <1>2, <2>1, <2>2 DEF RagInductive, Ask, Ranked
<1>3. ASSUME RetrieveTrackA PROVE RagInductive'
  <2>1. Ranked(trackA')
    BY <1>3, RankingsAreRanked DEF RetrieveTrackA, RagInductive
  <2>2. Indexed' <=> Indexed
    BY <1>3 DEF Indexed, RetrieveTrackA, textVars
  <2> QED BY <1>3, <2>1, <2>2 DEF RagInductive, RetrieveTrackA, Ranked
<1>4. ASSUME RetrieveTrackB PROVE RagInductive'
  <2>1. Ranked(trackB')
    BY <1>4, RankingsAreRanked DEF RetrieveTrackB, RagInductive
  <2>2. Indexed' <=> Indexed
    BY <1>4 DEF Indexed, RetrieveTrackB, textVars
  <2> QED BY <1>4, <2>1, <2>2 DEF RagInductive, RetrieveTrackB, Ranked
<1>5. ASSUME RrfFusion PROVE RagInductive'
  <2> DEFINE both == trackA \o trackB
             met == {i \in DOMAIN both : \A j \in DOMAIN both : both[i] = both[j] => i <= j}
             s == Sorted(both, met)
  <2>1. Ranked(trackA) /\ Ranked(trackB) /\ trackA \in Seq(Nat) /\ trackB \in Seq(Nat)
    BY DEF RagInductive, Ranked
  <2>2. both \in Seq(Nat) /\ DOMAIN both = 1..Len(both)
    BY <2>1
  <2>3. met \in SUBSET (1..Len(both))
    BY <2>2
  <2>4. ToSet(both) \subseteq ToSet(trackA) \cup ToSet(trackB)
    <3>1. \A i \in DOMAIN both : \/ i \in DOMAIN trackA /\ both[i] = trackA[i]
                                 \/ i - Len(trackA) \in DOMAIN trackB
                                    /\ both[i] = trackB[i - Len(trackA)]
      BY <2>1
    <3> HIDE DEF both
    <3> QED BY <3>1 DEF ToSet
  <2>5. fused' = First(s, TrackLength) /\ TrackLength \in Nat
    BY <1>5, RetrievalConstants DEF RrfFusion, TrackLength
  <2> HIDE DEF both, met
  <2>6. s \in Seq(Nat) /\ ToSet(s) \subseteq ToSet(both)
    BY <2>1, <2>2, <2>3, SortedIsFrom
  <2> HIDE DEF s
  <2>7. fused' \in Seq(Nat) /\ ToSet(fused') \subseteq ToSet(s)
    BY <2>5, <2>6, FirstIsPrefix, PrefixIsFrom
  <2>8. ToSet(fused') \subseteq ToSet(trackA) \cup ToSet(trackB)
    BY <2>4, <2>6, <2>7
  <2>9. Indexed' <=> Indexed
    BY <1>5 DEF Indexed, RrfFusion, textVars
  <2> QED BY <1>5, <2>7, <2>8, <2>9 DEF RagInductive, RrfFusion, Ranked
<1>6. ASSUME NEW set, DeleteDocument(set) PROVE RagInductive'
  <2>1. Indexed' <=> Indexed
    BY <1>6 DEF Indexed, DeleteDocument, textVars
  <2> QED BY <1>6, <2>1 DEF RagInductive, DeleteDocument, Ranked
<1>7. ASSUME MaterializeCandidates PROVE RagInductive'
  <2> DEFINE there == {i \in DOMAIN fused : fused[i] \in live}
  <2>1. Ranked(trackA) /\ Ranked(trackB) /\ fused \in Seq(Nat) /\ DOMAIN fused = 1..Len(fused)
    BY DEF RagInductive
  <2>2. there \in SUBSET (1..Len(fused))
    BY <2>1
  <2>3. candidates' = Sorted(fused, there)
    BY <1>7 DEF MaterializeCandidates
  <2> HIDE DEF there
  <2>4. candidates' \in Seq(Nat) /\ ToSet(candidates') \subseteq ToSet(fused)
    BY <2>1, <2>2, <2>3, SortedIsFrom
  <2>5. Indexed' <=> Indexed
    BY <1>7 DEF Indexed, MaterializeCandidates, textVars
  <2> QED BY <1>7, <2>4, <2>5 DEF RagInductive, MaterializeCandidates, Ranked
<1>8. ASSUME DedupeCitations PROVE RagInductive'
  <2>1. citations' \in Seq(Nat) /\ Cites(citations')
    BY <1>8, DedupeCites DEF DedupeCitations
  <2>2. Cites(citations)'
    <3>1. PICK cited : cited = citations'
      OBVIOUS
    <3>2. Cites(cited) /\ (Cites(cited)' <=> Cites(cited))
      BY <1>8, <2>1, <3>1, AnswerUnchanged DEF DedupeCitations, textVars
    <3> QED BY <3>1, <3>2 DEF Cites
  <2>3. Indexed' <=> Indexed
    BY <1>8 DEF Indexed, DedupeCitations, textVars
  <2> QED BY <1>8, <2>1, <2>2, <2>3 DEF RagInductive, DedupeCitations, Ranked
<1>9. ASSUME ShouldAnswer PROVE RagInductive'
  <2>1. HitIsExact(hasHit')
    BY <1>9, HitFound DEF ShouldAnswer
  <2>2. UNCHANGED <<sections, chunks, trackA, trackB, fused, candidates, citations>>
    BY <1>9 DEF ShouldAnswer, textVars
  <2>3. HitIsExact(hasHit)'
    BY <2>1, <2>2 DEF HitIsExact, Found
  <2>4. Cites(citations)' <=> Cites(citations)
    BY <2>2 DEF Cites, Found, Score, Key
  <2>5. Indexed' <=> Indexed
    BY <1>9 DEF Indexed, ShouldAnswer, textVars
  <2> QED BY <1>9, <2>3, <2>4, <2>5 DEF RagInductive, ShouldAnswer, Ranked
<1>10. ASSUME UNCHANGED vars PROVE RagInductive'
  BY <1>10, RagUnchanged DEF vars, textVars
<1> QED BY <1>1, <1>2, <1>3, <1>4, <1>5, <1>6, <1>7, <1>8, <1>9, <1>10 DEF Next

\* The invariant of a question: from node to node everything comes from the one
\* before.
THEOREM RagInvariant == Spec => [](TextInductive /\ RagInductive)
<1>1. Init => TextInductive /\ RagInductive
  BY TextStarts, RagStarts DEF Init
<1>2. TextInductive /\ RagInductive /\ [Next]_vars => (TextInductive /\ RagInductive)'
  BY TextStep, RagStep
<1> QED BY <1>1, <1>2, PTL DEF Spec

\* Whatever was asked for, indexed, found and deleted on the way: what is cited
\* was found, the best of it first and no place twice, every place is cited by its
\* best chunk until the citations are full, and up to Reach citations a question
\* has a hit exactly when something found is still there.
THEOREM CitationsAreTheBest == Spec => []CitationsAreBest
<1>1. RagInductive => CitationsAreBest
  BY DEF RagInductive, CitationsAreBest, Cites, HitIsExact, Found
<1> QED BY <1>1, RagInvariant, PTL
==============================================================================
