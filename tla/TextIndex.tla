----------------------------- MODULE TextIndex ------------------------------
(***************************************************************************)
(* From the OCR's markdown to chunks.  parse_outline reads line by line    *)
(* and closes a section at every heading; chunk_outline then cuts each     *)
(* section into pieces, paragraphs or their sentences, and packs them into *)
(* chunks that overlap.  A line is a run of text up to the end of a        *)
(* sentence or of the line, known by its number; of its characters only    *)
(* their count is kept, by kind.  Indentation is left out.                 *)
(***************************************************************************)
EXTENDS Naturals, Sequences

CONSTANTS
    Texts,      \* what a line may count: words, other characters, all characters
    Levels,     \* heading levels
    MaxLines,   \* bound: lines of a document
    Limit,      \* chunk_tokens
    Overlap,    \* chunk_overlap
    Whole       \* tokens up to which a paragraph stays whole

\* A word or a Chinese character is a token, the other characters four to one.
Counts == [words: Nat, other: Nat, chars: Nat]

ASSUME TextConstants ==
    /\ Texts \subseteq Counts /\ \A t \in Texts : t.chars > 0
    /\ Levels \subseteq Nat \ {0} /\ MaxLines \in Nat
    /\ Limit \in Nat \ {0} /\ Overlap \in Nat /\ Whole \in Nat

VARIABLES
    lineNo,     \* lines read
    page,       \* page_no
    open,       \* the section being read: its path, first page, lines, and
                \* whether the next line starts a paragraph
    stack,      \* path_stack with level_stack
    sections,   \* the sections flushed
    cursor,     \* chunking: the section and the next of its lines
    current,    \* pieces of the chunk being packed
    tokens,     \* current_tokens
    chunks,     \* the chunks built: their section and pieces
    text        \* history: every line of text with its page and headings

textVars == <<lineNo, page, open, stack, sections, cursor, current, tokens, chunks, text>>

Untitled == <<0>>
Parsing == [section |-> 0, line |-> 0]
Opened(path, start) == [path |-> path, start |-> start, lines |-> <<>>, gap |-> TRUE]

TextInit ==
    /\ lineNo = 0 /\ page = 1
    /\ open = Opened(Untitled, 1)
    /\ stack = <<>> /\ sections = <<>>
    /\ cursor = Parsing
    /\ current = <<>> /\ tokens = 0 /\ chunks = <<>>
    /\ text = {}

-----------------------------------------------------------------------------
NewSection == [path |-> open.path, start |-> open.start, end |-> page, lines |-> open.lines]

\* Mutation: text before the first heading is no section.
FlushedTitled ==
    IF open.lines = <<>> \/ open.path = Untitled
    THEN sections
    ELSE Append(sections, NewSection)

\* flush: an empty section is dropped, but for the untitled one.
Flushed ==
    IF open.lines = <<>> /\ open.path # Untitled
    THEN sections
    ELSE Append(sections, NewSection)

ReadsLine == cursor = Parsing /\ lineNo < MaxLines /\ lineNo' = lineNo + 1

\* A line of text, which may end a sentence.
ReadText(count, ends) ==
    /\ ReadsLine
    /\ open' = [open EXCEPT !.gap = FALSE,
                            !.lines = Append(@, [line |-> lineNo', first |-> open.gap,
                                                 ends |-> ends, count |-> count])]
    /\ text' = text \cup {[line |-> lineNo', page |-> page, path |-> open.path]}
    /\ UNCHANGED <<page, stack, sections, cursor, current, tokens, chunks>>

\* A blank line ends the paragraph; a page split does not.
ReadBlank ==
    /\ ReadsLine
    /\ open' = [open EXCEPT !.gap = TRUE]
    /\ UNCHANGED <<page, stack, sections, cursor, current, tokens, chunks, text>>

ReadPageSplit ==
    /\ ReadsLine
    /\ page' = page + 1
    /\ UNCHANGED <<open, stack, sections, cursor, current, tokens, chunks, text>>

\* Headings of the same or a deeper level leave the top of the stack.
Above(level) == SubSeq(stack, 1, CHOOSE n \in 0..Len(stack) :
    /\ n = 0 \/ stack[n].level < level
    /\ \A m \in n + 1..Len(stack) : stack[m].level >= level)

ReadHeading(level) ==
    /\ ReadsLine
    /\ sections' = Flushed
    /\ stack' = Append(Above(level), [title |-> lineNo', level |-> level])
    /\ open' = Opened([i \in 1..Len(stack') |-> stack'[i].title], page)
    /\ UNCHANGED <<page, cursor, current, tokens, chunks, text>>

FinishOutline ==
    /\ cursor = Parsing
    /\ sections' = Flushed
    /\ cursor' = [section |-> 1, line |-> 1]
    /\ UNCHANGED <<lineNo, page, open, stack, current, tokens, chunks, text>>

-----------------------------------------------------------------------------
Total(numbers) ==
    LET sum[n \in 0..Len(numbers)] == IF n = 0 THEN 0 ELSE sum[n - 1] + numbers[n]
    IN sum[Len(numbers)]

\* What lines or pieces count when joined by so many characters.
Joined(items, gap) ==
    LET gaps == IF items = <<>> THEN 0 ELSE gap * (Len(items) - 1) IN
    [words |-> Total([i \in 1..Len(items) |-> items[i].count.words]),
     other |-> gaps + Total([i \in 1..Len(items) |-> items[i].count.other]),
     chars |-> gaps + Total([i \in 1..Len(items) |-> items[i].count.chars])]

\* count_tokens
CountTokens(count) == count.words + count.other \div 4

Section == sections[cursor.section]
Lines == Section.lines
Chunking == cursor # Parsing /\ cursor.section <= Len(sections)

-----------------------------------------------------------------------------
ParagraphEnds == {i \in 1..Len(Lines) : i = Len(Lines) \/ Lines[i + 1].first}
SentenceEnds == ParagraphEnds \cup {i \in 1..Len(Lines) : Lines[i].ends}

\* The first of ends from line k on, and the paragraph around line k.
EndFrom(ends, k) == CHOOSE e \in ends : k <= e /\ \A i \in ends : k <= i => e <= i
StartOf(k) == CHOOSE b \in 1..k : Lines[b].first /\ \A i \in b + 1..k : ~Lines[i].first
Paragraph(k) == SubSeq(Lines, StartOf(k), EndFrom(ParagraphEnds, k))

\* _semantic_pieces: a long paragraph is cut into its sentences.
LastLine ==
    EndFrom(IF CountTokens(Joined(Paragraph(cursor.line), 1)) <= Whole
            THEN ParagraphEnds ELSE SentenceEnds, cursor.line)

\* A piece is known by the numbers of its lines; it is one part of one until
\* _hard_split cuts it.
NextPiece ==
    LET lines == SubSeq(Lines, cursor.line, LastLine) IN
    [lines |-> {lines[i].line : i \in 1..Len(lines)}, part |-> 1, of |-> 1,
     count |-> Joined(lines, 1)]

-----------------------------------------------------------------------------
\* The tokens of the pieces, each counted by itself.
OwnTokens(pieces) == Total([i \in 1..Len(pieces) |-> CountTokens(pieces[i].count)])

LastPieces(pieces, n) == SubSeq(pieces, Len(pieces) - n + 1, Len(pieces))

\* Mutation: everything is carried over.
WholeTail(pieces) == pieces

\* _tail_overlap: the fewest last pieces that reach the overlap, or all.
TailOverlap(pieces) ==
    IF Overlap = 0 THEN <<>>
    ELSE LastPieces(pieces, CHOOSE n \in 0..Len(pieces) :
                /\ n = Len(pieces) \/ OwnTokens(LastPieces(pieces, n)) >= Overlap
                /\ \A m \in 0..(n - 1) : OwnTokens(LastPieces(pieces, m)) < Overlap)

Chunk(pieces) == [section |-> cursor.section, pieces |-> pieces]
NonEmpty(pieces) == IF pieces = <<>> THEN <<>> ELSE <<Chunk(pieces)>>

\* The tokens of a chunk: its pieces are joined by blank lines.
TokensOf(pieces) == CountTokens(Joined(pieces, 2))

\* _hard_split: parts of at most Limit characters, each counted as a word.
HardParts(p) ==
    LET chars == p.count.chars
        parts == (chars + Limit - 1) \div Limit
        size(i) == IF i * Limit <= chars THEN Limit ELSE chars % Limit
    IN
    [i \in 1..parts |->
        Chunk(<<[lines |-> p.lines, part |-> i, of |-> parts,
                 count |-> [words |-> size(i), other |-> 0, chars |-> size(i)]]>>)]

TooLarge(p) == CountTokens(p.count) > Limit

\* One turn of _chunk_section's loop.  A full chunk is built and its tail kept;
\* a piece too large for any chunk is split after the tail was built as a chunk
\* of its own.
PackPiece ==
    LET p == NextPiece
        full == current # <<>> /\ tokens + CountTokens(p.count) > Limit
        kept == IF full THEN TailOverlap(current) ELSE current
        built == IF full THEN Append(chunks, Chunk(current)) ELSE chunks
    IN
    /\ Chunking /\ cursor.line <= Len(Lines)
    /\ cursor' = [cursor EXCEPT !.line = LastLine + 1]
    /\ IF TooLarge(p)
       THEN /\ chunks' = built \o NonEmpty(kept) \o HardParts(p)
            /\ current' = <<>> /\ tokens' = 0
       ELSE /\ chunks' = built
            /\ current' = Append(kept, p)
            /\ tokens' = CountTokens(p.count) + IF full THEN TokensOf(kept) ELSE tokens
    /\ UNCHANGED <<lineNo, page, open, stack, sections, text>>

\* The section's last chunk; the next section starts without a tail.
CloseSection ==
    /\ Chunking /\ cursor.line > Len(Lines)
    /\ chunks' = chunks \o NonEmpty(current)
    /\ current' = <<>> /\ tokens' = 0
    /\ cursor' = [section |-> cursor.section + 1, line |-> 1]
    /\ UNCHANGED <<lineNo, page, open, stack, sections, text>>

Indexed == cursor # Parsing /\ cursor.section > Len(sections)

TextNext ==
    \/ \E t \in Texts, ends \in BOOLEAN : ReadText(t, ends)
    \/ ReadBlank
    \/ ReadPageSplit
    \/ \E l \in Levels : ReadHeading(l)
    \/ FinishOutline
    \/ PackPiece
    \/ CloseSection

-----------------------------------------------------------------------------
\* A chunk under the headings of line t, with pages around its page, that holds
\* this part of the piece made of these lines.
Holds(chunk, t, lines, part, of) ==
    LET s == sections[chunk.section] IN
    /\ s.path = t.path
    /\ s.start <= t.page /\ t.page <= s.end
    /\ \E k \in 1..Len(chunk.pieces) :
        LET q == chunk.pieces[k] IN q.lines = lines /\ q.part = part /\ q.of = of

\* A question can find every line of text below a heading or above the first:
\* the piece it belongs to is in chunks, whole or in all its parts, under the
\* headings it stands below and with pages that include its own.  Headings are
\* no text, numbered clauses included (outline_parser.py:10, :148): a heading
\* is in the path of the chunks below it, and in no chunk when its section is
\* empty (outline_parser.py:70).
TextIsIndexed ==
    Indexed => \A t \in text :
        \E c \in 1..Len(chunks) : \E k \in 1..Len(chunks[c].pieces) :
            LET p == chunks[c].pieces[k] IN
            /\ t.line \in p.lines
            /\ \A part \in 1..p.of :
                \E d \in 1..Len(chunks) : Holds(chunks[d], t, p.lines, part, p.of)

\* A chunk's pieces count at most a tail, less than the overlap and one piece
\* more, and one piece, counted one by one; joined they count more only by the
\* rounding of each piece and the blank lines between: at most 5/4 for a piece.
\* Pieces that count nothing by themselves fill no chunk (chunker.py:84).
ChunksBounded ==
    \A i \in 1..Len(chunks) :
        4 * TokensOf(chunks[i].pieces)
            <= 4 * (2 * Limit + Overlap) + 5 * Len(chunks[i].pieces)
=============================================================================
