------------------------------ MODULE ChunkText ------------------------------
(***************************************************************************)
(* runtime/transport.py, chunk_text: how an answer is cut into messages.   *)
(* The text is taken line by line; a line that does not fit starts a new   *)
(* chunk, one longer than a chunk is cut, and a code block that is open    *)
(* where a chunk ends is closed there and opened again in the next.        *)
(*                                                                         *)
(* A text is a sequence of lines, a line a sequence of symbols: a newline, *)
(* the two kinds of fence marker, and the characters there are besides.  A *)
(* marker counts as one character too: only that it is shorter than a      *)
(* chunk matters.  Texts are what sanitize_discord_text leaves.            *)
(***************************************************************************)
EXTENDS Texts

CONSTANTS
  Characters, \* what is said: everything but newlines and fence markers
  Lines,      \* the lines texts are made of
  MaxLines,   \* bound: lines of a text
  Limit,      \* longest chunk Discord accepts
  MaxChunks   \* bound: chunks made of one text

Newline == "newline"
Markers == {"ticks", "tildes"}
Symbols == Characters \cup {Newline} \cup Markers
NoFence == ""

ASSUME ChunkAssumption ==
  /\ Characters \cap ({Newline} \cup Markers) = {}
  /\ Lines \subseteq Seq(Symbols) \ {<<>>}
  /\ MaxLines \in Nat /\ MaxChunks \in Nat
  /\ Limit \in Nat \ {0}

VARIABLES
  text,     \* the lines of the text
  line,     \* the number of the line the loop is at, 0 before the call
  toAdd,    \* line_to_add
  current,
  fence,    \* open_fence
  chunks

chunkVars == <<text, line, toAdd, current, fence, chunks>>

\* Only the last line of a text may lack its newline.
Texts ==
  {t \in BoundedSeq(Lines, MaxLines) :
     t # <<>> /\ \A i \in 1..(Len(t) - 1) : Last(t[i]) = Newline}

ChunkInit ==
  /\ text = <<>> /\ line = 0
  /\ toAdd = <<>> /\ current = <<>> /\ fence = NoFence /\ chunks = <<>>

\* The call: chunk_text(t, Limit).
Chunk(t) ==
  /\ line = 0
  /\ text' = t /\ line' = 1 /\ toAdd' = t[1]
  /\ UNCHANGED <<current, fence, chunks>>

-----------------------------------------------------------------------------
\* A closing fence, which also reopens the block in the next chunk.
Closing == IF fence = NoFence THEN <<>> ELSE <<fence, Newline>>

Ends(s, t) == IsSuffix(t, s)

Closed == fence # NoFence => Ends(current, Closing)

\* Whether nothing is left of the line, or the loop takes it to fit.  In a code
\* block that needs its closing fence a line that overflows is measured as that
\* fence instead.
Fits ==
  \/ toAdd = <<>>
  \/ Len(current \o toAdd) <= Limit
  \/ ~Closed /\ Len(current \o Closing) <= Limit

\* The fence a line opens or closes.
FenceAfter(l) ==
  IF l[1] \notin Markers THEN fence
  ELSE IF fence = l[1] THEN NoFence
  ELSE IF fence = NoFence THEN l[1]
  ELSE fence

InLine == line \in 1..Len(text)

\* A line that fits is added; its fence counts from the next line on.
AddLine ==
  /\ InLine /\ Fits
  /\ current' = current \o toAdd
  /\ fence' = FenceAfter(text[line])
  /\ line' = line + 1
  /\ toAdd' = IF line < Len(text) THEN text[line + 1] ELSE <<>>
  /\ UNCHANGED <<text, chunks>>

\* A mutant: one symbol more than fits.
CutTooLong == Limit + 1

\* How much of a line that is too long for a chunk of its own goes in.
Cut == IF Limit > Len(Closing) THEN Limit - Len(Closing) ELSE 1

\* A mutant: the piece of a long line goes out before the chunk it comes after.
CutChunkFirst ==
  LET body == SubSeq(toAdd, 1, Cut) IN
  /\ InLine /\ ~Fits /\ Len(chunks) < MaxChunks
  /\ toAdd' = SubSeq(toAdd, Cut + 1, Len(toAdd))
  /\ chunks' = Append(chunks, IF Ends(body, Closing) THEN body ELSE body \o Closing)
  /\ UNCHANGED <<text, line, fence, current>>

\* Otherwise the chunk is ended; an empty one first takes what it can of the
\* line.  Nothing makes the line shorter when the chunk holds anything, were
\* it only the fence that reopened the block.
CutChunk ==
  LET whole == current = <<>>
      body == IF whole THEN SubSeq(toAdd, 1, Cut) ELSE current IN
  /\ InLine /\ ~Fits /\ Len(chunks) < MaxChunks
  /\ toAdd' = IF whole THEN SubSeq(toAdd, Cut + 1, Len(toAdd)) ELSE toAdd
  /\ chunks' = Append(chunks, IF Ends(body, Closing) THEN body ELSE body \o Closing)
  /\ current' = Closing
  /\ UNCHANGED <<text, line, fence>>

Blank(s) == \A i \in DOMAIN s : s[i] = Newline

\* The end: the last chunk is closed, and chunks of blank lines are dropped.
LastChunk ==
  LET all == Append(chunks, IF Closed THEN current ELSE current \o Closing) IN
  /\ line > Len(text) /\ line # 0 /\ current # <<>>
  /\ chunks' = Keep(all, {c \in ToSet(all) : ~Blank(c)})
  /\ current' = <<>>
  /\ UNCHANGED <<text, line, toAdd, fence>>

ChunkNext == (\E t \in Texts : Chunk(t)) \/ AddLine \/ CutChunk \/ LastChunk

ChunkSpec == ChunkInit /\ [][ChunkNext]_chunkVars

-----------------------------------------------------------------------------
ChunkTypeOK ==
  /\ text \in Seq(Lines) /\ line \in 0..(Len(text) + 1)
  /\ toAdd \in Seq(Symbols) /\ current \in Seq(Symbols)
  /\ fence \in Markers \cup {NoFence}
  /\ chunks \in Seq(Seq(Symbols)) /\ Len(chunks) <= MaxChunks + 1

Letters(s) == Keep(s, Characters)
Unread == IF InLine THEN toAdd \o FlattenSeq(SubSeq(text, line + 1, Len(text))) ELSE <<>>
Plain == \A i \in DOMAIN text : text[i][1] \notin Markers

\* What has been made of the text so far, and what is left of it behind that.
Made == FlattenSeq(chunks) \o current \o Unread
Finished == line > Len(text) /\ current = <<>>

\* What must be there: everything, until at the end the chunks that are only
\* newlines are dropped.
There(s) == Keep(s, IF Finished THEN Symbols \ {Newline} ELSE Symbols)

\* transport.py:37-59: however lines are cut, the characters of the text are
\* there, each once and in their order, and no others.  What closes and reopens a
\* code block is put in: the text is still found there, newlines and fences of
\* its own included, and without code blocks nothing else is.
NothingCutOut ==
  line # 0 =>
    /\ Letters(Made) = Letters(FlattenSeq(text))
    /\ Within(There(FlattenSeq(text)), There(Made))
    /\ Plain /\ ~Finished => Made = FlattenSeq(text)

\* docs/architecture.md:232: "Discord 2000자 제한 대응 chunking".  No chunk is
\* longer than Discord takes.
ChunksFit == \A i \in DOMAIN chunks : Len(chunks[i]) <= Limit

\* transport.py:37-48: that holds of texts without code blocks, and their
\* cutting ends: each chunk takes part of the text.
PlainFits ==
  Plain => ChunksFit /\ Len(chunks) <= Len(FlattenSeq(text))
=============================================================================
