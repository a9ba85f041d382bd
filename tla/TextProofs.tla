----------------------------- MODULE TextProofs -----------------------------
(***************************************************************************)
(* The two algorithms that take texts apart and must not lose any of it,   *)
(* for every text and every limit: chunk_text, which cuts an answer into   *)
(* messages (ChunkText), and the reader of a CLI's output, which cuts it   *)
(* into records (JsonStream).                                              *)
(***************************************************************************)
EXTENDS ChunkText, JsonStream, SequenceLemmas, FiniteSetTheorems

-----------------------------------------------------------------------------
(***************************************************************************)
(* ChunkText: types, and what the operators return.                        *)
(***************************************************************************)

SymbolText == Seq(Symbols)

\* The lines not yet taken, after the one the loop is at.
LinesLeft == FlattenSeq(SubSeq(text, line + 1, Len(text)))

ChunkTyped ==
  /\ text \in Seq(SymbolText) /\ text \in Seq(Lines)
  /\ line \in 0..(Len(text) + 1)
  /\ toAdd \in SymbolText /\ current \in SymbolText
  /\ fence \in Markers \cup {NoFence}
  /\ chunks \in Seq(SymbolText)
  /\ line = 0 => text = <<>> /\ current = <<>> /\ chunks = <<>> /\ fence = NoFence
  /\ Len(chunks) <= MaxChunks \/ (line > Len(text) /\ current = <<>> /\ Len(chunks) <= MaxChunks + 1)

\* A text to be cut is a sequence of lines, and has one.
LEMMA TextsAre ==
  ASSUME NEW t \in Texts
  PROVE  /\ t \in Seq(SymbolText) /\ t \in Seq(Lines)
         /\ Len(t) \in Nat \ {0} /\ t[1] \in SymbolText
<1>1. MaxLines \in Nat /\ Lines \subseteq SymbolText
  BY ChunkAssumption DEF SymbolText
<1>2. PICK n \in 0..MaxLines : t \in [1..n -> Lines]
  BY DEF Texts, BoundedSeq, SeqOf
<1>3. t # <<>>
  BY DEF Texts
<1>4. t \in Seq(Lines)
  BY <1>1, <1>2
<1>5. t \in Seq(SymbolText)
  BY <1>1, <1>4, SeqMonotonic
<1>6. Len(t) \in Nat \ {0}
  BY <1>3, <1>4, EmptySeq
<1> QED
  BY <1>4, <1>5, <1>6, ElementOfSeq

\* The closing fence has nothing of what was said.
LEMMA ClosingIs ==
  ASSUME fence \in Markers \cup {NoFence}
  PROVE  /\ Closing \in SymbolText /\ Letters(Closing) = <<>> /\ Len(Closing) \in {0, 2}
         /\ fence = NoFence => Closing = <<>>
<1>1. CASE fence = NoFence
  BY <1>1, KeepEmpty DEF Closing, Letters, SymbolText
<1>2. CASE fence # NoFence
  <2>1. Closing = <<fence, Newline>>
    BY <1>2 DEF Closing
  <2> DEFINE two == <<fence, Newline>>
  <2>2. fence \in Markers /\ fence \in Symbols /\ Newline \in Symbols
    BY <1>2 DEF Symbols
  <2>3. two \in Seq(Symbols) /\ Len(two) = 2 /\ two[1] = fence /\ two[2] = Newline
    BY <2>2
  <2>4. fence \notin Characters /\ Newline \notin Characters
    BY <2>2, ChunkAssumption
  <2>5. \A i \in 1..2 : two[i] \notin Characters
    BY <2>3, <2>4
  <2> HIDE DEF two
  <2>6. Keep(two, Characters) = <<>>
    BY <2>3, <2>5, KeepNone
  <2> QED BY <1>2, <2>1, <2>3, <2>6 DEF two, Letters, SymbolText
<1> QED
  BY <1>1, <1>2

LEMMA TextConcat ==
  ASSUME NEW s \in SymbolText, NEW t \in SymbolText
  PROVE  s \o t \in SymbolText
BY ConcatProperties DEF SymbolText

LEMMA LettersType ==
  ASSUME NEW s \in SymbolText
  PROVE  Letters(s) \in SymbolText
BY KeepType DEF Letters, SymbolText

\* What is said in two texts is said in each; for two texts to be named.
SaysBoth(s, t) ==
  /\ Letters(s \o t) = Letters(s) \o Letters(t) /\ s \o t \in SymbolText
  /\ Letters(s) \in SymbolText /\ Letters(t) \in SymbolText

LEMMA LettersConcat ==
  ASSUME NEW s \in SymbolText, NEW t \in SymbolText
  PROVE  SaysBoth(s, t)
<1>1. s \in Seq(Symbols) /\ t \in Seq(Symbols)
  BY DEF SymbolText
<1>2. s \o t \in Seq(Symbols)
  BY <1>1, ConcatProperties
<1>3. Keep(s \o t, Characters) = Keep(s, Characters) \o Keep(t, Characters)
  BY <1>1, KeepConcat
<1>4. Keep(s, Characters) \in Seq(Symbols) /\ Keep(t, Characters) \in Seq(Symbols)
  BY <1>1, KeepType
<1> QED
  BY <1>2, <1>3, <1>4 DEF SaysBoth, Letters, SymbolText

\* A line that does not fit in an empty chunk is longer than the piece that is
\* cut from it.
LEMMA CutIs ==
  ASSUME ChunkTyped, ~Fits
  PROVE  /\ toAdd # <<>> /\ Cut \in 1..Limit
         /\ Len(current) + Len(toAdd) > Limit
         /\ current = <<>> => Cut \in 0..Len(toAdd)
<1>1. Limit \in Nat \ {0} /\ Len(Closing) \in {0, 2}
  BY ChunkAssumption, ClosingIs DEF ChunkTyped
<1>2. Cut \in 1..Limit
  BY <1>1 DEF Cut
<1>3. Len(current \o toAdd) = Len(current) + Len(toAdd) /\ Len(current) \in Nat /\ Len(toAdd) \in Nat
  BY ConcatProperties, LenProperties DEF ChunkTyped, SymbolText
<1>4. toAdd # <<>> /\ ~(Len(current \o toAdd) <= Limit)
  BY DEF Fits
<1>5. Len(current) + Len(toAdd) > Limit
  BY <1>1, <1>3, <1>4
<1>6. current = <<>> => Len(current) = 0
  BY EmptySeq
<1> QED
  BY <1>1, <1>2, <1>3, <1>4, <1>5, <1>6

\* What CutChunk takes from the line, and what it leaves of it.
CutBody == IF current = <<>> THEN SubSeq(toAdd, 1, Cut) ELSE current
CutRest == IF current = <<>> THEN SubSeq(toAdd, Cut + 1, Len(toAdd)) ELSE toAdd
CutPiece == IF Ends(CutBody, Closing) THEN CutBody ELSE CutBody \o Closing

LEMMA CutBodyIs ==
  ASSUME ChunkTyped, ~Fits
  PROVE  /\ CutBody \in SymbolText /\ CutRest \in SymbolText /\ CutPiece \in SymbolText
         /\ CutBody # <<>> /\ current \o toAdd = CutBody \o CutRest
         /\ CutPiece \in {CutBody, CutBody \o Closing}
         /\ Len(CutBody) = IF current = <<>> THEN Cut ELSE Len(current)
<1>1. /\ CutBody \in SymbolText /\ CutRest \in SymbolText
      /\ CutBody # <<>> /\ current \o toAdd = CutBody \o CutRest
      /\ Len(CutBody) = IF current = <<>> THEN Cut ELSE Len(current)
  <2>1. CASE current # <<>>
    BY <2>1 DEF CutBody, CutRest, ChunkTyped
  <2>2. CASE current = <<>>
    <3>1. Cut \in 0..Len(toAdd) /\ Cut \in 1..Limit /\ toAdd \in Seq(Symbols)
      BY <2>2, CutIs DEF ChunkTyped, SymbolText
    <3>2. /\ toAdd = SubSeq(toAdd, 1, Cut) \o SubSeq(toAdd, Cut + 1, Len(toAdd))
          /\ SubSeq(toAdd, 1, Cut) \in Seq(Symbols) /\ SubSeq(toAdd, Cut + 1, Len(toAdd)) \in Seq(Symbols)
          /\ Len(SubSeq(toAdd, 1, Cut)) = Cut
      BY <3>1, Split
    <3>3. <<>> \o toAdd = toAdd
      BY <3>1, ConcatEmptySeq
    <3>4. CutBody = SubSeq(toAdd, 1, Cut) /\ CutRest = SubSeq(toAdd, Cut + 1, Len(toAdd))
      BY <2>2 DEF CutBody, CutRest
    <3>5. CutBody # <<>>
      <4>1. Len(CutBody) # 0
        BY <3>1, <3>2, <3>4, ChunkAssumption
      <4> QED BY <4>1, EmptySeq
    <3> QED BY <2>2, <3>2, <3>3, <3>4, <3>5 DEF SymbolText
  <2> QED BY <2>1, <2>2
<1>2. Closing \in SymbolText
  BY ClosingIs DEF ChunkTyped
<1> QED
  BY <1>1, <1>2, TextConcat DEF CutPiece

LEMMA CutChunkDoes ==
  ASSUME CutChunk
  PROVE  /\ InLine /\ ~Fits /\ Len(chunks) < MaxChunks
         /\ toAdd' = CutRest /\ chunks' = Append(chunks, CutPiece) /\ current' = Closing
         /\ UNCHANGED <<text, line, fence>>
BY DEF CutChunk, CutRest, CutBody, CutPiece

LEMMA ChunkTypedInit ==
  ChunkInit => ChunkTyped
<1>1. MaxChunks \in Nat /\ <<>> \in Seq(SymbolText) /\ <<>> \in Seq(Lines) /\ <<>> \in SymbolText
  BY ChunkAssumption, EmptySeq DEF SymbolText
<1> QED
  BY <1>1 DEF ChunkInit, ChunkTyped

\* The step's new state is well typed.
LEMMA ChunkTypedStep ==
  ASSUME ChunkTyped, [ChunkNext]_chunkVars
  PROVE  ChunkTyped'
<1> USE DEF ChunkTyped
<1>1. ASSUME NEW t \in Texts, Chunk(t) PROVE ChunkTyped'
  <2>1. /\ t \in Seq(SymbolText) /\ t \in Seq(Lines)
        /\ Len(t) \in Nat \ {0} /\ t[1] \in SymbolText
    BY TextsAre
  <2>2. text' = t /\ line' = 1 /\ toAdd' = t[1] /\ line = 0 /\ UNCHANGED <<current, fence, chunks>>
    BY <1>1 DEF Chunk
  <2>3. line' \in 0..(Len(text') + 1)
    BY <2>1, <2>2
  <2>4. Len(chunks) <= MaxChunks
    BY <2>2, ChunkAssumption, EmptySeq
  <2> QED BY <2>1, <2>2, <2>3, <2>4
<1>2. ASSUME AddLine PROVE ChunkTyped'
  <2>1. InLine /\ UNCHANGED <<text, chunks>> /\ line' = line + 1 /\ current' = current \o toAdd
    BY <1>2 DEF AddLine
  <2>2. Len(text) \in Nat /\ line \in 1..Len(text)
    BY <2>1, LenProperties DEF InLine
  <2>3. current' \in SymbolText
    BY <2>1, TextConcat
  <2>4. toAdd' \in SymbolText
    <3>1. CASE line < Len(text)
      <4>1. line + 1 \in 1..Len(text)
        BY <2>2, <3>1
      <4>2. text[line + 1] \in SymbolText
        BY <4>1, ElementOfSeq
      <4> QED BY <1>2, <3>1, <4>2 DEF AddLine
    <3>2. CASE ~(line < Len(text))
      BY <1>2, <3>2 DEF AddLine, SymbolText
    <3> QED BY <3>1, <3>2
  <2>5. fence' \in Markers \cup {NoFence}
    BY <1>2 DEF AddLine, FenceAfter
  <2>6. line' \in 0..(Len(text') + 1) /\ line' # 0
    BY <2>1, <2>2
  <2>7. Len(chunks) <= MaxChunks
    BY <2>2
  <2> QED BY <2>1, <2>3, <2>4, <2>5, <2>6, <2>7
<1>3. ASSUME CutChunk PROVE ChunkTyped'
  <2>1. /\ InLine /\ ~Fits /\ Len(chunks) < MaxChunks
        /\ toAdd' = CutRest /\ chunks' = Append(chunks, CutPiece) /\ current' = Closing
        /\ UNCHANGED <<text, line, fence>>
    BY <1>3, CutChunkDoes
  <2>2. CutRest \in SymbolText /\ CutPiece \in SymbolText /\ Closing \in SymbolText
    BY <2>1, CutBodyIs, ClosingIs
  <2>3. chunks' \in Seq(SymbolText) /\ Len(chunks') = Len(chunks) + 1 /\ Len(chunks) \in Nat
    BY <2>1, <2>2, AppendProperties, LenProperties
  <2>4. Len(chunks') <= MaxChunks /\ line # 0
    BY <2>1, <2>3, ChunkAssumption DEF InLine
  <2> QED BY <2>1, <2>2, <2>3, <2>4
<1>4. ASSUME LastChunk PROVE ChunkTyped'
  <2> DEFINE all == Append(chunks, IF Closed THEN current ELSE current \o Closing)
             kept == Keep(all, {c \in ToSet(all) : ~Blank(c)})
  <2>1. /\ line > Len(text) /\ line # 0 /\ current # <<>> /\ current' = <<>>
        /\ chunks' = kept /\ UNCHANGED <<text, line, toAdd, fence>>
    BY <1>4 DEF LastChunk
  <2>2. /\ (IF Closed THEN current ELSE current \o Closing) \in SymbolText
        /\ Len(chunks) \in Nat /\ MaxChunks \in Nat
    BY ClosingIs, TextConcat, ChunkAssumption, LenProperties
  <2>3. all \in Seq(SymbolText) /\ Len(all) = Len(chunks) + 1
    BY <2>2, AppendProperties
  <2>4. Len(all) <= MaxChunks + 1 /\ Len(all) \in Nat
    BY <2>1, <2>2, <2>3
  <2> HIDE DEF all
  <2>5. kept \in Seq(SymbolText) /\ Len(kept) \in 0..Len(all)
    BY <2>3, KeepType, KeepShorter
  <2>6. Len(kept) <= MaxChunks + 1
    BY <2>2, <2>4, <2>5
  <2> HIDE DEF kept
  <2>7. <<>> \in SymbolText
    BY DEF SymbolText
  <2> QED BY <2>1, <2>5, <2>6, <2>7
<1>5. ASSUME UNCHANGED chunkVars PROVE ChunkTyped'
  BY <1>5 DEF chunkVars
<1> QED
  BY <1>1, <1>2, <1>3, <1>4, <1>5 DEF ChunkNext

\* chunk_text keeps its variables' types, for every text, limit and bound.
THEOREM ChunkTypeCorrect == ChunkSpec => []ChunkTypeOK
<1>1. ChunkTyped => ChunkTypeOK
  <2> SUFFICES ASSUME ChunkTyped PROVE ChunkTypeOK
    OBVIOUS
  <2>1. Len(chunks) <= MaxChunks + 1
    BY ChunkAssumption, LenProperties DEF ChunkTyped
  <2> QED BY <2>1 DEF ChunkTyped, ChunkTypeOK, SymbolText
<1>2. ChunkTyped /\ [ChunkNext]_chunkVars => ChunkTyped'
  BY ChunkTypedStep
<1> QED
  BY <1>1, <1>2, ChunkTypedInit, PTL DEF ChunkSpec

-----------------------------------------------------------------------------
(***************************************************************************)
(* ChunkText: what was said is in the chunks, the open chunk and the rest. *)
(***************************************************************************)

\* What is said in the chunks, in the one being filled, and in the rest.
SaidLetters == Letters(FlattenSeq(chunks)) \o Letters(current \o Unread)

SaidInv == line # 0 => SaidLetters = Letters(FlattenSeq(text))

\* The rest, for a line the loop is at and for one after the last.
LEMMA UnreadIs ==
  ASSUME ChunkTyped
  PROVE  /\ InLine => Unread = toAdd \o LinesLeft
         /\ ~InLine => Unread = <<>>
         /\ Unread \in SymbolText /\ LinesLeft \in SymbolText
         /\ FlattenSeq(chunks) \in SymbolText /\ FlattenSeq(text) \in SymbolText
<1>1. FlattenSeq(chunks) \in SymbolText /\ FlattenSeq(text) \in SymbolText
  BY FlattenType DEF ChunkTyped, SymbolText
<1>2. SubSeq(text, line + 1, Len(text)) \in Seq(SymbolText)
  <2>1. Len(text) \in Nat /\ line + 1 \in Int /\ \A i \in (line + 1)..Len(text) : text[i] \in SymbolText
    BY LenProperties, ElementOfSeq DEF ChunkTyped
  <2> QED BY <2>1, SubSeqProperties
<1>3. LinesLeft \in SymbolText
  BY <1>2, FlattenType DEF LinesLeft, SymbolText
<1>4. <<>> \in SymbolText
  BY DEF SymbolText
<1>5. InLine => Unread = toAdd \o LinesLeft
  BY DEF Unread, LinesLeft
<1>6. ~InLine => Unread = <<>>
  BY DEF Unread
<1>7. toAdd \o LinesLeft \in SymbolText
  BY <1>3, TextConcat DEF ChunkTyped
<1> QED
  BY <1>1, <1>3, <1>4, <1>5, <1>6, <1>7

\* At the start of a line, the rest is all the lines from it on.
LEMMA UnreadFrom ==
  ASSUME NEW t \in Seq(SymbolText), NEW n \in 1..Len(t)
  PROVE  FlattenSeq(SubSeq(t, n, Len(t))) = t[n] \o FlattenSeq(SubSeq(t, n + 1, Len(t)))
BY FlattenTail DEF SymbolText

\* When a line is added, the rest is what comes after it.
LEMMA AddLineRest ==
  ASSUME ChunkTyped, AddLine
  PROVE  Unread' = LinesLeft
<1>1. /\ InLine /\ text' = text /\ line' = line + 1
      /\ toAdd' = IF line < Len(text) THEN text[line + 1] ELSE <<>>
  BY DEF AddLine
<1>2. Len(text) \in Nat /\ line \in 1..Len(text)
  BY <1>1, LenProperties DEF InLine, ChunkTyped
<1>3. CASE line < Len(text)
  <2>1. line + 1 \in 1..Len(text) /\ InLine' /\ toAdd' = text[line + 1]
    BY <1>1, <1>2, <1>3 DEF InLine
  <2>2. Unread' = text[line + 1] \o FlattenSeq(SubSeq(text, line + 1 + 1, Len(text)))
    BY <1>1, <2>1 DEF Unread
  <2>3. FlattenSeq(SubSeq(text, line + 1, Len(text)))
          = text[line + 1] \o FlattenSeq(SubSeq(text, line + 1 + 1, Len(text)))
    BY <2>1, UnreadFrom DEF ChunkTyped
  <2> QED BY <2>2, <2>3 DEF LinesLeft
<1>4. CASE ~(line < Len(text))
  <2>1. ~InLine' /\ line + 1 \in Int /\ Len(text) \in Int /\ Len(text) < line + 1
    BY <1>1, <1>2, <1>4 DEF InLine
  <2>2. SubSeq(text, line + 1, Len(text)) = <<>>
    BY <2>1, SubSeqEmpty
  <2> QED BY <2>1, <2>2, FlattenEmpty DEF Unread, LinesLeft
<1> QED
  BY <1>3, <1>4

\* What is in the chunks after one was cut, and what is left to take.
LEMMA CutChunkParts ==
  ASSUME ChunkTyped, CutChunk
  PROVE  /\ FlattenSeq(chunks') = FlattenSeq(chunks) \o CutPiece
         /\ Unread' = CutRest \o LinesLeft
         /\ current' \o Unread' = Closing \o (CutRest \o LinesLeft)
         /\ current \o Unread = CutBody \o (CutRest \o LinesLeft)
<1>1. /\ InLine /\ ~Fits
      /\ toAdd' = CutRest /\ chunks' = Append(chunks, CutPiece) /\ current' = Closing
      /\ UNCHANGED <<text, line, fence>>
  BY CutChunkDoes
<1>2. /\ CutBody \in SymbolText /\ CutRest \in SymbolText /\ CutPiece \in SymbolText
      /\ current \o toAdd = CutBody \o CutRest
  BY <1>1, CutBodyIs
<1>3. /\ Unread = toAdd \o LinesLeft /\ LinesLeft \in SymbolText
      /\ current \in SymbolText /\ toAdd \in SymbolText
  BY <1>1, UnreadIs DEF ChunkTyped
<1>4. Unread' = CutRest \o LinesLeft
  BY <1>1 DEF Unread, InLine, LinesLeft
<1>5. Regroups(current, toAdd, LinesLeft) /\ Regroups(CutBody, CutRest, LinesLeft)
  BY <1>2, <1>3, Regroup DEF SymbolText
<1>6. current \o Unread = CutBody \o (CutRest \o LinesLeft)
  BY <1>2, <1>3, <1>5 DEF Regroups
<1>7. FlattenSeq(chunks') = FlattenSeq(chunks) \o CutPiece
  BY <1>1, <1>2, FlattenAppend DEF ChunkTyped, SymbolText
<1> QED
  BY <1>1, <1>4, <1>6, <1>7

LEMMA LettersOfPiece ==
  ASSUME ChunkTyped, ~Fits
  PROVE  Letters(CutPiece) = Letters(CutBody)
<1>1. CutBody \in SymbolText /\ CutPiece \in {CutBody, CutBody \o Closing}
  BY CutBodyIs
<1>2. Closing \in SymbolText /\ Letters(Closing) = <<>>
  BY ClosingIs DEF ChunkTyped
<1>3. Letters(CutBody \o Closing) = Letters(CutBody) \o <<>> /\ Letters(CutBody) \in SymbolText
  <2>1. SaysBoth(CutBody, Closing)
    BY <1>1, <1>2, LettersConcat
  <2> QED BY <1>2, <2>1 DEF SaysBoth
<1>4. Letters(CutBody) \o <<>> = Letters(CutBody)
  BY <1>3, ConcatEmptySeq DEF SymbolText
<1> QED
  BY <1>1, <1>3, <1>4

\* The chunks that are dropped at the end are blank, so that nothing is lost but
\* newlines.
LEMMA LastChunkKeeps ==
  ASSUME NEW all \in Seq(SymbolText), NEW K, Newline \notin K
  PROVE  LET kept == Keep(all, {c \in ToSet(all) : ~Blank(c)}) IN
         Keep(FlattenSeq(kept), K) = Keep(FlattenSeq(all), K)
<1> DEFINE P == {c \in ToSet(all) : ~Blank(c)}
<1>1. ASSUME NEW i \in 1..Len(all) PROVE all[i] \in P \/ Keep(all[i], K) = <<>>
  <2>1. all[i] \in SymbolText /\ all[i] \in ToSet(all)
    BY ElementOfSeq, LenProperties DEF ToSet
  <2>2. CASE Blank(all[i])
    <3>1. \A j \in 1..Len(all[i]) : all[i][j] \notin K
      BY <2>1, <2>2, LenProperties DEF Blank, SymbolText
    <3> QED BY <2>1, <3>1, KeepNone DEF SymbolText
  <2> QED BY <2>1, <2>2
<1> HIDE DEF P
<1>2. Keep(FlattenSeq(Keep(all, P)), K) = Keep(FlattenSeq(all), K)
  BY <1>1, KeepOfKept DEF SymbolText
<1> QED
  BY <1>2 DEF P

LEMMA LastChunkSays ==
  ASSUME NEW all \in Seq(SymbolText)
  PROVE  LET kept == Keep(all, {c \in ToSet(all) : ~Blank(c)}) IN
         Letters(FlattenSeq(kept)) = Letters(FlattenSeq(all))
BY LastChunkKeeps, ChunkAssumption DEF Letters

LEMMA SaidInit ==
  ChunkInit => SaidInv
BY DEF ChunkInit, SaidInv

\* Whatever a step takes or cuts, it says the same.
LEMMA SaidStep ==
  ASSUME ChunkTyped, ChunkTyped', SaidInv, [ChunkNext]_chunkVars
  PROVE  SaidInv'
<1>1. ASSUME NEW t \in Texts, Chunk(t) PROVE SaidInv'
  <2>1. t \in Seq(SymbolText) /\ Len(t) \in Nat \ {0} /\ 1 \in 1..Len(t)
    BY TextsAre
  <2>2. /\ text' = t /\ line' = 1 /\ toAdd' = t[1] /\ current' = <<>> /\ chunks' = <<>>
    BY <1>1 DEF Chunk, ChunkTyped
  <2>3. Unread' = t[1] \o FlattenSeq(SubSeq(t, 1 + 1, Len(t)))
    BY <2>1, <2>2 DEF Unread, InLine
  <2>4. Unread' = FlattenSeq(SubSeq(t, 1, Len(t)))
    BY <2>1, <2>3, UnreadFrom
  <2>5. SubSeq(t, 1, Len(t)) = t
    BY <2>1, SubSeqFull
  <2>6. FlattenSeq(t) \in SymbolText
    BY <2>1, FlattenType DEF SymbolText
  <2>7. Letters(FlattenSeq(<<>>)) = <<>> /\ <<>> \o FlattenSeq(t) = FlattenSeq(t)
    BY <2>6, FlattenEmpty, KeepEmpty, ConcatEmptySeq DEF Letters, SymbolText
  <2>8. Letters(FlattenSeq(t)) \in Seq(Symbols)
    BY <2>6, LettersType DEF SymbolText
  <2>9. SaidLetters' = <<>> \o Letters(FlattenSeq(t))
    BY <2>2, <2>4, <2>5, <2>7 DEF SaidLetters
  <2> QED BY <2>2, <2>8, <2>9, ConcatEmptySeq DEF SaidInv
<1>2. ASSUME AddLine PROVE SaidInv'
  <2>1. /\ InLine /\ UNCHANGED <<text, chunks>> /\ line # 0
        /\ current' = current \o toAdd /\ Unread' = LinesLeft
    BY <1>2, AddLineRest DEF AddLine, InLine
  <2>2. Unread = toAdd \o LinesLeft
    BY <2>1, UnreadIs
  <2>3. Regroups(current, toAdd, LinesLeft)
    BY UnreadIs, Regroup DEF ChunkTyped, SymbolText
  <2>4. current' \o Unread' = current \o Unread
    BY <2>1, <2>2, <2>3 DEF Regroups
  <2> QED BY <2>1, <2>4 DEF SaidInv, SaidLetters
<1>3. ASSUME CutChunk PROVE SaidInv'
  <2> DEFINE rest == CutRest \o LinesLeft
             made == FlattenSeq(chunks)
  <2>1. /\ FlattenSeq(chunks') = made \o CutPiece
        /\ current' \o Unread' = Closing \o rest
        /\ current \o Unread = CutBody \o rest
    BY <1>3, CutChunkParts
  <2>2. /\ ~Fits /\ UNCHANGED <<text, line>> /\ line # 0
    BY <1>3 DEF CutChunk, InLine
  <2>3. /\ CutBody \in SymbolText /\ CutPiece \in SymbolText /\ Closing \in SymbolText
        /\ made \in SymbolText /\ rest \in SymbolText
    BY <2>2, CutBodyIs, ClosingIs, UnreadIs, TextConcat DEF ChunkTyped
  <2> HIDE DEF rest, made
  <2>4. /\ Letters(made \o CutPiece) = Letters(made) \o Letters(CutBody)
        /\ Letters(made) \in SymbolText /\ Letters(CutBody) \in SymbolText
    <3>1. SaysBoth(made, CutPiece) /\ SaysBoth(made, CutBody)
      BY <2>3, LettersConcat
    <3>2. Letters(CutPiece) = Letters(CutBody)
      BY <2>2, LettersOfPiece
    <3> QED BY <3>1, <3>2 DEF SaysBoth
  <2>5. Letters(Closing \o rest) = Letters(rest) /\ Letters(rest) \in SymbolText
    <3>1. Letters(Closing \o rest) = <<>> \o Letters(rest) /\ Letters(rest) \in SymbolText
      <4>1. SaysBoth(Closing, rest)
        BY <2>3, LettersConcat
      <4>2. Letters(Closing) = <<>>
        BY ClosingIs DEF ChunkTyped
      <4> QED BY <4>1, <4>2 DEF SaysBoth
    <3> QED BY <3>1, ConcatEmptySeq DEF SymbolText
  <2>6. Letters(CutBody \o rest) = Letters(CutBody) \o Letters(rest)
    <3>1. SaysBoth(CutBody, rest)
      BY <2>3, LettersConcat
    <3> QED BY <3>1 DEF SaysBoth
  <2>7. Regroups(Letters(made), Letters(CutBody), Letters(rest))
    BY <2>4, <2>5, Regroup DEF SymbolText
  <2>8. SaidLetters' = (Letters(made) \o Letters(CutBody)) \o Letters(rest)
    BY <2>1, <2>4, <2>5 DEF SaidLetters
  <2>9. SaidLetters = Letters(made) \o (Letters(CutBody) \o Letters(rest))
    BY <2>1, <2>6 DEF SaidLetters, made
  <2> QED BY <2>2, <2>7, <2>8, <2>9 DEF SaidInv, Regroups
<1>4. ASSUME LastChunk PROVE SaidInv'
  <2> DEFINE last == IF Closed THEN current ELSE current \o Closing
             all == Append(chunks, last)
             kept == Keep(all, {c \in ToSet(all) : ~Blank(c)})
             made == FlattenSeq(chunks)
  <2>1. /\ line > Len(text) /\ line # 0 /\ current' = <<>>
        /\ chunks' = kept /\ UNCHANGED <<text, line, toAdd, fence>>
    BY <1>4 DEF LastChunk
  <2>2. /\ current \in SymbolText /\ last \in {current, current \o Closing}
        /\ Closing \in SymbolText /\ Letters(Closing) = <<>>
        /\ made \in SymbolText /\ chunks \in Seq(SymbolText)
    BY ClosingIs, UnreadIs DEF ChunkTyped
  <2>3. last \in SymbolText /\ Letters(last) = Letters(current)
    <3>1. Letters(current \o Closing) = Letters(current) \o <<>> /\ Letters(current) \in SymbolText
          /\ current \o Closing \in SymbolText
      <4>1. SaysBoth(current, Closing)
        BY <2>2, LettersConcat
      <4> QED BY <2>2, <4>1 DEF SaysBoth
    <3>2. Letters(current) \o <<>> = Letters(current)
      BY <3>1, ConcatEmptySeq DEF SymbolText
    <3> QED BY <2>2, <3>1, <3>2
  <2> HIDE DEF last
  <2>4. all \in Seq(SymbolText) /\ FlattenSeq(all) = made \o last
    BY <2>2, <2>3, AppendProperties, FlattenAppend DEF SymbolText
  <2> HIDE DEF all
  <2>5. Letters(FlattenSeq(kept)) = Letters(FlattenSeq(all))
    BY <2>4, LastChunkSays
  <2> HIDE DEF kept, made
  <2>6. Letters(made \o last) = Letters(made) \o Letters(current)
        /\ Letters(made) \in SymbolText /\ Letters(current) \in SymbolText
    <3>1. SaysBoth(made, last)
      BY <2>2, <2>3, LettersConcat
    <3>2. Letters(last) = Letters(current) /\ Letters(current) \in SymbolText
      BY <2>2, <2>3, LettersType
    <3> QED BY <3>1, <3>2 DEF SaysBoth
  <2>7. Letters(made) \o Letters(current) \in Seq(Symbols)
    BY <2>6, ConcatProperties DEF SymbolText
  <2>8. Unread = <<>> /\ Unread' = <<>>
    <3>1. Len(text) \in Nat /\ line \in Nat
      BY LenProperties DEF ChunkTyped
    <3> QED BY <2>1, <3>1 DEF Unread, InLine
  <2>9. current \o <<>> = current /\ <<>> \o <<>> = <<>> /\ Letters(<<>>) = <<>>
    BY <2>2, ConcatEmptySeq, KeepEmpty DEF SymbolText, Letters
  <2>10. SaidLetters' = (Letters(made) \o Letters(current)) \o <<>>
    BY <2>1, <2>4, <2>5, <2>6, <2>8, <2>9 DEF SaidLetters
  <2>11. SaidLetters = Letters(made) \o Letters(current)
    BY <2>8, <2>9 DEF SaidLetters, made
  <2> QED BY <2>1, <2>7, <2>10, <2>11, ConcatEmptySeq DEF SaidInv
<1>5. ASSUME UNCHANGED chunkVars PROVE SaidInv'
  BY <1>5 DEF chunkVars, SaidInv, SaidLetters, Unread, InLine
<1> QED
  BY <1>1, <1>2, <1>3, <1>4, <1>5 DEF ChunkNext

-----------------------------------------------------------------------------
(***************************************************************************)
(* ChunkText: a text without code blocks is cut into chunks that fit, and  *)
(* no more of them than it has symbols.                                    *)
(***************************************************************************)

\* The chunks made so far and the symbols that can still make one.
PlainInv ==
  line # 0 /\ Plain =>
    /\ fence = NoFence /\ Len(current) <= Limit /\ ChunksFit
    /\ Len(chunks) + (Len(current) + Len(Unread)) <= Len(FlattenSeq(text))

LEMMA Lengths ==
  ASSUME NEW s \in SymbolText, NEW t \in SymbolText
  PROVE  Len(s \o t) = Len(s) + Len(t) /\ Len(s) \in Nat /\ Len(t) \in Nat
BY ConcatProperties, LenProperties DEF SymbolText

\* Chunks that fit still do when one that fits is appended.
LEMMA AppendFits ==
  ASSUME NEW cc \in Seq(SymbolText), NEW c \in SymbolText, Len(c) <= Limit,
         \A i \in DOMAIN cc : Len(cc[i]) <= Limit
  PROVE  /\ Append(cc, c) \in Seq(SymbolText) /\ Len(Append(cc, c)) = Len(cc) + 1
         /\ \A i \in DOMAIN Append(cc, c) : Len(Append(cc, c)[i]) <= Limit
<1>1. /\ Append(cc, c) \in Seq(SymbolText) /\ Len(Append(cc, c)) = Len(cc) + 1
      /\ \A i \in 1..Len(cc) : Append(cc, c)[i] = cc[i]
      /\ Append(cc, c)[Len(cc) + 1] = c
      /\ DOMAIN cc = 1..Len(cc) /\ Len(cc) \in Nat
  BY AppendProperties, LenProperties
<1>2. DOMAIN Append(cc, c) = 1..(Len(cc) + 1)
  BY <1>1, LenProperties
<1> QED
  BY <1>1, <1>2

\* Chunks that fit still do when some are dropped.
LEMMA KeepFits ==
  ASSUME NEW cc \in Seq(SymbolText), NEW P, \A i \in DOMAIN cc : Len(cc[i]) <= Limit
  PROVE  \A i \in DOMAIN Keep(cc, P) : Len(Keep(cc, P)[i]) <= Limit
<1> DEFINE Short == {c \in SymbolText : Len(c) <= Limit}
<1>1. cc \in Seq(Short)
  <2>1. DOMAIN cc = 1..Len(cc) /\ Len(cc) \in Nat /\ cc \in [1..Len(cc) -> SymbolText]
    BY LenProperties
  <2>2. \A i \in 1..Len(cc) : cc[i] \in Short
    BY <2>1
  <2> HIDE DEF Short
  <2> QED BY <2>1, <2>2
<1> HIDE DEF Short
<1>2. Keep(cc, P) \in Seq(Short)
  BY <1>1, KeepType
<1>3. \A i \in DOMAIN Keep(cc, P) : Keep(cc, P)[i] \in Short
  BY <1>2, LenProperties, ElementOfSeq
<1> QED
  BY <1>3 DEF Short

LEMMA PlainStep ==
  ASSUME ChunkTyped, ChunkTyped', PlainInv, [ChunkNext]_chunkVars
  PROVE  PlainInv'
<1>0. Limit \in Nat \ {0}
  BY ChunkAssumption
<1>1. ASSUME NEW t \in Texts, Chunk(t) PROVE PlainInv'
  <2>1. t \in Seq(SymbolText) /\ Len(t) \in Nat \ {0} /\ 1 \in 1..Len(t)
    BY TextsAre
  <2>2. /\ text' = t /\ line' = 1 /\ toAdd' = t[1] /\ current' = <<>> /\ chunks' = <<>>
        /\ fence' = NoFence
    BY <1>1 DEF Chunk, ChunkTyped
  <2>3. Unread' = t[1] \o FlattenSeq(SubSeq(t, 1 + 1, Len(t)))
    BY <2>1, <2>2 DEF Unread, InLine
  <2>4. Unread' = FlattenSeq(SubSeq(t, 1, Len(t)))
    BY <2>1, <2>3, UnreadFrom
  <2>5. SubSeq(t, 1, Len(t)) = t
    BY <2>1, SubSeqFull
  <2>6. Len(FlattenSeq(t)) \in Nat /\ Len(<<>>) = 0
    BY <2>1, FlattenType, LenProperties, EmptySeq DEF SymbolText
  <2>7. ChunksFit'
    BY <2>2 DEF ChunksFit
  <2>8. Len(chunks') + (Len(current') + Len(Unread')) <= Len(FlattenSeq(text'))
    <3>1. Len(FlattenSeq(text')) = Len(Unread')
      BY <2>2, <2>4, <2>5
    <3>2. Len(chunks') = 0 /\ Len(current') = 0
      BY <2>2, <2>6
    <3>3. Len(Unread') \in Nat
      BY <2>4, <2>5, <2>6
    <3> QED BY <3>1, <3>2, <3>3
  <2>9. fence' = NoFence /\ Len(current') <= Limit
    BY <1>0, <2>2, <2>6
  <2> QED BY <2>7, <2>8, <2>9 DEF PlainInv
<1>2. ASSUME AddLine PROVE PlainInv'
  <2> SUFFICES ASSUME line' # 0, Plain'
               PROVE  /\ fence' = NoFence /\ Len(current') <= Limit /\ ChunksFit'
                      /\ Len(chunks') + (Len(current') + Len(Unread')) <= Len(FlattenSeq(text'))
    BY DEF PlainInv
  <2>1. /\ InLine /\ Fits /\ UNCHANGED <<text, chunks>> /\ line # 0 /\ line \in DOMAIN text
        /\ current' = current \o toAdd /\ Unread' = LinesLeft /\ fence' = FenceAfter(text[line])
    BY <1>2, AddLineRest, LenProperties DEF AddLine, InLine, ChunkTyped
  <2>2. Plain
    BY <2>1 DEF Plain
  <2>3. /\ fence = NoFence /\ Len(current) <= Limit /\ ChunksFit
        /\ Len(chunks) + (Len(current) + Len(Unread)) <= Len(FlattenSeq(text))
    BY <2>1, <2>2 DEF PlainInv
  <2>4. fence' = NoFence
    BY <2>1, <2>2, <2>3 DEF FenceAfter, Plain
  <2>5. Len(current') <= Limit
    <3>1. Closed
      BY <2>3 DEF Closed
    <3>2. CASE toAdd = <<>>
      BY <2>1, <2>3, <3>2, ConcatEmptySeq DEF ChunkTyped, SymbolText
    <3>3. CASE Len(current \o toAdd) <= Limit
      BY <2>1, <3>3
    <3> QED BY <2>1, <3>1, <3>2, <3>3 DEF Fits
  <2>6. Unread = toAdd \o LinesLeft /\ LinesLeft \in SymbolText
    BY <2>1, UnreadIs
  <2>7. /\ Len(current \o toAdd) = Len(current) + Len(toAdd) /\ Len(current) \in Nat
        /\ Len(toAdd \o LinesLeft) = Len(toAdd) + Len(LinesLeft)
        /\ Len(toAdd) \in Nat /\ Len(LinesLeft) \in Nat
    BY <2>6, Lengths DEF ChunkTyped
  <2>8. Len(current') + Len(Unread') = Len(current) + Len(Unread)
    BY <2>1, <2>6, <2>7
  <2>9. ChunksFit'
    BY <2>1, <2>3 DEF ChunksFit
  <2> QED BY <2>1, <2>3, <2>4, <2>5, <2>8, <2>9
<1>3. ASSUME CutChunk PROVE PlainInv'
  <2> SUFFICES ASSUME line' # 0, Plain'
               PROVE  /\ fence' = NoFence /\ Len(current') <= Limit /\ ChunksFit'
                      /\ Len(chunks') + (Len(current') + Len(Unread')) <= Len(FlattenSeq(text'))
    BY DEF PlainInv
  <2>1. /\ InLine /\ ~Fits /\ UNCHANGED <<text, line, fence>> /\ line # 0
        /\ chunks' = Append(chunks, CutPiece)
    BY <1>3, CutChunkDoes DEF InLine
  <2>2. Plain
    BY <2>1 DEF Plain
  <2>3. /\ fence = NoFence /\ Len(current) <= Limit /\ ChunksFit
        /\ Len(chunks) + (Len(current) + Len(Unread)) <= Len(FlattenSeq(text))
    BY <2>1, <2>2 DEF PlainInv
  <2>4. Closing = <<>>
    BY <2>3, ClosingIs DEF ChunkTyped
  <2>5. /\ CutBody \in SymbolText /\ CutRest \in SymbolText /\ CutBody # <<>>
        /\ CutPiece \in {CutBody, CutBody \o Closing}
        /\ Len(CutBody) = IF current = <<>> THEN Cut ELSE Len(current)
        /\ Cut \in 1..Limit
    BY <2>1, CutBodyIs, CutIs
  <2>6. CutPiece = CutBody
    BY <2>4, <2>5, ConcatEmptySeq DEF SymbolText
  <2>7. Len(CutBody) <= Limit
    BY <1>0, <2>3, <2>5
  <2>8. ChunksFit' /\ Len(chunks') = Len(chunks) + 1
    BY <2>1, <2>3, <2>5, <2>6, <2>7, AppendFits DEF ChunksFit, ChunkTyped
  <2> DEFINE rest == CutRest \o LinesLeft
  <2>9. /\ current' = Closing /\ current' \o Unread' = Closing \o rest
        /\ current \o Unread = CutBody \o rest
    BY <1>3, CutChunkParts, CutChunkDoes
  <2>10. rest \in SymbolText /\ Unread \in SymbolText /\ Unread' = rest
    BY <1>3, <2>5, UnreadIs, TextConcat, CutChunkParts
  <2> HIDE DEF rest
  <2>11. /\ Len(current \o Unread) = Len(current) + Len(Unread)
         /\ Len(CutBody \o rest) = Len(CutBody) + Len(rest)
         /\ Len(CutBody) \in Nat /\ Len(rest) \in Nat
    BY <2>5, <2>10, Lengths DEF ChunkTyped
  <2>12. Len(CutBody) >= 1
    <3>1. Len(CutBody) \in Nat \ {0}
      BY <2>5, EmptySeq DEF SymbolText
    <3> QED BY <3>1
  <2>14. Len(current') = 0
    BY <2>4, <2>9
  <2>15. Len(chunks) \in Nat /\ Len(FlattenSeq(text)) \in Nat
    BY UnreadIs, LenProperties DEF ChunkTyped, SymbolText
  <2>16. Len(chunks') + (Len(current') + Len(Unread')) <= Len(FlattenSeq(text))
    BY <2>3, <2>8, <2>9, <2>11, <2>10, <2>12, <2>14, <2>15
  <2> QED BY <1>0, <2>1, <2>3, <2>8, <2>14, <2>16
<1>4. ASSUME LastChunk PROVE PlainInv'
  <2> SUFFICES ASSUME line' # 0, Plain'
               PROVE  /\ fence' = NoFence /\ Len(current') <= Limit /\ ChunksFit'
                      /\ Len(chunks') + (Len(current') + Len(Unread')) <= Len(FlattenSeq(text'))
    BY DEF PlainInv
  <2> DEFINE last == IF Closed THEN current ELSE current \o Closing
             all == Append(chunks, last)
             kept == Keep(all, {c \in ToSet(all) : ~Blank(c)})
  <2>1. /\ line > Len(text) /\ line # 0 /\ current # <<>> /\ current' = <<>>
        /\ chunks' = kept /\ UNCHANGED <<text, line, toAdd, fence>>
    BY <1>4 DEF LastChunk
  <2>2. Plain
    BY <2>1 DEF Plain
  <2>3. /\ fence = NoFence /\ Len(current) <= Limit /\ ChunksFit
        /\ Len(chunks) + (Len(current) + Len(Unread)) <= Len(FlattenSeq(text))
    BY <2>1, <2>2 DEF PlainInv
  <2>4. last = current
    BY <2>3 DEF Closed
  <2> HIDE DEF last
  <2>5. /\ all \in Seq(SymbolText) /\ Len(all) = Len(chunks) + 1
        /\ \A i \in DOMAIN all : Len(all[i]) <= Limit
    BY <2>3, <2>4, AppendFits DEF ChunksFit, ChunkTyped
  <2> HIDE DEF all
  <2>6. (\A i \in DOMAIN kept : Len(kept[i]) <= Limit) /\ Len(kept) \in 0..Len(all)
    BY <2>5, KeepFits, KeepShorter
  <2> HIDE DEF kept
  <2>7. ChunksFit'
    BY <2>1, <2>6 DEF ChunksFit
  <2>8. Unread = <<>> /\ Unread' = <<>>
    <3>1. Len(text) \in Nat /\ line \in Nat
      BY LenProperties DEF ChunkTyped
    <3> QED BY <2>1, <3>1 DEF Unread, InLine
  <2>9. Len(current) \in Nat \ {0} /\ Len(<<>>) = 0
    BY <2>1, EmptySeq DEF ChunkTyped, SymbolText
  <2>10. Len(chunks) \in Nat /\ Len(FlattenSeq(text)) \in Nat
    BY UnreadIs, LenProperties DEF ChunkTyped, SymbolText
  <2>11. Len(kept) <= Len(FlattenSeq(text))
    <3>1. Len(chunks) + (Len(current) + 0) <= Len(FlattenSeq(text))
      BY <2>3, <2>8, <2>9
    <3> QED BY <2>5, <2>6, <2>9, <2>10, <3>1
  <2>12. Len(kept) \in Nat
    BY <2>5, <2>6, <2>10
  <2> QED BY <1>0, <2>1, <2>3, <2>7, <2>8, <2>9, <2>11, <2>12
<1>5. ASSUME UNCHANGED chunkVars PROVE PlainInv'
  BY <1>5 DEF chunkVars, PlainInv, Plain, ChunksFit, Unread, InLine
<1> QED
  BY <1>1, <1>2, <1>3, <1>4, <1>5 DEF ChunkNext

\* transport.py:37-48: a text without code blocks is cut into chunks that fit,
\* and each takes a part of it, so that the cutting ends.
THEOREM PlainTextsFit == ChunkSpec => []PlainFits
<1>1. ChunkTyped /\ PlainInv => PlainFits
  <2> SUFFICES ASSUME ChunkTyped, PlainInv, Plain
               PROVE  ChunksFit /\ Len(chunks) <= Len(FlattenSeq(text))
    BY DEF PlainFits
  <2>1. CASE line = 0
    BY <2>1, FlattenEmpty, EmptySeq DEF ChunkTyped, ChunksFit
  <2>2. CASE line # 0
    <3>1. ChunksFit /\ Len(chunks) + (Len(current) + Len(Unread)) <= Len(FlattenSeq(text))
      BY <2>2 DEF PlainInv
    <3>2. Len(chunks) \in Nat /\ Len(current) \in Nat /\ Len(Unread) \in Nat /\ Len(FlattenSeq(text)) \in Nat
      BY UnreadIs, LenProperties DEF ChunkTyped, SymbolText
    <3> QED BY <3>1, <3>2
  <2> QED BY <2>1, <2>2
<1>2. ChunkTyped /\ PlainInv /\ [ChunkNext]_chunkVars => (ChunkTyped /\ PlainInv)'
  BY ChunkTypedStep, PlainStep
<1>3. ChunkInit => PlainInv
  BY DEF ChunkInit, PlainInv
<1> QED
  BY <1>1, <1>2, <1>3, ChunkTypedInit, PTL DEF ChunkSpec

-----------------------------------------------------------------------------
(***************************************************************************)
(* ChunkText: what is put in where a code block is closed and reopened     *)
(* takes the place of nothing.                                             *)
(***************************************************************************)

\* What no chunk that is dropped has.
Solid == Symbols \ {Newline}

\* Of a text, its beginning p is found in m, when only what is in K counts.
PutIn(whole, p, m, K) == Found(Keep(whole, K), Keep(m, K)) >= Len(Keep(p, K))

\* The text is a beginning, which is found in what is made, and the rest; at the
\* end, but for its newlines.
PutInv ==
  line # 0 =>
    \E p \in SymbolText :
      /\ FlattenSeq(text) = p \o Unread
      /\ \A K \in {Symbols, Solid} :
           K = Solid \/ ~Finished => PutIn(FlattenSeq(text), p, FlattenSeq(chunks) \o current, K)

\* Three texts in a row, of which what is in K is kept; for three texts to be named.
KeepsThree(a, b, c, K) ==
  /\ Keep((a \o b) \o c, K) = (Keep(a, K) \o Keep(b, K)) \o Keep(c, K)
  /\ a \o b \in SymbolText /\ (a \o b) \o c \in SymbolText

LEMMA KeepThree ==
  ASSUME NEW a \in SymbolText, NEW b \in SymbolText, NEW c \in SymbolText, NEW K
  PROVE  KeepsThree(a, b, c, K)
<1>1. a \in Seq(Symbols) /\ b \in Seq(Symbols) /\ c \in Seq(Symbols)
  BY DEF SymbolText
<1>2. a \o b \in Seq(Symbols)
  BY <1>1, ConcatProperties
<1>3. KeepsApart(a, b, K)
  BY <1>1, KeepApart
<1>4. KeepsApart(a \o b, c, K) /\ (a \o b) \o c \in Seq(Symbols)
  BY <1>1, <1>2, KeepApart, ConcatProperties
<1> QED
  BY <1>2, <1>3, <1>4 DEF KeepsThree, KeepsApart, SymbolText

\* The first of two sequences in both, and the second of three in the three; for
\* sequences to be named.
FrontOf(s, x, T) ==
  /\ s \o x \in Seq(T) /\ Len(s \o x) = Len(s) + Len(x)
  /\ \A i \in 1..Len(s) : (s \o x)[i] = s[i]
MiddleOf(a, b, c, T) ==
  /\ (a \o b) \o c \in Seq(T) /\ Len(a) + Len(b) <= Len((a \o b) \o c)
  /\ \A i \in 1..Len(b) : ((a \o b) \o c)[Len(a) + i] = b[i]

LEMMA FrontIs ==
  ASSUME NEW T, NEW s \in Seq(T), NEW x \in Seq(T)
  PROVE  FrontOf(s, x, T)
<1>1. /\ s \o x \in Seq(T) /\ Len(s \o x) = Len(s) + Len(x) /\ Len(s) \in Nat /\ Len(x) \in Nat
      /\ \A i \in 1..(Len(s) + Len(x)) : (s \o x)[i] = IF i <= Len(s) THEN s[i] ELSE x[i - Len(s)]
  BY ConcatProperties, LenProperties
<1>2. \A i \in 1..Len(s) : (s \o x)[i] = s[i]
  BY <1>1
<1> QED
  BY <1>1, <1>2 DEF FrontOf

LEMMA MiddleIs ==
  ASSUME NEW T, NEW a \in Seq(T), NEW b \in Seq(T), NEW c \in Seq(T)
  PROVE  MiddleOf(a, b, c, T)
<1> DEFINE ab == a \o b
<1>1. /\ ab \in Seq(T) /\ Len(ab) = Len(a) + Len(b)
      /\ Len(a) \in Nat /\ Len(b) \in Nat /\ Len(c) \in Nat
  BY ConcatProperties, LenProperties
<1>2. ASSUME NEW i \in 1..Len(b) PROVE ab[Len(a) + i] = b[i] /\ Len(a) + i \in 1..Len(ab)
  <2>1. Len(a) + i \in 1..(Len(a) + Len(b)) /\ ~(Len(a) + i <= Len(a)) /\ (Len(a) + i) - Len(a) = i
    BY <1>1
  <2>2. ab[Len(a) + i] = IF Len(a) + i <= Len(a) THEN a[Len(a) + i] ELSE b[(Len(a) + i) - Len(a)]
    BY <2>1, ConcatProperties
  <2> QED BY <1>1, <2>1, <2>2
<1> HIDE DEF ab
<1>3. FrontOf(ab, c, T)
  BY <1>1, FrontIs
<1>4. \A i \in 1..Len(b) : (ab \o c)[Len(a) + i] = b[i]
  BY <1>2, <1>3 DEF FrontOf
<1>5. ab \o c \in Seq(T) /\ Len(a) + Len(b) <= Len(ab \o c)
  BY <1>1, <1>3 DEF FrontOf
<1> QED
  BY <1>4, <1>5 DEF ab, MiddleOf

\* When p is found in m, and q comes next in the text and is put behind m, both
\* are found there, whatever v is put behind them.
LEMMA PutMore ==
  ASSUME NEW p \in SymbolText, NEW q \in SymbolText, NEW r \in SymbolText,
         NEW m \in SymbolText, NEW v \in SymbolText, NEW K,
         PutIn((p \o q) \o r, p, m, K)
  PROVE  PutIn((p \o q) \o r, p \o q, (m \o q) \o v, K)
<1> DEFINE P == Keep(p, K)
           Q == Keep(q, K)
           R == Keep(r, K)
           M == Keep(m, K)
           V == Keep(v, K)
           s == (P \o Q) \o R
           t == M \o Q
           k == Len(P)
<1>1. /\ P \in Seq(Symbols) /\ Q \in Seq(Symbols) /\ R \in Seq(Symbols)
      /\ M \in Seq(Symbols) /\ V \in Seq(Symbols)
  BY KeepType DEF SymbolText
<1>2. /\ Keep((p \o q) \o r, K) = s /\ Keep((m \o q) \o v, K) = t \o V
      /\ Keep(p \o q, K) = P \o Q
  <2>1. KeepsThree(p, q, r, K) /\ KeepsThree(m, q, v, K) /\ KeepsApart(p, q, K)
    BY KeepThree, KeepApart DEF SymbolText
  <2> QED BY <2>1 DEF KeepsThree, KeepsApart
<1> HIDE DEF P, Q, R, M, V
<1>3. /\ t \in Seq(Symbols) /\ k \in Nat /\ Len(Q) \in Nat /\ Len(P \o Q) = k + Len(Q)
  BY <1>1, ConcatProperties, LenProperties
<1>4. /\ s \in Seq(Symbols) /\ k + Len(Q) <= Len(s)
      /\ \A i \in 1..Len(Q) : s[k+i] = Q[i]
  <2>1. MiddleOf(P, Q, R, Symbols)
    BY <1>1, MiddleIs
  <2> QED BY <2>1 DEF MiddleOf
<1>5. Found(s, M) >= k
  BY <1>2 DEF PutIn, P, M
<1> HIDE DEF s, k
<1>6. Found(s, t) >= k + Len(Q)
  BY <1>1, <1>3, <1>4, <1>5, FoundMore
<1> HIDE DEF t
<1>7. Found(s, t \o V) >= Found(s, t)
  BY <1>1, <1>3, <1>4, FoundStays
<1>8. Found(s, t) \in Nat /\ Found(s, t \o V) \in Nat
  <2>1. t \o V \in Seq(Symbols) /\ Len(s) \in Nat
    BY <1>1, <1>3, <1>4, ConcatProperties, LenProperties
  <2>2. Found(s, t) \in 0..Len(s) /\ Found(s, t \o V) \in 0..Len(s)
    BY <1>3, <1>4, <2>1, FoundType
  <2> QED BY <2>1, <2>2
<1>9. Found(s, t \o V) >= k + Len(Q)
  BY <1>3, <1>6, <1>7, <1>8
<1> QED
  BY <1>2, <1>3, <1>9 DEF PutIn

\* While the loop is in a line, the text is not finished; the rest is a text.
LEMMA InLineGoesOn ==
  ASSUME ChunkTyped, InLine
  PROVE  ~Finished
<1>1. line \in 1..Len(text) /\ Len(text) \in Nat
  BY LenProperties DEF InLine, ChunkTyped
<1>2. ~(line > Len(text))
  BY <1>1
<1> QED
  BY <1>2 DEF Finished

LEMMA UnreadTyped ==
  ASSUME ChunkTyped'
  PROVE  Unread' \in SymbolText
<1> DEFINE t == text'
           n == line' + 1
<1>1. SubSeq(t, n, Len(t)) \in Seq(SymbolText)
  <2>1. t \in Seq(SymbolText) /\ line' \in 0..(Len(t) + 1)
    BY DEF ChunkTyped
  <2>2. Len(t) \in Nat /\ \A i \in 1..Len(t) : t[i] \in SymbolText
    BY <2>1, LenProperties, ElementOfSeq
  <2>3. n \in Int /\ n >= 1
    <3> DEFINE l == line'
               m == Len(t) + 1
    <3>1. l \in 0..m /\ m \in Nat
      BY <2>1, <2>2
    <3> HIDE DEF l, m
    <3>2. l + 1 \in Int /\ l + 1 >= 1
      BY <3>1
    <3> QED BY <3>2 DEF l
  <2> HIDE DEF t, n
  <2>4. \A i \in n..Len(t) : t[i] \in SymbolText
    BY <2>2, <2>3
  <2> QED BY <2>2, <2>3, <2>4, SubSeqProperties
<1>2. LinesLeft' \in SymbolText /\ toAdd' \in SymbolText
  BY <1>1, FlattenType DEF LinesLeft, SymbolText, ChunkTyped
<1>3. <<>> \in SymbolText /\ toAdd' \o LinesLeft' \in SymbolText
  BY <1>2, TextConcat DEF SymbolText
<1> QED
  BY <1>3 DEF Unread, LinesLeft

\* What is put behind m does not take from what is found in it.
LEMMA PutStays ==
  ASSUME NEW s \in SymbolText, NEW p \in SymbolText, NEW m \in SymbolText, NEW v \in SymbolText,
         NEW K, PutIn(s, p, m, K)
  PROVE  PutIn(s, p, m \o v, K)
<1> DEFINE S == Keep(s, K)
           M == Keep(m, K)
           V == Keep(v, K)
           k == Len(Keep(p, K))
<1>1. /\ S \in Seq(Symbols) /\ M \in Seq(Symbols) /\ V \in Seq(Symbols) /\ Keep(p, K) \in Seq(Symbols)
  BY KeepType DEF SymbolText
<1>2. Keep(m \o v, K) = M \o V
  <2>1. KeepsApart(m, v, K)
    BY KeepApart DEF SymbolText
  <2> QED BY <2>1 DEF KeepsApart
<1>3. Found(S, M) >= k /\ k \in Nat
  BY <1>1, LenProperties DEF PutIn
<1> HIDE DEF S, M, V, k
<1>4. Found(S, M \o V) >= Found(S, M)
  BY <1>1, FoundStays
<1>5. Found(S, M) \in Nat /\ Found(S, M \o V) \in Nat
  <2>1. M \o V \in Seq(Symbols) /\ Len(S) \in Nat
    BY <1>1, ConcatProperties, LenProperties
  <2>2. Found(S, M) \in 0..Len(S) /\ Found(S, M \o V) \in 0..Len(S)
    BY <1>1, <2>1, FoundType
  <2> QED BY <2>1, <2>2
<1>6. Found(S, M \o V) >= k
  BY <1>3, <1>4, <1>5
<1> QED
  BY <1>2, <1>6 DEF PutIn, S, k

\* A step that takes q from the rest, puts it behind what is made, and v behind it.
LEMMA PutTakes ==
  ASSUME ChunkTyped, ChunkTyped', PutInv, line # 0, text' = text, ~Finished,
         NEW q \in SymbolText, NEW v \in SymbolText,
         Unread = q \o Unread',
         FlattenSeq(chunks') \o current' = ((FlattenSeq(chunks) \o current) \o q) \o v
  PROVE  PutInv'
<1> DEFINE whole == FlattenSeq(text)
           m == FlattenSeq(chunks) \o current
           r == Unread'
<1>1. PICK p \in SymbolText : /\ whole = p \o Unread
                              /\ \A K \in {Symbols, Solid} : PutIn(whole, p, m, K)
  BY DEF PutInv
<1>2. m \in SymbolText /\ r \in SymbolText /\ p \o q \in SymbolText
  <2>1. FlattenSeq(chunks) \in SymbolText /\ current \in SymbolText
    BY UnreadIs DEF ChunkTyped
  <2>2. Unread' \in SymbolText
    BY UnreadTyped
  <2> QED BY <2>1, <2>2, TextConcat
<1>3. FlattenSeq(text') = whole /\ FlattenSeq(chunks') \o current' = (m \o q) \o v /\ Unread = q \o r
  OBVIOUS
<1> HIDE DEF whole, m, r
<1>4. whole = (p \o q) \o r
  <2>1. Regroups(p, q, r)
    BY <1>2, Regroup DEF SymbolText
  <2> QED BY <1>1, <1>3, <2>1 DEF Regroups
<1>5. \A K \in {Symbols, Solid} : PutIn(whole, p \o q, (m \o q) \o v, K)
  <2> TAKE K \in {Symbols, Solid}
  <2>1. PutIn((p \o q) \o r, p, m, K)
    BY <1>1, <1>4
  <2>2. PutIn((p \o q) \o r, p \o q, (m \o q) \o v, K)
    BY <1>2, <2>1, PutMore
  <2> QED BY <1>4, <2>2
<1>6. \E b \in SymbolText :
        /\ FlattenSeq(text') = b \o Unread'
        /\ \A K \in {Symbols, Solid} : PutIn(FlattenSeq(text'), b, FlattenSeq(chunks') \o current', K)
  BY <1>2, <1>3, <1>4, <1>5 DEF r
<1> QED
  BY <1>6 DEF PutInv

\* Whatever is cut, closed and reopened, what was put in is still found.
LEMMA PutStep ==
  ASSUME ChunkTyped, ChunkTyped', PutInv, [ChunkNext]_chunkVars
  PROVE  PutInv'
<1>0. <<>> \in SymbolText
  BY DEF SymbolText
<1>1. ASSUME NEW t \in Texts, Chunk(t) PROVE PutInv'
  <2>1. t \in Seq(SymbolText) /\ Len(t) \in Nat \ {0} /\ 1 \in 1..Len(t)
    BY TextsAre
  <2>2. /\ text' = t /\ line' = 1 /\ toAdd' = t[1] /\ current' = <<>> /\ chunks' = <<>>
    BY <1>1 DEF Chunk, ChunkTyped
  <2>3. Unread' = t[1] \o FlattenSeq(SubSeq(t, 1 + 1, Len(t)))
    BY <2>1, <2>2 DEF Unread, InLine
  <2>4. Unread' = FlattenSeq(SubSeq(t, 1, Len(t)))
    BY <2>1, <2>3, UnreadFrom
  <2>5. SubSeq(t, 1, Len(t)) = t
    BY <2>1, SubSeqFull
  <2>6. FlattenSeq(t) \in Seq(Symbols) /\ FlattenSeq(<<>>) = <<>>
    BY <2>1, FlattenType, FlattenEmpty DEF SymbolText
  <2>7. FlattenSeq(t) = <<>> \o FlattenSeq(t) /\ <<>> \o <<>> = <<>>
    BY <2>6, ConcatEmptySeq
  <2>8. \A K : PutIn(FlattenSeq(t), <<>>, <<>>, K)
    <3> TAKE K
    <3>1. Keep(<<>>, K) = <<>> /\ Keep(FlattenSeq(t), K) \in Seq(Symbols)
      BY <2>6, KeepEmpty, KeepType
    <3>2. <<>> \in Seq(Symbols) /\ Len(<<>>) = 0 /\ Len(Keep(FlattenSeq(t), K)) \in Nat
      BY <3>1, LenProperties
    <3>3. Found(Keep(FlattenSeq(t), K), <<>>) \in 0..Len(Keep(FlattenSeq(t), K))
      BY <3>1, <3>2, FoundType
    <3>4. Found(Keep(FlattenSeq(t), K), <<>>) >= 0
      BY <3>2, <3>3
    <3> QED BY <3>1, <3>2, <3>4 DEF PutIn
  <2>9. /\ FlattenSeq(text') = <<>> \o Unread'
        /\ \A K \in {Symbols, Solid} :
             PutIn(FlattenSeq(text'), <<>>, FlattenSeq(chunks') \o current', K)
    BY <2>2, <2>4, <2>5, <2>6, <2>7, <2>8
  <2> QED BY <1>0, <2>9 DEF PutInv
<1>2. ASSUME AddLine PROVE PutInv'
  <2>1. /\ InLine /\ UNCHANGED <<text, chunks>> /\ line # 0
        /\ current' = current \o toAdd /\ Unread' = LinesLeft
    BY <1>2, AddLineRest DEF AddLine, InLine
  <2>2. Unread = toAdd \o Unread' /\ toAdd \in SymbolText
    BY <2>1, UnreadIs DEF ChunkTyped
  <2>3. FlattenSeq(chunks') \o current' = ((FlattenSeq(chunks) \o current) \o toAdd) \o <<>>
    <3> DEFINE made == FlattenSeq(chunks)
    <3>1. made \in SymbolText /\ current \in SymbolText
      BY UnreadIs DEF ChunkTyped
    <3>2. FlattenSeq(chunks') \o current' = made \o (current \o toAdd)
      BY <2>1
    <3> HIDE DEF made
    <3>3. Regroups(made, current, toAdd) /\ (made \o current) \o toAdd \in SymbolText
      BY <2>2, <3>1, Regroup, TextConcat DEF SymbolText
    <3>4. ((made \o current) \o toAdd) \o <<>> = (made \o current) \o toAdd
      BY <3>3, ConcatEmptySeq DEF SymbolText
    <3> QED BY <3>2, <3>3, <3>4 DEF Regroups, made
  <2>4. ~Finished
    BY <2>1, InLineGoesOn
  <2> QED BY <1>0, <2>1, <2>2, <2>3, <2>4, PutTakes
<1>3. ASSUME CutChunk PROVE PutInv'
  <2> DEFINE rest == CutRest \o LinesLeft
             made == FlattenSeq(chunks)
             q == IF current = <<>> THEN CutBody ELSE <<>>
             fin == IF CutPiece = CutBody THEN <<>> ELSE Closing
  <2>1. /\ FlattenSeq(chunks') = made \o CutPiece /\ current' = Closing
        /\ Unread' = rest
    BY <1>3, CutChunkParts, CutChunkDoes
  <2>2. /\ InLine /\ ~Fits /\ UNCHANGED <<text, line>> /\ line # 0
    BY <1>3 DEF CutChunk, InLine
  <2>3. /\ CutBody \in SymbolText /\ CutRest \in SymbolText /\ CutPiece \in {CutBody, CutBody \o Closing}
        /\ current \o toAdd = CutBody \o CutRest
        /\ made \in SymbolText /\ LinesLeft \in SymbolText /\ rest \in SymbolText
        /\ Closing \in SymbolText /\ current \in SymbolText /\ toAdd \in SymbolText
        /\ Unread = toAdd \o LinesLeft
    BY <2>2, CutBodyIs, UnreadIs, TextConcat, ClosingIs DEF ChunkTyped
  <2>4. q \in SymbolText /\ fin \in SymbolText /\ fin \o Closing \in SymbolText
    BY <1>0, <2>3, TextConcat
  <2>5. current \o q = CutBody /\ toAdd = q \o CutRest
    <3>1. CASE current = <<>>
      <4>1. q = CutBody /\ current \o q = q /\ current \o toAdd = toAdd
        BY <2>3, <2>4, <3>1, ConcatEmptySeq DEF SymbolText
      <4> QED BY <2>3, <4>1
    <3>2. CASE current # <<>>
      <4>1. q = <<>> /\ CutBody = current /\ CutRest = toAdd
        BY <3>2 DEF CutBody, CutRest
      <4>2. current \o <<>> = current /\ <<>> \o toAdd = toAdd
        BY <2>3, ConcatEmptySeq DEF SymbolText
      <4> QED BY <4>1, <4>2
    <3> QED BY <3>1, <3>2
  <2>6. CutPiece = CutBody \o fin
    <3>1. CutBody \o <<>> = CutBody
      BY <2>3, ConcatEmptySeq DEF SymbolText
    <3> QED BY <2>3, <3>1
  <2> HIDE DEF q, fin, made
  <2>7. Unread = q \o Unread'
    <3>1. Regroups(q, CutRest, LinesLeft)
      BY <2>3, <2>4, Regroup DEF SymbolText
    <3> QED BY <2>1, <2>3, <2>5, <3>1 DEF Regroups
  <2>8. (made \o CutPiece) \o Closing = ((made \o current) \o q) \o (fin \o Closing)
    <3>1. Regroups(made, current, q) /\ Regroups(made, CutBody, fin)
      BY <2>3, <2>4, Regroup DEF SymbolText
    <3>2. made \o CutBody \in SymbolText
      BY <2>3, TextConcat
    <3>3. Regroups(made \o CutBody, fin, Closing)
      BY <2>3, <2>4, <3>2, Regroup DEF SymbolText
    <3>4. (made \o current) \o q = made \o CutBody
      BY <2>5, <3>1 DEF Regroups
    <3>5. made \o CutPiece = (made \o CutBody) \o fin
      BY <2>6, <3>1 DEF Regroups
    <3> QED BY <3>3, <3>4, <3>5 DEF Regroups
  <2>9. FlattenSeq(chunks') \o current' = ((FlattenSeq(chunks) \o current) \o q) \o (fin \o Closing)
    BY <2>1, <2>8 DEF made
  <2>10. ~Finished
    BY <2>2, InLineGoesOn
  <2> QED BY <2>2, <2>4, <2>7, <2>9, <2>10, PutTakes
<1>4. ASSUME LastChunk PROVE PutInv'
  <2> DEFINE fin == IF Closed THEN <<>> ELSE Closing
             all == Append(chunks, current \o fin)
             kept == Keep(all, {c \in ToSet(all) : ~Blank(c)})
             m == FlattenSeq(chunks) \o current
             whole == FlattenSeq(text)
  <2>1. /\ current \in SymbolText /\ fin \in SymbolText /\ current \o fin \in SymbolText
        /\ FlattenSeq(chunks) \in SymbolText /\ whole \in SymbolText
        /\ m \in SymbolText /\ chunks \in Seq(SymbolText)
    <3>1. Closing \in SymbolText
      BY ClosingIs DEF ChunkTyped
    <3>2. fin \in SymbolText
      BY <1>0, <3>1
    <3> QED BY <3>2, UnreadIs, TextConcat DEF ChunkTyped
  <2>2. /\ line > Len(text) /\ line # 0 /\ current # <<>> /\ current' = <<>>
        /\ chunks' = kept /\ UNCHANGED <<text, line, toAdd, fence>>
    <3>1. current \o <<>> = current
      BY <2>1, ConcatEmptySeq DEF SymbolText
    <3>2. (IF Closed THEN current ELSE current \o Closing) = current \o fin
      BY <3>1
    <3> QED BY <1>4, <3>2 DEF LastChunk
  <2> HIDE DEF fin
  <2>3. all \in Seq(SymbolText) /\ FlattenSeq(all) = m \o fin
    <3>1. all \in Seq(SymbolText) /\ FlattenSeq(all) = FlattenSeq(chunks) \o (current \o fin)
      BY <2>1, AppendProperties, FlattenAppend DEF SymbolText
    <3>2. Regroups(FlattenSeq(chunks), current, fin)
      BY <2>1, Regroup DEF SymbolText
    <3> QED BY <3>1, <3>2 DEF Regroups
  <2> HIDE DEF all
  <2>4. Keep(FlattenSeq(kept), Solid) = Keep(FlattenSeq(all), Solid) /\ kept \in Seq(SymbolText)
    <3>1. Newline \notin Solid
      BY DEF Solid
    <3> QED BY <2>3, <3>1, LastChunkKeeps, KeepType
  <2> HIDE DEF kept
  <2>5. Unread = <<>> /\ Unread' = <<>> /\ Finished'
    <3>1. Len(text) \in Nat /\ line \in Nat
      BY LenProperties DEF ChunkTyped
    <3> QED BY <2>2, <3>1 DEF Unread, InLine, Finished
  <2>6. PICK p \in SymbolText : whole = p \o <<>> /\ PutIn(whole, p, m, Solid)
    BY <2>2, <2>5 DEF PutInv
  <2>7. PutIn(whole, p, FlattenSeq(all), Solid)
    BY <2>1, <2>3, <2>6, PutStays
  <2>8. PutIn(whole, p, FlattenSeq(kept) \o <<>>, Solid)
    <3>1. FlattenSeq(kept) \o <<>> = FlattenSeq(kept)
      BY <2>4, FlattenType, ConcatEmptySeq DEF SymbolText
    <3> QED BY <2>4, <2>7, <3>1 DEF PutIn
  <2>9. /\ FlattenSeq(text') = p \o Unread'
        /\ PutIn(FlattenSeq(text'), p, FlattenSeq(chunks') \o current', Solid)
    BY <2>2, <2>5, <2>6, <2>8
  <2> QED BY <2>5, <2>9 DEF PutInv
<1>5. ASSUME UNCHANGED chunkVars PROVE PutInv'
  BY <1>5 DEF chunkVars, PutInv, Finished, Unread, InLine
<1> QED
  BY <1>1, <1>2, <1>3, <1>4, <1>5 DEF ChunkNext

\* With the rest behind what is made, all of the text is found.
LEMMA PutIsWithin ==
  ASSUME ChunkTyped, PutInv, line # 0
  PROVE  Within(There(FlattenSeq(text)), There(Made))
<1> DEFINE K == IF Finished THEN Solid ELSE Symbols
           whole == FlattenSeq(text)
           m == FlattenSeq(chunks) \o current
<1>1. PICK p \in SymbolText : whole = p \o Unread /\ PutIn(whole, p, m, K)
  BY DEF PutInv
<1>2. m \in SymbolText /\ Unread \in SymbolText /\ whole \in SymbolText /\ Made = m \o Unread
      /\ <<>> \in SymbolText
  BY UnreadIs, TextConcat DEF ChunkTyped, Made, SymbolText
<1>3. There(whole) = Keep(whole, K) /\ There(Made) = Keep(Made, K)
  BY DEF There, Solid
<1> HIDE DEF K, whole, m
<1>4. Made \in SymbolText /\ whole \o <<>> = whole /\ Made \o <<>> = Made
  <2>1. Made \in SymbolText
    BY <1>2, TextConcat
  <2> QED BY <1>2, <2>1, ConcatEmptySeq DEF SymbolText
<1>5. PutIn((p \o Unread) \o <<>>, p, m, K)
  BY <1>1, <1>4
<1>6. PutIn((p \o Unread) \o <<>>, p \o Unread, (m \o Unread) \o <<>>, K)
  BY <1>2, <1>5, PutMore
<1>7. PutIn(whole, whole, Made, K)
  BY <1>1, <1>2, <1>4, <1>6
<1>8. Keep(whole, K) \in Seq(Symbols) /\ Keep(Made, K) \in Seq(Symbols)
  BY <1>2, <1>4, KeepType DEF SymbolText
<1>9. Len(Keep(whole, K)) \in Nat
      /\ Found(Keep(whole, K), Keep(Made, K)) \in 0..Len(Keep(whole, K))
  BY <1>8, FoundType, LenProperties
<1>10. Found(Keep(whole, K), Keep(Made, K)) = Len(Keep(whole, K))
  BY <1>7, <1>9 DEF PutIn
<1> QED
  BY <1>3, <1>10 DEF Within, whole

-----------------------------------------------------------------------------
(***************************************************************************)
(* ChunkText: what was said is there, and all of a text without code       *)
(* blocks.                                                                 *)
(***************************************************************************)

\* The text as it is now: in the chunks, in the one being filled, and the rest.
Spread == FlattenSeq(chunks) \o (current \o Unread)

ExactInv == line # 0 /\ Plain /\ ~Finished => Spread = FlattenSeq(text)

\* Without code blocks nothing is added where a chunk is ended.
LEMMA ExactStep ==
  ASSUME ChunkTyped, ChunkTyped', PlainInv, ExactInv, [ChunkNext]_chunkVars
  PROVE  ExactInv'
<1>1. ASSUME NEW t \in Texts, Chunk(t) PROVE ExactInv'
  <2>1. t \in Seq(SymbolText) /\ Len(t) \in Nat \ {0} /\ 1 \in 1..Len(t)
    BY TextsAre
  <2>2. /\ text' = t /\ line' = 1 /\ toAdd' = t[1] /\ current' = <<>> /\ chunks' = <<>>
    BY <1>1 DEF Chunk, ChunkTyped
  <2>3. Unread' = t[1] \o FlattenSeq(SubSeq(t, 1 + 1, Len(t)))
    BY <2>1, <2>2 DEF Unread, InLine
  <2>4. Unread' = FlattenSeq(SubSeq(t, 1, Len(t)))
    BY <2>1, <2>3, UnreadFrom
  <2>5. SubSeq(t, 1, Len(t)) = t
    BY <2>1, SubSeqFull
  <2>6. FlattenSeq(t) \in Seq(Symbols) /\ FlattenSeq(<<>>) = <<>>
    BY <2>1, FlattenType, FlattenEmpty DEF SymbolText
  <2>7. <<>> \o FlattenSeq(t) = FlattenSeq(t)
    BY <2>6, ConcatEmptySeq
  <2>8. Spread' = <<>> \o (<<>> \o FlattenSeq(t))
    BY <2>2, <2>4, <2>5, <2>6 DEF Spread
  <2> QED BY <2>2, <2>7, <2>8 DEF ExactInv
<1>2. ASSUME AddLine PROVE ExactInv'
  <2>1. /\ InLine /\ UNCHANGED <<text, chunks>> /\ line # 0
        /\ current' = current \o toAdd /\ Unread' = LinesLeft
    BY <1>2, AddLineRest DEF AddLine, InLine
  <2>2. Unread = toAdd \o LinesLeft
    BY <2>1, UnreadIs
  <2>3. Regroups(current, toAdd, LinesLeft)
    BY UnreadIs, Regroup DEF ChunkTyped, SymbolText
  <2>4. current' \o Unread' = current \o Unread
    BY <2>1, <2>2, <2>3 DEF Regroups
  <2>5. Spread' = Spread
    BY <2>1, <2>4 DEF Spread
  <2>6. ~Finished /\ (Plain' => Plain)
    BY <2>1, InLineGoesOn DEF Plain
  <2> QED BY <2>1, <2>5, <2>6 DEF ExactInv
<1>3. ASSUME CutChunk PROVE ExactInv'
  <2> SUFFICES ASSUME Plain' PROVE Spread' = FlattenSeq(text')
    BY DEF ExactInv
  <2> DEFINE rest == CutRest \o LinesLeft
             made == FlattenSeq(chunks)
  <2>1. /\ FlattenSeq(chunks') = made \o CutPiece
        /\ current' \o Unread' = Closing \o rest
        /\ current \o Unread = CutBody \o rest
    BY <1>3, CutChunkParts
  <2>2. /\ InLine /\ ~Fits /\ UNCHANGED <<text, line>> /\ line # 0 /\ Plain
    BY <1>3 DEF CutChunk, InLine, Plain
  <2>3. Closing = <<>>
    BY <2>2, ClosingIs DEF PlainInv, ChunkTyped
  <2>4. /\ CutBody \in SymbolText /\ CutPiece \in {CutBody, CutBody \o Closing}
        /\ made \in SymbolText /\ rest \in SymbolText
    BY <2>2, CutBodyIs, UnreadIs, TextConcat
  <2> HIDE DEF rest, made
  <2>5. CutPiece = CutBody /\ Closing \o rest = rest
    BY <2>3, <2>4, ConcatEmptySeq DEF SymbolText
  <2>6. Regroups(made, CutBody, rest)
    BY <2>4, Regroup DEF SymbolText
  <2>7. Spread' = (made \o CutBody) \o rest
    BY <2>1, <2>5 DEF Spread
  <2>8. Spread = made \o (CutBody \o rest)
    BY <2>1 DEF Spread, made
  <2>9. ~Finished
    BY <2>2, InLineGoesOn
  <2> QED BY <2>2, <2>6, <2>7, <2>8, <2>9 DEF ExactInv, Regroups
<1>4. ASSUME LastChunk PROVE ExactInv'
  <2>1. Finished'
    BY <1>4 DEF LastChunk, Finished
  <2> QED BY <2>1 DEF ExactInv
<1>5. ASSUME UNCHANGED chunkVars PROVE ExactInv'
  BY <1>5 DEF chunkVars, ExactInv, Spread, Plain, Finished, Unread, InLine
<1> QED
  BY <1>1, <1>2, <1>3, <1>4, <1>5 DEF ChunkNext

\* transport.py:37-59: however an answer is cut into messages, and code blocks
\* closed and reopened, its characters are in them, each once and in order, and
\* no others.  It is found there with its newlines and its own fences, and without
\* code blocks nothing else is, until the chunks that are only newlines are dropped.
THEOREM CuttingSaysAll == ChunkSpec => []NothingCutOut
<1>1. ChunkTyped /\ SaidInv /\ ExactInv /\ PutInv => NothingCutOut
  <2> SUFFICES ASSUME ChunkTyped, SaidInv, ExactInv, PutInv, line # 0
               PROVE  /\ Letters(Made) = Letters(FlattenSeq(text))
                      /\ Within(There(FlattenSeq(text)), There(Made))
                      /\ Plain /\ ~Finished => Made = FlattenSeq(text)
    BY DEF NothingCutOut
  <2>1. FlattenSeq(chunks) \in SymbolText /\ current \in SymbolText /\ Unread \in SymbolText
    BY UnreadIs DEF ChunkTyped
  <2>2. Regroups(FlattenSeq(chunks), current, Unread)
    BY <2>1, Regroup DEF SymbolText
  <2>3. Made = Spread
    BY <2>2 DEF Regroups, Made, Spread
  <2>4. current \o Unread \in SymbolText
    BY <2>1, TextConcat
  <2>5. Letters(Spread) = SaidLetters
    <3>1. SaysBoth(FlattenSeq(chunks), current \o Unread)
      BY <2>1, <2>4, LettersConcat
    <3> QED BY <3>1 DEF SaysBoth, SaidLetters, Spread
  <2>6. Within(There(FlattenSeq(text)), There(Made))
    BY PutIsWithin
  <2> QED BY <2>3, <2>5, <2>6 DEF SaidInv, ExactInv
<1>2. ASSUME ChunkTyped, SaidInv, PlainInv, ExactInv, PutInv, [ChunkNext]_chunkVars
      PROVE  ChunkTyped' /\ SaidInv' /\ PlainInv' /\ ExactInv' /\ PutInv'
  BY <1>2, ChunkTypedStep, SaidStep, PlainStep, ExactStep, PutStep
<1>3. ChunkInit => PlainInv /\ ExactInv /\ PutInv
  BY DEF ChunkInit, PlainInv, ExactInv, PutInv
<1> QED
  BY <1>1, <1>2, <1>3, ChunkTypedInit, SaidInit, PTL DEF ChunkSpec

-----------------------------------------------------------------------------
(***************************************************************************)
(* JsonStream: what is stripped from a text.                               *)
(***************************************************************************)

JsonText == Seq(Alphabet)
Blanks == Seq(White)

\* A set of numbers has a least one.
LEMMA MinIs ==
  ASSUME NEW S \in SUBSET Nat, S # {}
  PROVE  Min(S) \in S /\ \A y \in S : Min(S) <= y
<1>1. PICK m \in S : \A y \in S : <<y, m>> \notin OpToRel(<, Nat)
  BY NatLessThanWellFounded, WFMin
<1>2. \A y \in S : m <= y
  <2> SUFFICES ASSUME NEW y \in S, ~(m <= y) PROVE FALSE
    OBVIOUS
  <2>1. y \in Nat /\ m \in Nat /\ y < m
    OBVIOUS
  <2>2. <<y, m>> \in OpToRel(<, Nat)
    BY <2>1 DEF OpToRel
  <2> QED BY <1>1, <2>2
<1> QED
  BY <1>2 DEF Min

\* A set of numbers that is bounded has a greatest one.
LEMMA MaxIs ==
  ASSUME NEW n \in Nat, NEW S \in SUBSET (1..n), S # {}
  PROVE  Max(S) \in S /\ \A y \in S : y <= Max(S)
<1> DEFINE R == {n - y : y \in S}
<1>1. R \in SUBSET Nat /\ R # {}
  <2>1. \A y \in S : n - y \in Nat
    OBVIOUS
  <2>2. PICK y \in S : TRUE
    OBVIOUS
  <2>3. n - y \in R
    BY <2>2
  <2> QED BY <2>1, <2>3
<1>2. PICK m \in R : \A r \in R : m <= r
  <2> HIDE DEF R
  <2> QED BY <1>1, MinIs
<1>3. PICK x \in S : m = n - x
  BY <1>2
<1>4. \A y \in S : y \in Int /\ m <= n - y
  BY <1>2
<1>5. \A y \in S : x >= y
  BY <1>3, <1>4
<1>6. Max(S) \in S /\ \A y \in S : Max(S) >= y
  BY <1>5 DEF Max
<1> QED
  BY <1>6

LEMMA BlankIsText ==
  ASSUME NEW v \in Blanks
  PROVE  v \in JsonText
BY SeqMonotonic DEF Blanks, JsonText, Alphabet

\* White space has no ink.
LEMMA BlankInk ==
  ASSUME NEW v \in Blanks
  PROVE  Ink(v) = <<>>
<1>1. \A i \in 1..Len(v) : v[i] \notin Alphabet \ White
  BY ElementOfSeq DEF Blanks
<1> QED
  BY <1>1, KeepNone, BlankIsText DEF Ink, JsonText

\* Ink of two texts; for two texts to be named.
InkOfBoth(s, t) ==
  /\ Ink(s \o t) = Ink(s) \o Ink(t) /\ s \o t \in JsonText
  /\ Ink(s) \in JsonText /\ Ink(t) \in JsonText

LEMMA InkConcat ==
  ASSUME NEW s \in JsonText, NEW t \in JsonText
  PROVE  InkOfBoth(s, t)
<1> DEFINE K == Alphabet \ White
<1>1. s \in Seq(Alphabet) /\ t \in Seq(Alphabet)
  BY DEF JsonText
<1>2. s \o t \in Seq(Alphabet)
  BY <1>1, ConcatProperties
<1> HIDE DEF K
<1>3. Keep(s \o t, K) = Keep(s, K) \o Keep(t, K)
  BY <1>1, KeepConcat
<1>4. Keep(s, K) \in Seq(Alphabet) /\ Keep(t, K) \in Seq(Alphabet)
  BY <1>1, KeepType
<1> QED
  BY <1>2, <1>3, <1>4 DEF InkOfBoth, Ink, JsonText, K

\* White space in front of a text adds no ink, nor does any after it.
LEMMA InkOfPadded ==
  ASSUME NEW v \in Blanks, NEW s \in JsonText
  PROVE  Ink(v \o s) = Ink(s) /\ Ink(s \o v) = Ink(s) /\ Ink(s) \in JsonText
<1>1. InkOfBoth(v, s) /\ InkOfBoth(s, v)
  BY BlankIsText, InkConcat
<1>2. Ink(v) = <<>>
  BY BlankInk
<1>3. Ink(s) \in Seq(Alphabet) /\ Ink(v \o s) = <<>> \o Ink(s) /\ Ink(s \o v) = Ink(s) \o <<>>
  BY <1>1, <1>2 DEF InkOfBoth, JsonText
<1> QED
  BY <1>3, ConcatEmptySeq DEF JsonText

\* A text without ink is white space.
LEMMA NoInkIsBlank ==
  ASSUME NEW s \in JsonText, InkAt(s) = {}
  PROVE  s \in Blanks
<1>1. Len(s) \in Nat /\ DOMAIN s = 1..Len(s) /\ s \in [1..Len(s) -> Alphabet]
  BY LenProperties DEF JsonText
<1>2. \A i \in 1..Len(s) : s[i] \in White
  BY <1>1 DEF InkAt
<1> QED
  BY <1>1, <1>2 DEF Blanks

\* Any other is white space, then what lstrip leaves of it, which begins with
\* ink; and that is what strip leaves of it, which ends with ink, and white space.
LEMMA StripIs ==
  ASSUME NEW s \in JsonText, InkAt(s) # {}
  PROVE  LET m == Min(InkAt(s))
             n == Max(InkAt(s)) IN
         /\ m \in 1..Len(s) /\ n \in m..Len(s) /\ s[m] \notin White /\ s[n] \notin White
         /\ SubSeq(s, 1, m - 1) \in Blanks /\ SubSeq(s, n + 1, Len(s)) \in Blanks
         /\ LStrip(s) = SubSeq(s, m, Len(s)) /\ Strip(s) = SubSeq(s, m, n)
         /\ LStrip(s) \in JsonText \ {<<>>} /\ Strip(s) \in JsonText \ {<<>>}
         /\ s = SubSeq(s, 1, m - 1) \o LStrip(s)
         /\ LStrip(s) = Strip(s) \o SubSeq(s, n + 1, Len(s))
<1> DEFINE S == InkAt(s)
           m == Min(S)
           n == Max(S)
<1>1. Len(s) \in Nat /\ DOMAIN s = 1..Len(s) /\ s \in Seq(Alphabet) /\ \A i \in 1..Len(s) : s[i] \in Alphabet
  BY LenProperties, ElementOfSeq DEF JsonText
<1>2. S \in SUBSET (1..Len(s)) /\ S \in SUBSET Nat /\ S # {}
  BY <1>1 DEF InkAt
<1>3. \A i \in 1..Len(s) : i \notin S => s[i] \in White
  BY <1>1 DEF InkAt
<1>4. \A i \in S : s[i] \notin White
  BY DEF InkAt
<1> HIDE DEF S
<1>5. m \in S /\ \A y \in S : m <= y
  BY <1>2, MinIs
<1>6. n \in S /\ \A y \in S : y <= n
  BY <1>1, <1>2, MaxIs
<1> HIDE DEF m, n
<1>7. m \in 1..Len(s) /\ n \in m..Len(s) /\ s[m] \notin White /\ s[n] \notin White
  BY <1>2, <1>4, <1>5, <1>6
<1>8. SubSeq(s, 1, m - 1) \in Blanks
  <2>1. \A i \in 1..(m - 1) : s[i] \in White
    BY <1>1, <1>3, <1>5, <1>7
  <2> QED BY <1>7, <2>1, SubSeqProperties DEF Blanks
<1>9. SubSeq(s, n + 1, Len(s)) \in Blanks
  <2>1. \A i \in (n + 1)..Len(s) : s[i] \in White
    BY <1>1, <1>3, <1>6, <1>7
  <2> QED BY <1>1, <1>7, <2>1, SubSeqProperties DEF Blanks
<1>10. LStrip(s) = SubSeq(s, m, Len(s)) /\ Strip(s) = SubSeq(s, m, n)
  BY <1>2 DEF LStrip, Strip, S, m, n
<1>11. /\ SubSeq(s, m, Len(s)) \in Seq(Alphabet) /\ Len(SubSeq(s, m, Len(s))) = Len(s) - m + 1
       /\ SubSeq(s, m, n) \in Seq(Alphabet) /\ Len(SubSeq(s, m, n)) = n - m + 1
  <2>1. m \in Int /\ n \in Int /\ Len(s) \in Int /\ m <= Len(s) /\ m <= n
    BY <1>1, <1>7
  <2>2. (\A i \in m..Len(s) : s[i] \in Alphabet) /\ (\A i \in m..n : s[i] \in Alphabet)
    BY <1>1, <1>7
  <2> QED BY <2>1, <2>2, SubSeqProperties
<1>12. SubSeq(s, m, Len(s)) # <<>> /\ SubSeq(s, m, n) # <<>>
  <2>1. Len(SubSeq(s, m, Len(s))) # 0 /\ Len(SubSeq(s, m, n)) # 0
    BY <1>1, <1>7, <1>11
  <2> QED BY <2>1, EmptySeq
<1>13. s = SubSeq(s, 1, m - 1) \o SubSeq(s, m, Len(s))
  <2>1. m - 1 \in 0..Len(s) /\ (m - 1) + 1 = m
    BY <1>1, <1>7
  <2>2. s = SubSeq(s, 1, m - 1) \o SubSeq(s, (m - 1) + 1, Len(s))
    BY <1>1, <2>1, Split, Zenon
  <2> QED BY <2>1, <2>2, Zenon
<1>14. SubSeq(s, m, Len(s)) = SubSeq(s, m, n) \o SubSeq(s, n + 1, Len(s))
  <2>1. m \in 1..(Len(s) + 1) /\ n \in (m - 1)..Len(s) /\ Len(s) \in n..Len(s)
    BY <1>1, <1>7
  <2> QED BY <1>1, <2>1, ConcatAdjacentSubSeq
<1> QED
  BY <1>7, <1>8, <1>9, <1>10, <1>11, <1>12, <1>13, <1>14 DEF m, n, S, JsonText

\* Nothing but white space is stripped.
LEMMA StripInk ==
  ASSUME NEW s \in JsonText
  PROVE  /\ LStrip(s) \in JsonText /\ Strip(s) \in JsonText
         /\ Ink(LStrip(s)) = Ink(s) /\ Ink(Strip(s)) = Ink(s)
         /\ Len(LStrip(s)) <= Len(s)
<1>1. CASE InkAt(s) = {}
  <2>1. LStrip(s) = <<>> /\ Strip(s) = <<>> /\ s \in Blanks /\ <<>> \in Blanks
    BY <1>1, NoInkIsBlank DEF LStrip, Strip, Blanks
  <2>2. Ink(s) = <<>> /\ Ink(<<>>) = <<>> /\ <<>> \in JsonText /\ Len(<<>>) = 0 /\ Len(s) \in Nat
    BY <2>1, BlankInk, BlankIsText, EmptySeq, LenProperties DEF JsonText
  <2> QED BY <2>1, <2>2
<1>2. CASE InkAt(s) # {}
  <2> DEFINE m == Min(InkAt(s))
             n == Max(InkAt(s))
             front == SubSeq(s, 1, m - 1)
             back == SubSeq(s, n + 1, Len(s))
  <2>1. /\ front \in Blanks /\ back \in Blanks
        /\ LStrip(s) \in JsonText /\ Strip(s) \in JsonText
        /\ s = front \o LStrip(s) /\ LStrip(s) = Strip(s) \o back
    BY <1>2, StripIs
  <2> HIDE DEF front, back
  <2>2. Ink(s) = Ink(LStrip(s))
    <3>1. Ink(front \o LStrip(s)) = Ink(LStrip(s))
      BY <2>1, InkOfPadded
    <3> QED BY <2>1, <3>1
  <2>3. Ink(LStrip(s)) = Ink(Strip(s))
    <3>1. Ink(Strip(s) \o back) = Ink(Strip(s))
      BY <2>1, InkOfPadded
    <3> QED BY <2>1, <3>1
  <2>4. Len(front \o LStrip(s)) = Len(front) + Len(LStrip(s)) /\ Len(front) \in Nat /\ Len(LStrip(s)) \in Nat
    BY <2>1, BlankIsText, ConcatProperties, LenProperties DEF JsonText
  <2>5. Len(s) = Len(front) + Len(LStrip(s))
    BY <2>1, <2>4
  <2> QED BY <2>1, <2>2, <2>3, <2>4, <2>5
<1> QED
  BY <1>1, <1>2

-----------------------------------------------------------------------------
(***************************************************************************)
(* JsonStream: the loops of _JsonStreamBuffer.                             *)
(***************************************************************************)

\* One turn of either loop, and the turns of one over a buffer.
LoopTurn(d, what) == IF what = "lines" THEN TakeLine(d) ELSE TakeObject(d)
Whole(s) == [taken |-> <<>>, rest |-> s]

LoopTurns(f, s, what, k) == f = [n \in 0..k |-> IF n = 0 THEN Whole(s) ELSE LoopTurn(f[n - 1], what)]
Turned(s, what) == CHOOSE f : LoopTurns(f, s, what, Len(s))

LEMMA TurnsExist ==
  ASSUME NEW s, NEW what, NEW k \in Nat
  PROVE  \E f : LoopTurns(f, s, what, k)
<1> DEFINE E == {j \in Nat : \E g : LoopTurns(g, s, what, j)}
<1>1. 0 \in E
  <2> DEFINE h == [n \in 0..0 |-> Whole(s)]
  <2>1. h = [n \in 0..0 |-> IF n = 0 THEN Whole(s) ELSE LoopTurn(h[n - 1], what)]
    OBVIOUS
  <2> HIDE DEF h
  <2>2. LoopTurns(h, s, what, 0)
    BY <2>1 DEF LoopTurns
  <2> QED BY <2>2
<1>2. ASSUME NEW j \in Nat, j \in E PROVE j + 1 \in E
  <2>1. PICK g : LoopTurns(g, s, what, j)
    BY <1>2
  <2>2. g = [n \in 0..j |-> IF n = 0 THEN Whole(s) ELSE LoopTurn(g[n - 1], what)]
    BY <2>1 DEF LoopTurns
  <2> DEFINE h == [n \in 0..(j + 1) |-> IF n <= j THEN g[n] ELSE LoopTurn(g[n - 1], what)]
  <2>3. ASSUME NEW n \in 0..(j + 1)
        PROVE  h[n] = IF n = 0 THEN Whole(s) ELSE LoopTurn(h[n - 1], what)
    <3>1. CASE n = 0
      BY <2>2, <3>1
    <3>2. CASE n # 0
      <4>1. n - 1 \in 0..j /\ n - 1 \in 0..(j + 1) /\ n - 1 <= j
        BY <3>2
      <4>2. h[n - 1] = g[n - 1]
        BY <4>1
      <4>3. CASE n <= j
        <5>1. h[n] = g[n] /\ n \in 0..j
          BY <4>3
        <5>2. g[n] = LoopTurn(g[n - 1], what)
          BY <2>2, <5>1, <3>2, Zenon
        <5> QED BY <5>1, <5>2, <4>2, <3>2
      <4>4. CASE ~(n <= j)
        BY <4>4, <4>2, <3>2
      <4> QED BY <4>3, <4>4
    <3> QED BY <3>1, <3>2
  <2>4. h = [n \in 0..(j + 1) |-> IF n = 0 THEN Whole(s) ELSE LoopTurn(h[n - 1], what)]
    BY <2>3
  <2> HIDE DEF h
  <2>5. LoopTurns(h, s, what, j + 1)
    BY <2>4 DEF LoopTurns
  <2> QED BY <2>5
<1>3. Nat \subseteq E
  BY <1>1, <1>2, Induction
<1> QED
  BY <1>3

LEMMA DrainIsTurned ==
  ASSUME NEW s, NEW what
  PROVE  Drain(s, what) = Turned(s, what)[Len(s)]
BY DEF Drain, Turned, LoopTurns, LoopTurn, Whole

\* What holds of the whole buffer, and after each turn if before it, holds of
\* what a loop ends with.  A pair in J is the number of turns and what they left.
LEMMA DrainReaches ==
  ASSUME NEW s \in JsonText, NEW what, NEW J, <<0, Whole(s)>> \in J,
         \A k \in 0..(Len(s) - 1) : \A d : <<k, d>> \in J => <<k + 1, LoopTurn(d, what)>> \in J
  PROVE  <<Len(s), Drain(s, what)>> \in J
<1>1. Len(s) \in Nat
  BY LenProperties DEF JsonText
<1> DEFINE f == Turned(s, what)
           E == {k \in Nat : k <= Len(s) => <<k, f[k]>> \in J}
<1>2. LoopTurns(f, s, what, Len(s))
  BY <1>1, TurnsExist DEF Turned
<1>3. \A n \in 0..Len(s) : f[n] = IF n = 0 THEN Whole(s) ELSE LoopTurn(f[n - 1], what)
  BY <1>2, Zenon DEF LoopTurns
<1> HIDE DEF f
<1>4. 0 \in E
  <2>1. 0 \in 0..Len(s)
    BY <1>1
  <2>2. f[0] = Whole(s)
    BY <1>3, <2>1
  <2> QED BY <2>2
<1>5. ASSUME NEW k \in Nat, k \in E PROVE k + 1 \in E
  <2> SUFFICES ASSUME k + 1 <= Len(s) PROVE <<k + 1, f[k + 1]>> \in J
    OBVIOUS
  <2>1. k + 1 \in 0..Len(s) /\ k + 1 # 0 /\ (k + 1) - 1 = k /\ k \in 0..(Len(s) - 1) /\ k <= Len(s)
    BY <1>1
  <2>2. f[k + 1] = LoopTurn(f[k], what)
    BY <1>3, <2>1
  <2>3. <<k, f[k]>> \in J
    BY <1>5, <2>1
  <2> QED BY <2>1, <2>2, <2>3
<1>6. Nat \subseteq E
  <2> HIDE DEF E
  <2> QED BY <1>4, <1>5, Induction
<1>7. <<Len(s), f[Len(s)]>> \in J
  BY <1>1, <1>6
<1> QED
  BY <1>7, DrainIsTurned DEF f

\* The same, when the number of turns does not matter.
LEMMA DrainStays ==
  ASSUME NEW s \in JsonText, NEW what, NEW I, Whole(s) \in I, \A d \in I : LoopTurn(d, what) \in I
  PROVE  Drain(s, what) \in I
<1> DEFINE J == Nat \X I
<1>1. Len(s) \in Nat
  BY LenProperties DEF JsonText
<1>2. <<0, Whole(s)>> \in J
  OBVIOUS
<1>3. \A k \in 0..(Len(s) - 1) : \A d : <<k, d>> \in J => <<k + 1, LoopTurn(d, what)>> \in J
  BY <1>1
<1> HIDE DEF J
<1>4. <<Len(s), Drain(s, what)>> \in J
  BY <1>2, <1>3, DrainReaches
<1> QED
  BY <1>4 DEF J

-----------------------------------------------------------------------------
(***************************************************************************)
(* JsonStream: no ink is lost, repeated or moved.                          *)
(***************************************************************************)

Bufs == [taken : Seq(JsonText), rest : JsonText]

\* The ink of what has been taken from a buffer and of what is left in it.
InkOf(d) == Ink(FlattenSeq(d.taken)) \o Ink(d.rest)

\* A record taken from the front of a buffer is the ink of the front.
LEMMA TakenInk ==
  ASSUME NEW d \in Bufs, NEW front \in JsonText, NEW left \in JsonText,
         NEW new \in JsonText, Ink(new) = Ink(front), Ink(d.rest) = Ink(front) \o Ink(left)
  PROVE  /\ Append(d.taken, new) \in Seq(JsonText)
         /\ Ink(FlattenSeq(Append(d.taken, new))) \o Ink(left) = InkOf(d)
<1> DEFINE made == FlattenSeq(d.taken)
<1>1. d.taken \in Seq(JsonText) /\ made \in JsonText
  BY FlattenType DEF Bufs, JsonText
<1>2. Append(d.taken, new) \in Seq(JsonText) /\ FlattenSeq(Append(d.taken, new)) = made \o new
  BY <1>1, AppendProperties, FlattenAppend DEF JsonText
<1> HIDE DEF made
<1>3. InkOfBoth(made, new) /\ InkOfBoth(front, left)
  BY <1>1, InkConcat
<1>4. Regroups(Ink(made), Ink(front), Ink(left))
  BY <1>3, Regroup DEF InkOfBoth, JsonText
<1>5. Ink(FlattenSeq(Append(d.taken, new))) = Ink(made) \o Ink(front)
  BY <1>2, <1>3 DEF InkOfBoth
<1> QED
  BY <1>2, <1>4, <1>5 DEF InkOf, Regroups, made

\* A buffer without newlines, and one that begins with a line.
LEMMA FirstNewline ==
  ASSUME NEW s \in JsonText, Newlines(s) # {}
  PROVE  LET end == Min(Newlines(s)) IN
         /\ end \in 1..Len(s) /\ s[end] = "newline"
         /\ \A i \in 1..(end - 1) : s[i] # "newline"
         /\ SubSeq(s, 1, end - 1) \in JsonText /\ SubSeq(s, end + 1, Len(s)) \in JsonText
         /\ Len(SubSeq(s, 1, end - 1)) = end - 1
         /\ Len(SubSeq(s, end + 1, Len(s))) = Len(s) - end
         /\ s = SubSeq(s, 1, end - 1) \o (<<"newline">> \o SubSeq(s, end + 1, Len(s)))
<1> DEFINE S == Newlines(s)
           end == Min(S)
<1>1. Len(s) \in Nat /\ DOMAIN s = 1..Len(s) /\ s \in Seq(Alphabet)
  BY LenProperties DEF JsonText
<1>2. S \in SUBSET Nat /\ S # {} /\ S \in SUBSET (1..Len(s))
  BY <1>1 DEF Newlines
<1>3. \A i \in 1..Len(s) : i \in S <=> s[i] = "newline"
  BY <1>1 DEF Newlines
<1> HIDE DEF S
<1>4. end \in S /\ \A y \in S : end <= y
  BY <1>2, MinIs
<1> HIDE DEF end
<1>5. end \in 1..Len(s) /\ s[end] = "newline"
  BY <1>2, <1>3, <1>4
<1>6. \A i \in 1..(end - 1) : s[i] # "newline"
  BY <1>1, <1>3, <1>4, <1>5
<1>7. end \in 0..Len(s) /\ end - 1 \in 0..Len(s) /\ (end - 1) + 1 = end
  BY <1>1, <1>5
<1>8. /\ SubSeq(s, end + 1, Len(s)) \in Seq(Alphabet)
      /\ Len(SubSeq(s, end + 1, Len(s))) = Len(s) - end
  BY <1>1, <1>7, Split
<1>9. /\ s = SubSeq(s, 1, end - 1) \o SubSeq(s, (end - 1) + 1, Len(s))
      /\ SubSeq(s, 1, end - 1) \in Seq(Alphabet)
      /\ Len(SubSeq(s, 1, end - 1)) = end - 1
  BY <1>1, <1>7, Split, Zenon
<1>10. SubSeq(s, end, Len(s)) = <<s[end]>> \o SubSeq(s, end + 1, Len(s))
  <2>1. Len(s) \in end..Len(s)
    BY <1>1, <1>5
  <2> QED BY <1>1, <1>5, <2>1, SubSeqRecursiveFirst
<1> QED
  BY <1>5, <1>6, <1>7, <1>8, <1>9, <1>10, Zenon DEF end, S, JsonText

\* A turn of _drain_lines.
LEMMA TakeLineInk ==
  ASSUME NEW d \in Bufs
  PROVE  TakeLine(d) \in Bufs /\ InkOf(TakeLine(d)) = InkOf(d)
<1> DEFINE s == d.rest
           end == Min(Newlines(s))
           front == SubSeq(s, 1, end - 1)
           left == SubSeq(s, end + 1, Len(s))
           line_ == Strip(front)
<1>1. CASE Newlines(s) = {}
  BY <1>1 DEF TakeLine
<1>2. CASE Newlines(s) # {}
  <2>0. s \in JsonText /\ d.taken \in Seq(JsonText)
    BY DEF Bufs
  <2>1. front \in JsonText /\ left \in JsonText /\ s = front \o (<<"newline">> \o left)
    BY <1>2, <2>0, FirstNewline
  <2>2. TakeLine(d) = [taken |-> IF line_ = <<>> THEN d.taken ELSE Append(d.taken, line_), rest |-> left]
    BY <1>2 DEF TakeLine
  <2> HIDE DEF front, left
  <2>3. line_ \in JsonText /\ Ink(line_) = Ink(front)
    BY <2>1, StripInk
  <2> HIDE DEF line_
  <2>4. Ink(s) = Ink(front) \o Ink(left)
    <3>1. <<"newline">> \in Blanks
      BY DEF Blanks, White
    <3>2. Ink(<<"newline">> \o left) = Ink(left) /\ <<"newline">> \o left \in JsonText
      BY <2>1, <3>1, BlankIsText, InkOfPadded, InkConcat DEF InkOfBoth
    <3>3. InkOfBoth(front, <<"newline">> \o left)
      BY <2>1, <3>2, InkConcat
    <3> QED BY <2>1, <3>2, <3>3 DEF InkOfBoth
  <2>5. CASE line_ = <<>>
    <3>1. Ink(front) = <<>>
      BY <2>3, <2>5, KeepEmpty DEF Ink
    <3>2. Ink(left) \in Seq(Alphabet)
      BY <2>1, StripInk, KeepType DEF Ink, JsonText
    <3>3. Ink(s) = Ink(left)
      BY <2>4, <3>1, <3>2, ConcatEmptySeq
    <3>4. TakeLine(d).taken = d.taken /\ TakeLine(d).rest = left /\ TakeLine(d) \in Bufs
      BY <2>0, <2>1, <2>2, <2>5 DEF Bufs
    <3> QED BY <3>3, <3>4 DEF InkOf
  <2>6. CASE line_ # <<>>
    <3>1. /\ Append(d.taken, line_) \in Seq(JsonText)
          /\ Ink(FlattenSeq(Append(d.taken, line_))) \o Ink(left) = InkOf(d)
      BY <2>1, <2>3, <2>4, TakenInk
    <3>2. TakeLine(d).taken = Append(d.taken, line_) /\ TakeLine(d).rest = left
      BY <2>2, <2>6
    <3>3. TakeLine(d) \in Bufs
      BY <2>1, <2>2, <2>6, <3>1 DEF Bufs
    <3> QED BY <3>1, <3>2, <3>3 DEF InkOf
  <2> QED BY <2>5, <2>6
<1> QED
  BY <1>1, <1>2

\* Where an object ends is a place in the text.
LEMMA ObjectEndIs ==
  ASSUME NEW s \in JsonText
  PROVE  /\ ObjectEnd(s) \in 0..Len(s)
         /\ ObjectEnd(s) # 0 =>
              /\ s[1] = "{" /\ Closes(s, ObjectEnd(s))
              /\ \A i \in 1..(ObjectEnd(s) - 1) : ~Closes(s, i)
         /\ ObjectEnd(s) = 0 => \A i \in 1..Len(s) : ~(s[1] = "{" /\ Closes(s, i))
<1> DEFINE EndsAt(i) == s[1] = "{" /\ Closes(s, i)
           ends == {i \in DOMAIN s : EndsAt(i)}
<1>1. Len(s) \in Nat /\ DOMAIN s = 1..Len(s)
  BY LenProperties DEF JsonText
<1>2. ObjectEnd(s) = IF ends = {} THEN 0 ELSE Min(ends)
  BY DEF ObjectEnd
<1> HIDE DEF EndsAt
<1>3. ends \in SUBSET Nat /\ \A i : i \in ends <=> i \in 1..Len(s) /\ EndsAt(i)
  BY <1>1
<1> HIDE DEF ends
<1>4. ObjectEnd(s) = 0 => \A i \in 1..Len(s) : ~EndsAt(i)
  <2>1. CASE ends = {}
    BY <1>3, <2>1
  <2>2. CASE ends # {}
    <3>1. Min(ends) \in ends
      BY <1>3, <2>2, MinIs
    <3>2. ObjectEnd(s) \in 1..Len(s)
      BY <1>2, <1>3, <2>2, <3>1
    <3> QED BY <1>1, <3>2
  <2> QED BY <2>1, <2>2
<1>5. ObjectEnd(s) # 0 =>
        /\ ObjectEnd(s) \in 1..Len(s) /\ EndsAt(ObjectEnd(s))
        /\ \A i \in 1..(ObjectEnd(s) - 1) : ~EndsAt(i)
  <2> SUFFICES ASSUME ObjectEnd(s) # 0
      PROVE  /\ ObjectEnd(s) \in 1..Len(s) /\ EndsAt(ObjectEnd(s))
             /\ \A i \in 1..(ObjectEnd(s) - 1) : ~EndsAt(i)
    OBVIOUS
  <2>1. ends # {} /\ ObjectEnd(s) = Min(ends)
    BY <1>2
  <2>2. Min(ends) \in ends /\ \A y \in ends : Min(ends) <= y
    BY <1>3, <2>1, MinIs
  <2> HIDE DEF Min
  <2>3. ObjectEnd(s) \in 1..Len(s) /\ EndsAt(ObjectEnd(s))
    BY <1>3, <2>1, <2>2
  <2>4. ASSUME NEW i \in 1..(ObjectEnd(s) - 1) PROVE ~EndsAt(i)
    <3>1. i \in 1..Len(s) /\ ~(ObjectEnd(s) <= i)
      BY <1>1, <2>3
    <3> QED BY <1>3, <2>1, <2>2, <3>1
  <2> QED BY <2>3, <2>4
<1>6. ObjectEnd(s) \in 0..Len(s)
  BY <1>1, <1>5
<1>7. ObjectEnd(s) # 0 => s[1] = "{"
  BY <1>5 DEF EndsAt
<1>8. ObjectEnd(s) # 0 => Closes(s, ObjectEnd(s))
  BY <1>5 DEF EndsAt
<1>9. ObjectEnd(s) # 0 => \A i \in 1..(ObjectEnd(s) - 1) : ~Closes(s, i)
  BY <1>5, <1>7, Zenon DEF EndsAt
<1>10. ObjectEnd(s) = 0 => \A i \in 1..Len(s) : ~(s[1] = "{" /\ Closes(s, i))
  BY <1>4, Zenon DEF EndsAt
<1> QED
  BY <1>6, <1>7, <1>8, <1>9, <1>10, Zenon

\* The spaces that are put back.
LEMMA SpacesAre ==
  ASSUME NEW n \in Nat
  PROVE  [i \in 1..n |-> "space"] \in Blanks /\ Len([i \in 1..n |-> "space"]) = n
BY DEF Blanks, White

\* A turn of _drain_json_objects.
LEMMA TakeObjectInk ==
  ASSUME NEW d \in Bufs
  PROVE  TakeObject(d) \in Bufs /\ InkOf(TakeObject(d)) = InkOf(d)
<1> DEFINE s == d.rest
           bare == LStrip(s)
           end == ObjectEnd(bare)
           obj == SubSeq(bare, 1, end)
           left == SubSeq(bare, end + 1, Len(bare))
           spaces == [i \in 1..(Len(s) - Len(bare)) |-> "space"]
<1>0. s \in JsonText /\ d.taken \in Seq(JsonText)
  BY DEF Bufs
<1>1. bare \in JsonText /\ Ink(bare) = Ink(s) /\ Len(bare) <= Len(s) /\ Len(s) \in Nat /\ Len(bare) \in Nat
  BY <1>0, StripInk, LenProperties DEF JsonText
<1>2. end \in 0..Len(bare)
  BY <1>1, ObjectEndIs
<1>3. /\ bare = <<>> => TakeObject(d) = [d EXCEPT !.rest = <<>>]
      /\ bare # <<>> /\ end = 0 => TakeObject(d) = d
      /\ bare # <<>> /\ end # 0 => TakeObject(d) = [taken |-> Append(d.taken, obj), rest |-> spaces \o left]
  BY DEF TakeObject
<1> HIDE DEF bare, end
<1>4. CASE bare = <<>>
  <2>1. Ink(s) = Ink(<<>>) /\ <<>> \in JsonText
    BY <1>1, <1>4
  <2>2. TakeObject(d).taken = d.taken /\ TakeObject(d).rest = <<>> /\ TakeObject(d) \in Bufs
    BY <1>0, <1>3, <1>4, <2>1 DEF Bufs
  <2> QED BY <2>1, <2>2 DEF InkOf
<1>5. CASE bare # <<>> /\ end = 0
  BY <1>3, <1>5
<1>6. CASE bare # <<>> /\ end # 0
  <2>1. bare = obj \o left /\ obj \in JsonText /\ left \in JsonText
    <3>1. bare \in Seq(Alphabet)
      BY <1>1 DEF JsonText
    <3>2. obj \in Seq(Alphabet) /\ left \in Seq(Alphabet)
      BY <1>2, <3>1, Split, Zenon
    <3>3. bare = obj \o left
      BY <1>2, <3>1, Split, Zenon
    <3> QED BY <3>2, <3>3 DEF JsonText
  <2>2. spaces \in Blanks
    <3>1. Len(s) - Len(bare) \in Nat
      BY <1>1
    <3> QED BY <3>1, SpacesAre
  <2> HIDE DEF obj, left, spaces
  <2>3. Ink(spaces \o left) = Ink(left) /\ spaces \o left \in JsonText
    BY <2>1, <2>2, BlankIsText, InkOfPadded, InkConcat DEF InkOfBoth
  <2>4. Ink(s) = Ink(obj) \o Ink(left)
    <3>1. InkOfBoth(obj, left)
      BY <2>1, InkConcat
    <3> QED BY <1>1, <2>1, <3>1 DEF InkOfBoth
  <2>5. /\ Append(d.taken, obj) \in Seq(JsonText)
        /\ Ink(FlattenSeq(Append(d.taken, obj))) \o Ink(left) = InkOf(d)
    BY <2>1, <2>4, TakenInk
  <2>6. TakeObject(d).taken = Append(d.taken, obj) /\ TakeObject(d).rest = spaces \o left
    BY <1>3, <1>6
  <2>7. TakeObject(d) \in Bufs
    <3>1. [taken |-> Append(d.taken, obj), rest |-> spaces \o left] \in Bufs
      BY <2>3, <2>5 DEF Bufs
    <3> QED BY <1>3, <1>6, <3>1
  <2> QED BY <2>3, <2>5, <2>6, <2>7 DEF InkOf
<1> QED
  BY <1>4, <1>5, <1>6

\* Either loop.
LEMMA DrainInk ==
  ASSUME NEW s \in JsonText, NEW what
  PROVE  Drain(s, what) \in Bufs /\ InkOf(Drain(s, what)) = Ink(s)
<1> DEFINE I == {d \in Bufs : InkOf(d) = Ink(s)}
<1>1. Whole(s) \in I
  <2>1. Whole(s) \in Bufs /\ Whole(s).taken = <<>> /\ Whole(s).rest = s
    BY DEF Whole, Bufs
  <2>2. Ink(<<>>) = <<>> /\ Ink(s) \in Seq(Alphabet)
    BY KeepEmpty, KeepType DEF Ink, JsonText
  <2>3. InkOf(Whole(s)) = <<>> \o Ink(s)
    BY <2>1, <2>2, FlattenEmpty DEF InkOf
  <2> QED BY <2>1, <2>2, <2>3, ConcatEmptySeq
<1>2. \A d \in I : LoopTurn(d, what) \in I
  BY TakeLineInk, TakeObjectInk DEF LoopTurn
<1> HIDE DEF I
<1>3. Drain(s, what) \in I
  BY <1>1, <1>2, DrainStays
<1> QED
  BY <1>3 DEF I

\* A loop of objects over what a loop of lines left.
LEMMA BothLoopsInk ==
  ASSUME NEW d \in Bufs
  PROVE  LET o == Drain(d.rest, "objects") IN
         /\ o \in Bufs /\ d.taken \o o.taken \in Seq(JsonText)
         /\ Ink(FlattenSeq(d.taken \o o.taken)) \o Ink(o.rest) = InkOf(d)
<1> DEFINE o == Drain(d.rest, "objects")
           first == FlattenSeq(d.taken)
           second == FlattenSeq(o.taken)
<1>1. o \in Bufs /\ InkOf(o) = Ink(d.rest)
  BY DrainInk DEF Bufs
<1> HIDE DEF o
<1>2. /\ d.taken \in Seq(JsonText) /\ o.taken \in Seq(JsonText)
      /\ first \in JsonText /\ second \in JsonText
      /\ d.taken \o o.taken \in Seq(JsonText)
      /\ FlattenSeq(d.taken \o o.taken) = first \o second
  <2>1. d.taken \in Seq(JsonText) /\ o.taken \in Seq(JsonText)
    BY <1>1 DEF Bufs
  <2>2. first \in JsonText /\ second \in JsonText
    BY <2>1, FlattenType DEF JsonText
  <2>3. FlattenSeq(d.taken \o o.taken) = first \o second
    BY <2>1, FlattenConcat DEF JsonText
  <2> QED BY <2>1, <2>2, <2>3, ConcatProperties
<1>3. Ink(d.rest) = Ink(second) \o Ink(o.rest) /\ o.rest \in JsonText
  BY <1>1 DEF InkOf, Bufs
<1>4. InkOf(d) = Ink(first) \o (Ink(second) \o Ink(o.rest))
  BY <1>3 DEF InkOf
<1> HIDE DEF first, second
<1>5. InkOfBoth(first, second) /\ Ink(o.rest) \in Seq(Alphabet)
  BY <1>2, <1>3, InkConcat, KeepType DEF Ink, JsonText
<1>6. Regroups(Ink(first), Ink(second), Ink(o.rest))
  BY <1>5, Regroup DEF InkOfBoth, JsonText
<1> QED
  BY <1>1, <1>2, <1>4, <1>5, <1>6 DEF InkOfBoth, Regroups, o

LEMMA FeedInk ==
  ASSUME NEW s \in JsonText
  PROVE  Feed(s) \in Bufs /\ InkOf(Feed(s)) = Ink(s)
<1> DEFINE d == Drain(s, "lines")
           o == Drain(d.rest, "objects")
<1>1. d \in Bufs /\ InkOf(d) = Ink(s)
  BY DrainInk
<1>2. CASE Len(d.rest) <= BufferLimit
  BY <1>1, <1>2 DEF Feed
<1>3. CASE ~(Len(d.rest) <= BufferLimit)
  <2>1. Feed(s) = [taken |-> d.taken \o o.taken, rest |-> o.rest]
    BY <1>3 DEF Feed
  <2> HIDE DEF d
  <2>2. /\ o \in Bufs /\ d.taken \o o.taken \in Seq(JsonText)
        /\ Ink(FlattenSeq(d.taken \o o.taken)) \o Ink(o.rest) = InkOf(d)
    BY <1>1, BothLoopsInk
  <2> HIDE DEF o
  <2>3. Feed(s) \in Bufs /\ Feed(s).taken = d.taken \o o.taken /\ Feed(s).rest = o.rest
    BY <2>1, <2>2 DEF Bufs
  <2> QED BY <1>1, <2>2, <2>3 DEF InkOf
<1> QED
  BY <1>2, <1>3

LEMMA FinalizeInk ==
  ASSUME NEW s \in JsonText
  PROVE  Finalize(s) \in Seq(JsonText) /\ Ink(FlattenSeq(Finalize(s))) = Ink(s)
<1> DEFINE d == Drain(s, "lines")
           o == Drain(d.rest, "objects")
           tail == Strip(o.rest)
           both == d.taken \o o.taken
           end == IF tail = <<>> THEN <<>> ELSE <<tail>>
<1>1. d \in Bufs /\ InkOf(d) = Ink(s)
  BY DrainInk
<1>2. Finalize(s) = both \o end
  BY DEF Finalize
<1> HIDE DEF d
<1>3. o \in Bufs /\ both \in Seq(JsonText) /\ Ink(FlattenSeq(both)) \o Ink(o.rest) = InkOf(d)
  BY <1>1, BothLoopsInk
<1> HIDE DEF o, both
<1>4. tail \in JsonText /\ Ink(tail) = Ink(o.rest)
  BY <1>3, StripInk DEF Bufs
<1> HIDE DEF tail
<1>5. end \in Seq(JsonText) /\ FlattenSeq(end) = tail
  <2>1. CASE tail = <<>>
    BY <2>1, FlattenEmpty
  <2>2. CASE tail # <<>>
    <3>1. FlattenSeq(<<tail>>) = tail
      BY <1>4, FlattenOne DEF JsonText
    <3> QED BY <1>4, <2>2, <3>1
  <2> QED BY <2>1, <2>2
<1> HIDE DEF end
<1>6. both \o end \in Seq(JsonText) /\ FlattenSeq(both \o end) = FlattenSeq(both) \o tail
  <2>1. FlattenSeq(both \o end) = FlattenSeq(both) \o FlattenSeq(end)
    BY <1>3, <1>5, FlattenConcat DEF JsonText
  <2> QED BY <1>3, <1>5, <2>1, ConcatProperties
<1>7. InkOfBoth(FlattenSeq(both), tail)
  BY <1>3, <1>4, FlattenType, InkConcat DEF JsonText
<1> QED
  BY <1>1, <1>2, <1>3, <1>4, <1>6, <1>7 DEF InkOfBoth

-----------------------------------------------------------------------------
(***************************************************************************)
(* JsonStream: types, and what the records have of the output's ink.       *)
(***************************************************************************)

\* The reader has part of the output; the rest is unread.
StreamTyped ==
  /\ output \in Output /\ buffer \in JsonText
  /\ \E read \in JsonText : unread \in JsonText /\ Written(output) = read \o unread
  /\ records \in Seq(JsonText) /\ \A i \in DOMAIN records : IsObject(records[i])
  /\ reader \in {"idle", "reading", "ended", "failed"}
  /\ reader = "idle" => Written(output) = <<>> /\ buffer = <<>> /\ records = <<>>

\* What of the output's ink is not in the records: that of the buffer and of
\* what is unread, while the reader reads; nothing, when it has ended.
InkInv ==
  \E left \in JsonText :
    /\ Ink(FlattenSeq(records)) \o left = Ink(Written(output))
    /\ reader = "reading" => left = Ink(buffer) \o Ink(unread)
    /\ reader = "ended" => left = <<>>

LEMMA WrittenType ==
  ASSUME NEW o \in Output
  PROVE  Written(o) \in JsonText
<1> DEFINE Word == [gap : Seq(White), text : Seq(Alphabet) \ {<<>>}]
           pieces == [i \in DOMAIN o.words |-> o.words[i].gap \o o.words[i].text]
<1>1. o.words \in Seq(Word) /\ o.end \in Blanks
  BY DEF Output, Blanks
<1>2. DOMAIN o.words = 1..Len(o.words) /\ Len(o.words) \in Nat /\ \A i \in 1..Len(o.words) : o.words[i] \in Word
  BY <1>1, LenProperties, ElementOfSeq
<1>3. ASSUME NEW w \in Word PROVE w.gap \o w.text \in JsonText
  <2>1. w.gap \in JsonText /\ w.text \in JsonText
    BY BlankIsText DEF Blanks, JsonText
  <2> QED BY <2>1, ConcatProperties DEF JsonText
<1> HIDE DEF Word
<1>4. pieces \in Seq(JsonText)
  BY <1>2, <1>3
<1> HIDE DEF pieces
<1>5. FlattenSeq(pieces) \in JsonText /\ o.end \in JsonText
  BY <1>1, <1>4, FlattenType, BlankIsText DEF JsonText
<1> QED
  BY <1>5, ConcatProperties DEF Written, pieces, JsonText

\* A beginning and the rest are a whole with that rest as its end.
LEMMA RestIsSuffix ==
  ASSUME NEW r \in JsonText, NEW u \in JsonText
  PROVE  IsSuffix(u, r \o u)
<1> DEFINE w == r \o u
           m == Len(u)
           n == Len(w)
<1>1. /\ Len(r) \in Nat /\ m \in Nat /\ n = Len(r) + m
      /\ \A i \in 1..n : w[i] = IF i <= Len(r) THEN r[i] ELSE u[i - Len(r)]
  BY ConcatProperties, LenProperties DEF JsonText
<1>2. Len(Reverse(u)) = m /\ Len(Reverse(w)) = n
  BY <1>1 DEF Reverse
<1>3. \A i \in 1..m : Reverse(u)[i] = u[(m - i) + 1] /\ Reverse(w)[i] = w[(n - i) + 1]
  BY <1>1 DEF Reverse
<1>4. \A i \in 1..m : w[(n - i) + 1] = u[(m - i) + 1]
  <2> TAKE i \in 1..m
  <2>1. (n - i) + 1 \in 1..n /\ ~((n - i) + 1 <= Len(r)) /\ ((n - i) + 1) - Len(r) = (m - i) + 1
    BY <1>1
  <2> QED BY <1>1, <2>1
<1> HIDE DEF w, m, n
<1>5. SubSeq(Reverse(u), 1, m) = SubSeq(Reverse(w), 1, m)
  <2>1. SubSeq(Reverse(u), 1, m) = [i \in 1..m |-> Reverse(u)[i]]
    BY <1>1
  <2>2. SubSeq(Reverse(w), 1, m) = [i \in 1..m |-> Reverse(w)[i]]
    BY <1>1
  <2>3. \A i \in 1..m : Reverse(u)[i] = Reverse(w)[i]
    BY <1>3, <1>4
  <2> QED BY <2>1, <2>2, <2>3, Zenon
<1>6. m <= n
  BY <1>1
<1> QED
  BY <1>2, <1>5, <1>6 DEF IsSuffix, IsPrefix, w, m

\* A list of accepted records is the list given, or a beginning of it that ends
\* before a record that is no object.
LEMMA AcceptedIs ==
  ASSUME NEW recs \in Seq(JsonText)
  PROVE  /\ Accepted(recs) \in Seq(JsonText)
         /\ \A i \in DOMAIN Accepted(recs) : IsObject(Accepted(recs)[i])
         /\ (\A i \in DOMAIN recs : IsObject(recs[i])) => Accepted(recs) = recs
         /\ \E more \in Seq(JsonText) : recs = Accepted(recs) \o more
<1> DEFINE bad == {i \in DOMAIN recs : ~IsObject(recs[i])}
           first == CHOOSE i \in bad : \A j \in bad : i <= j
<1>1. Len(recs) \in Nat /\ DOMAIN recs = 1..Len(recs)
  BY LenProperties
<1>2. Accepted(recs) = IF bad = {} THEN recs ELSE SubSeq(recs, 1, first - 1)
  BY DEF Accepted
<1>3. CASE bad = {}
  <2>1. Accepted(recs) = recs /\ recs \o <<>> = recs /\ <<>> \in Seq(JsonText)
    BY <1>2, <1>3, ConcatEmptySeq
  <2> QED BY <1>3, <2>1
<1>4. CASE bad # {}
  <2>1. bad \in SUBSET Nat /\ bad \in SUBSET (1..Len(recs))
    BY <1>1
  <2>2. \A i \in 1..Len(recs) : i \notin bad => IsObject(recs[i])
    BY <1>1
  <2>3. \A i \in bad : ~IsObject(recs[i])
    OBVIOUS
  <2>4. first = Min(bad)
    BY DEF Min
  <2> HIDE DEF bad, first
  <2>5. first \in bad /\ \A y \in bad : first <= y
    BY <1>4, <2>1, <2>4, MinIs
  <2>6. first \in 1..Len(recs) /\ first - 1 \in 0..Len(recs)
    BY <1>1, <2>1, <2>5
  <2> DEFINE kept == SubSeq(recs, 1, first - 1)
             more == SubSeq(recs, (first - 1) + 1, Len(recs))
  <2>7. kept \in Seq(JsonText) /\ more \in Seq(JsonText) /\ Len(kept) = first - 1
    BY <2>6, Split, Zenon
  <2>8. recs = kept \o more
    BY <2>6, Split, Zenon
  <2>9. \A i \in 1..(first - 1) : kept[i] = recs[i] /\ IsObject(recs[i])
    BY <1>1, <2>2, <2>5, <2>6
  <2>10. DOMAIN kept = 1..(first - 1)
    BY <2>7, LenProperties
  <2>11. Accepted(recs) = kept
    BY <1>2, <1>4
  <2>12. ~ \A i \in DOMAIN recs : IsObject(recs[i])
    BY <1>1, <2>3, <2>5, <2>6
  <2> HIDE DEF kept, more
  <2> QED BY <2>7, <2>8, <2>9, <2>10, <2>11, <2>12
<1> QED
  BY <1>3, <1>4

\* The ink of records that are accepted out of what has been taken moves from
\* what is left to the records.
LEMMA AcceptInk ==
  ASSUME NEW recs \in Seq(JsonText), NEW taken \in Seq(JsonText), NEW z \in JsonText
  PROVE  /\ recs \o Accepted(taken) \in Seq(JsonText)
         /\ \E left \in JsonText :
              /\ Ink(FlattenSeq(recs \o Accepted(taken))) \o left
                   = Ink(FlattenSeq(recs)) \o (Ink(FlattenSeq(taken)) \o z)
              /\ Accepted(taken) = taken => left = z
<1> DEFINE acc == Accepted(taken)
           R == FlattenSeq(recs)
           A == FlattenSeq(acc)
<1>1. acc \in Seq(JsonText)
  BY AcceptedIs
<1>2. PICK more \in Seq(JsonText) : taken = acc \o more
  BY AcceptedIs
<1> HIDE DEF acc
<1> DEFINE M == FlattenSeq(more)
           left == Ink(M) \o z
<1>3. R \in JsonText /\ A \in JsonText /\ M \in JsonText
  BY <1>1, FlattenType DEF JsonText
<1>4. FlattenSeq(recs \o acc) = R \o A /\ FlattenSeq(taken) = A \o M
  <2>1. FlattenSeq(recs \o acc) = R \o A
    BY <1>1, FlattenConcat DEF JsonText
  <2>2. FlattenSeq(acc \o more) = A \o M
    BY <1>1, FlattenConcat DEF JsonText
  <2> QED BY <1>2, <2>1, <2>2
<1>5. recs \o acc \in Seq(JsonText)
  BY <1>1, ConcatProperties
<1> HIDE DEF R, A, M
<1>6. InkOfBoth(R, A) /\ InkOfBoth(A, M)
  BY <1>3, InkConcat
<1>7. left \in JsonText
  BY <1>6, ConcatProperties DEF InkOfBoth, JsonText
<1>8. /\ Ink(R \o A) = Ink(R) \o Ink(A) /\ Ink(A \o M) = Ink(A) \o Ink(M)
      /\ Ink(R) \in Seq(Alphabet) /\ Ink(A) \in Seq(Alphabet) /\ Ink(M) \in Seq(Alphabet)
  BY <1>6 DEF InkOfBoth, JsonText
<1>9. Regroups(Ink(R), Ink(A), left) /\ Regroups(Ink(A), Ink(M), z)
  BY <1>7, <1>8, Regroup DEF JsonText
<1>10. Ink(FlattenSeq(recs \o acc)) \o left = Ink(R) \o (Ink(FlattenSeq(taken)) \o z)
  BY <1>4, <1>8, <1>9 DEF Regroups
<1>11. acc = taken => left = z
  <2> SUFFICES ASSUME acc = taken PROVE left = z
    OBVIOUS
  <2>1. acc \o more = acc
    BY <1>2
  <2>2. more = <<>>
    BY <1>1, <2>1, ConcatEqualIffEmpty
  <2>3. Ink(M) = <<>>
    BY <2>2, FlattenEmpty, KeepEmpty DEF M, Ink
  <2> QED BY <2>3, ConcatEmptySeq DEF JsonText
<1> HIDE DEF left
<1> QED
  BY <1>5, <1>7, <1>10, <1>11 DEF acc, R

\* The records stay objects.
LEMMA AcceptObjects ==
  ASSUME NEW recs \in Seq(JsonText), NEW taken \in Seq(JsonText),
         \A i \in DOMAIN recs : IsObject(recs[i])
  PROVE  \A i \in DOMAIN (recs \o Accepted(taken)) : IsObject((recs \o Accepted(taken))[i])
<1> DEFINE acc == Accepted(taken)
<1>1. acc \in Seq(JsonText) /\ \A i \in DOMAIN acc : IsObject(acc[i])
  BY AcceptedIs
<1> HIDE DEF acc
<1>2. /\ DOMAIN acc = 1..Len(acc) /\ DOMAIN recs = 1..Len(recs)
      /\ Len(acc) \in Nat /\ Len(recs) \in Nat
      /\ recs \o acc \in Seq(JsonText) /\ Len(recs \o acc) = Len(recs) + Len(acc)
      /\ \A i \in 1..(Len(recs) + Len(acc)) :
           (recs \o acc)[i] = IF i <= Len(recs) THEN recs[i] ELSE acc[i - Len(recs)]
  BY <1>1, LenProperties, ConcatProperties
<1>3. DOMAIN (recs \o acc) = 1..(Len(recs) + Len(acc))
  BY <1>2, LenProperties
<1>4. ASSUME NEW i \in 1..(Len(recs) + Len(acc)) PROVE IsObject((recs \o acc)[i])
  <2>1. CASE i <= Len(recs)
    BY <1>2, <2>1
  <2>2. CASE ~(i <= Len(recs))
    <3>1. i - Len(recs) \in DOMAIN acc
      BY <1>2, <2>2
    <3> QED BY <1>1, <1>2, <2>2, <3>1
  <2> QED BY <2>1, <2>2
<1> QED
  BY <1>3, <1>4 DEF acc

LEMMA StreamTypedInit ==
  StreamInit => StreamTyped /\ InkInv
<1> SUFFICES ASSUME StreamInit PROVE StreamTyped /\ InkInv
  OBVIOUS
<1>1. output = [words |-> <<>>, end |-> <<>>] /\ <<>> \in Blanks /\ <<>> \in JsonText
  BY DEF StreamInit, Blanks, JsonText
<1>2. output \in Output
  BY <1>1 DEF Output, Blanks
<1>3. Written(output) = <<>>
  <2>1. [i \in DOMAIN output.words |-> output.words[i].gap \o output.words[i].text] = <<>>
    BY <1>1
  <2> QED BY <1>1, <2>1, FlattenEmpty DEF Written
<1>4. <<>> \o <<>> = <<>> /\ Ink(<<>>) = <<>>
  BY KeepEmpty DEF Ink
<1>5. StreamTyped
  BY <1>1, <1>2, <1>3, <1>4 DEF StreamInit, StreamTyped
<1>6. Ink(FlattenSeq(records)) \o <<>> = Ink(Written(output))
  BY <1>3, <1>4, FlattenEmpty DEF StreamInit
<1> QED
  BY <1>1, <1>5, <1>6 DEF StreamInit, InkInv

\* A read, in terms of the text it is about.
LEMMA ReadIs ==
  ASSUME StreamTyped, NEW n \in 1..ReadSize, ReadPiece(n)
  PROVE  LET piece == SubSeq(unread, 1, n)
             s == buffer \o piece IN
         /\ piece \in JsonText /\ unread' \in JsonText /\ unread = piece \o unread'
         /\ s \in JsonText /\ buffer \o unread = s \o unread'
         /\ reader = "reading" /\ buffer' = Feed(s).rest /\ output' = output
         /\ TooLong(Feed(s).rest) => reader' = "failed" /\ records' = records
         /\ ~TooLong(Feed(s).rest) => Accept(Feed(s).taken, "reading")
<1> DEFINE piece == SubSeq(unread, 1, n)
           s == buffer \o piece
<1>1. unread \in Seq(Alphabet) /\ buffer \in Seq(Alphabet) /\ Len(unread) \in Nat
  BY LenProperties DEF StreamTyped, JsonText
<1>2. n \in 0..Len(unread) /\ unread' = SubSeq(unread, n + 1, Len(unread))
  BY <1>1, StreamAssumption DEF ReadPiece
<1>3. piece \in Seq(Alphabet) /\ unread' \in Seq(Alphabet) /\ unread = piece \o unread'
  <2>1. piece \in Seq(Alphabet) /\ unread' \in Seq(Alphabet)
    BY <1>1, <1>2, Split, Zenon
  <2>2. unread = piece \o unread'
    BY <1>1, <1>2, Split, Zenon
  <2> QED BY <2>1, <2>2
<1>4. /\ reader = "reading" /\ buffer' = Feed(s).rest /\ output' = output
      /\ TooLong(Feed(s).rest) => reader' = "failed" /\ records' = records
      /\ ~TooLong(Feed(s).rest) => Accept(Feed(s).taken, "reading")
  BY DEF ReadPiece
<1> HIDE DEF piece
<1>5. s \in Seq(Alphabet)
  BY <1>1, <1>3, ConcatProperties
<1>6. Regroups(buffer, piece, unread')
  BY <1>1, <1>3, Regroup
<1>7. buffer \o unread = s \o unread'
  BY <1>3, <1>6 DEF Regroups
<1> HIDE DEF s
<1> QED
  BY <1>3, <1>4, <1>5, <1>7 DEF JsonText, s, piece

LEMMA StreamTypedStep ==
  ASSUME StreamTyped, [StreamNext]_streamVars
  PROVE  StreamTyped'
<1>1. ASSUME NEW o \in Outputs, StartReading(o) PROVE StreamTyped'
  <2>1. o \in Output
    BY StreamAssumption
  <2>2. /\ reader = "idle" /\ output' = o /\ unread' = Written(o) /\ reader' = "reading"
        /\ buffer' = <<>> /\ records' = <<>>
    BY <1>1 DEF StartReading, StreamTyped
  <2>3. <<>> \in JsonText /\ Written(o) \in JsonText /\ Written(o) = <<>> \o Written(o)
    BY <2>1, WrittenType, ConcatEmptySeq DEF JsonText
  <2>4. \E read \in JsonText : unread' \in JsonText /\ Written(output') = read \o unread'
    BY <2>2, <2>3
  <2>5. <<>> \in Seq(JsonText) /\ DOMAIN <<>> = {}
    OBVIOUS
  <2> QED BY <2>1, <2>2, <2>3, <2>4, <2>5 DEF StreamTyped
<1>2. ASSUME NEW n \in 1..ReadSize, ReadPiece(n) PROVE StreamTyped'
  <2> DEFINE piece == SubSeq(unread, 1, n)
             s == buffer \o piece
  <2>1. /\ piece \in JsonText /\ unread' \in JsonText /\ unread = piece \o unread'
        /\ s \in JsonText
        /\ reader = "reading" /\ buffer' = Feed(s).rest /\ output' = output
        /\ TooLong(Feed(s).rest) => reader' = "failed" /\ records' = records
        /\ ~TooLong(Feed(s).rest) => Accept(Feed(s).taken, "reading")
    BY <1>2, ReadIs
  <2>2. PICK read \in JsonText : Written(output) = read \o unread
    BY DEF StreamTyped
  <2> HIDE DEF piece, s
  <2>3. Feed(s).taken \in Seq(JsonText) /\ Feed(s).rest \in JsonText
    BY <2>1, FeedInk DEF Bufs
  <2>4. read \o piece \in JsonText /\ Written(output') = (read \o piece) \o unread'
    <3>1. Regroups(read, piece, unread') /\ read \o piece \in JsonText
      BY <2>1, <2>2, Regroup, ConcatProperties DEF JsonText
    <3> QED BY <2>1, <2>2, <3>1 DEF Regroups
  <2>5. records' \in Seq(JsonText) /\ \A i \in DOMAIN records' : IsObject(records'[i])
    <3>1. CASE TooLong(Feed(s).rest)
      BY <2>1, <3>1 DEF StreamTyped
    <3>2. CASE ~TooLong(Feed(s).rest)
      <4>1. records' = records \o Accepted(Feed(s).taken)
        BY <2>1, <3>2 DEF Accept
      <4>2. <<>> \in JsonText
        BY DEF JsonText
      <4> QED BY <2>3, <4>1, <4>2, AcceptInk, AcceptObjects DEF StreamTyped
    <3> QED BY <3>1, <3>2
  <2>6. reader' \in {"reading", "failed"}
    BY <2>1 DEF Accept
  <2> QED BY <2>1, <2>3, <2>4, <2>5, <2>6 DEF StreamTyped
<1>3. ASSUME EndOfOutput PROVE StreamTyped'
  <2>1. /\ reader = "reading" /\ buffer' = <<>> /\ output' = output /\ unread' = unread
        /\ records' = records \o Accepted(Finalize(buffer)) /\ reader' \in {"ended", "failed"}
    BY <1>3 DEF EndOfOutput, Accept
  <2>2. Finalize(buffer) \in Seq(JsonText) /\ <<>> \in JsonText
    BY FinalizeInk DEF StreamTyped, JsonText
  <2>3. records' \in Seq(JsonText) /\ \A i \in DOMAIN records' : IsObject(records'[i])
    BY <2>1, <2>2, AcceptInk, AcceptObjects DEF StreamTyped
  <2> QED BY <2>1, <2>2, <2>3 DEF StreamTyped
<1>4. ASSUME UNCHANGED streamVars PROVE StreamTyped'
  BY <1>4 DEF streamVars, StreamTyped
<1> QED
  BY <1>1, <1>2, <1>3, <1>4 DEF StreamNext

LEMMA InkStep ==
  ASSUME StreamTyped, InkInv, [StreamNext]_streamVars
  PROVE  InkInv'
<1>1. ASSUME NEW o \in Outputs, StartReading(o) PROVE InkInv'
  <2>1. /\ output' = o /\ unread' = Written(o) /\ reader' = "reading"
        /\ buffer' = <<>> /\ records' = <<>>
    BY <1>1 DEF StartReading, StreamTyped
  <2>2. Written(o) \in JsonText
    BY WrittenType, StreamAssumption
  <2>3. Ink(<<>>) = <<>> /\ Ink(Written(o)) \in Seq(Alphabet)
    BY <2>2, KeepEmpty, KeepType DEF Ink, JsonText
  <2>4. <<>> \o Ink(Written(o)) = Ink(Written(o))
    BY <2>3, ConcatEmptySeq
  <2> DEFINE left == Ink(buffer') \o Ink(unread')
  <2>5. left = Ink(Written(o)) /\ left \in JsonText
    BY <2>1, <2>3, <2>4 DEF JsonText
  <2>6. Ink(FlattenSeq(records')) \o left = Ink(Written(output'))
    BY <2>1, <2>3, <2>4, <2>5, FlattenEmpty
  <2> QED BY <2>1, <2>5, <2>6 DEF InkInv
<1>2. ASSUME NEW n \in 1..ReadSize, ReadPiece(n) PROVE InkInv'
  <2> DEFINE piece == SubSeq(unread, 1, n)
             s == buffer \o piece
             fed == Feed(s)
             R == Ink(FlattenSeq(records))
  <2>1. /\ piece \in JsonText /\ unread' \in JsonText /\ s \in JsonText
        /\ buffer \o unread = s \o unread'
        /\ reader = "reading" /\ buffer' = fed.rest /\ output' = output
        /\ TooLong(fed.rest) => reader' = "failed" /\ records' = records
        /\ ~TooLong(fed.rest) => Accept(fed.taken, "reading")
    BY <1>2, ReadIs
  <2>2. PICK left \in JsonText : R \o left = Ink(Written(output)) /\ left = Ink(buffer) \o Ink(unread)
    BY <2>1 DEF InkInv
  <2> HIDE DEF piece, s
  <2>3. fed \in Bufs /\ InkOf(fed) = Ink(s)
    BY <2>1, FeedInk
  <2> HIDE DEF fed
  <2>4. CASE TooLong(fed.rest)
    BY <2>1, <2>2, <2>4 DEF InkInv
  <2>5. CASE ~TooLong(fed.rest)
    <3> DEFINE T == Ink(FlattenSeq(fed.taken))
               z == Ink(fed.rest) \o Ink(unread')
    <3>1. /\ fed.taken \in Seq(JsonText) /\ fed.rest \in JsonText
          /\ T \in Seq(Alphabet) /\ Ink(fed.rest) \in Seq(Alphabet) /\ Ink(unread') \in Seq(Alphabet)
      <4>1. fed.taken \in Seq(JsonText) /\ fed.rest \in JsonText
        BY <2>3 DEF Bufs
      <4>2. FlattenSeq(fed.taken) \in JsonText
        BY <4>1, FlattenType DEF JsonText
      <4> QED BY <2>1, <4>1, <4>2, KeepType DEF Ink, JsonText
    <3>2. left = (T \o Ink(fed.rest)) \o Ink(unread')
      <4>1. InkOfBoth(s, unread') /\ InkOfBoth(buffer, unread)
        BY <2>1, InkConcat DEF StreamTyped
      <4>2. Ink(s) = T \o Ink(fed.rest)
        BY <2>3 DEF InkOf
      <4> QED BY <2>1, <2>2, <4>1, <4>2 DEF InkOfBoth
    <3> HIDE DEF T
    <3>3. Regroups(T, Ink(fed.rest), Ink(unread')) /\ z \in JsonText
      BY <3>1, Regroup, ConcatProperties DEF JsonText
    <3>4. left = T \o z
      BY <3>2, <3>3 DEF Regroups
    <3> HIDE DEF z, R
    <3>5. PICK next \in JsonText :
            /\ Ink(FlattenSeq(records \o Accepted(fed.taken))) \o next = R \o (T \o z)
            /\ Accepted(fed.taken) = fed.taken => next = z
      <4>1. records \in Seq(JsonText)
        BY DEF StreamTyped
      <4> QED BY <3>1, <3>3, <4>1, AcceptInk DEF R, T
    <3>6. /\ records' = records \o Accepted(fed.taken)
          /\ reader' = IF Accepted(fed.taken) = fed.taken THEN "reading" ELSE "failed"
      BY <2>1, <2>5 DEF Accept
    <3>7. Ink(FlattenSeq(records')) \o next = Ink(Written(output'))
      BY <2>1, <2>2, <3>4, <3>5, <3>6
    <3>8. reader' = "reading" => next = Ink(buffer') \o Ink(unread')
      BY <2>1, <3>5, <3>6 DEF z
    <3> QED BY <3>6, <3>7, <3>8 DEF InkInv
  <2> QED BY <2>4, <2>5
<1>3. ASSUME EndOfOutput PROVE InkInv'
  <2> DEFINE all == Finalize(buffer)
             R == Ink(FlattenSeq(records))
  <2>1. /\ reader = "reading" /\ unread = <<>> /\ output' = output
        /\ records' = records \o Accepted(all)
        /\ reader' = IF Accepted(all) = all THEN "ended" ELSE "failed"
    BY <1>3 DEF EndOfOutput, Accept
  <2>2. PICK left \in JsonText : R \o left = Ink(Written(output)) /\ left = Ink(buffer) \o Ink(unread)
    BY <2>1 DEF InkInv
  <2>3. all \in Seq(JsonText) /\ Ink(FlattenSeq(all)) = Ink(buffer)
    BY FinalizeInk DEF StreamTyped
  <2> HIDE DEF all
  <2>4. Ink(unread) = <<>> /\ <<>> \in JsonText
    BY <2>1, KeepEmpty DEF Ink, JsonText
  <2>5. left = Ink(FlattenSeq(all)) \o <<>>
    BY <2>2, <2>3, <2>4
  <2> HIDE DEF R
  <2>6. PICK next \in JsonText :
          /\ Ink(FlattenSeq(records \o Accepted(all))) \o next = R \o (Ink(FlattenSeq(all)) \o <<>>)
          /\ Accepted(all) = all => next = <<>>
    <3>1. records \in Seq(JsonText)
      BY DEF StreamTyped
    <3> QED BY <2>3, <2>4, <3>1, AcceptInk DEF R
  <2>7. Ink(FlattenSeq(records')) \o next = Ink(Written(output'))
    BY <2>1, <2>2, <2>5, <2>6
  <2> QED BY <2>1, <2>6, <2>7 DEF InkInv
<1>4. ASSUME UNCHANGED streamVars PROVE InkInv'
  BY <1>4 DEF streamVars, InkInv
<1> QED
  BY <1>1, <1>2, <1>3, <1>4 DEF StreamNext

\* The reader keeps its variables' types, for every output and size of a read.
THEOREM StreamTypeCorrect == StreamInit /\ [][StreamNext]_streamVars => []StreamTypeOK
<1>1. StreamTyped => StreamTypeOK
  <2> SUFFICES ASSUME StreamTyped PROVE StreamTypeOK
    OBVIOUS
  <2>1. PICK read \in JsonText : unread \in JsonText /\ Written(output) = read \o unread
    BY DEF StreamTyped
  <2>2. IsSuffix(unread, Written(output))
    BY <2>1, RestIsSuffix
  <2> QED BY <2>2 DEF StreamTyped, StreamTypeOK
<1>2. StreamTyped /\ [StreamNext]_streamVars => StreamTyped'
  BY StreamTypedStep
<1>3. StreamInit => StreamTyped
  BY StreamTypedInit
<1> QED
  BY <1>1, <1>2, <1>3, PTL

-----------------------------------------------------------------------------
(***************************************************************************)
(* JsonStream: where texts that are the same begin and end.                *)
(***************************************************************************)

\* Of two texts that are the same, the shorter beginning is one of the longer;
\* for texts to be named.
GoesOn(T, s, u, g, b) == \E x \in Seq(T) : g = s \o x /\ u = x \o b

LEMMA ShorterFront ==
  ASSUME NEW T, NEW s \in Seq(T), NEW u \in Seq(T), NEW g \in Seq(T), NEW b \in Seq(T),
         s \o u = g \o b, Len(s) <= Len(g)
  PROVE  GoesOn(T, s, u, g, b)
<1> DEFINE m == Len(s)
           x == SubSeq(g, m + 1, Len(g))
           f == SubSeq(g, 1, m)
<1>1. /\ Len(s) \in Nat /\ Len(u) \in Nat /\ Len(g) \in Nat /\ Len(b) \in Nat
      /\ m \in 0..Len(g)
  BY LenProperties
<1>2. g = f \o x
  BY <1>1, Split, ZenonT(60)
<1>3. f \in Seq(T) /\ x \in Seq(T) /\ Len(f) = m
  BY <1>1, Split, ZenonT(60)
<1>4. \A i \in 1..m : f[i] = g[i]
  BY <1>1, SMTT(30)
<1>5. \A i \in 1..m : (s \o u)[i] = s[i] /\ (g \o b)[i] = g[i]
  BY <1>1
<1> HIDE DEF f, x
<1>6. f = s
  <2>1. \A i \in 1..m : f[i] = s[i]
    BY <1>4, <1>5
  <2> QED BY <1>3, <2>1, SeqEqual
<1>7. s \o u = s \o (x \o b)
  <2>1. Regroups(s, x, b)
    BY <1>3, Regroup
  <2> QED BY <1>2, <1>6, <2>1 DEF Regroups
<1>8. x \o b \in Seq(T)
  BY <1>3, ConcatProperties
<1>9. u = x \o b
  BY <1>7, <1>8, ConcatSimplifications
<1> QED
  BY <1>2, <1>3, <1>6, <1>9 DEF GoesOn

\* The beginnings are the same if neither has what the rest of both begins with.
LEMMA SameFront ==
  ASSUME NEW T, NEW P, NEW a \in Seq(T), NEW x \in Seq(T), NEW b \in Seq(T), NEW y \in Seq(T),
         a \o x = b \o y, x # <<>>, y # <<>>, x[1] \in P, y[1] \in P,
         \A i \in 1..Len(a) : a[i] \notin P, \A i \in 1..Len(b) : b[i] \notin P
  PROVE  a = b /\ x = y
<1>1. Len(a) \in Nat /\ Len(b) \in Nat /\ Len(x) \in Nat \ {0} /\ Len(y) \in Nat \ {0}
  BY LenProperties, EmptySeq
<1>2. (a \o x)[Len(a) + 1] = x[1] /\ (b \o y)[Len(b) + 1] = y[1]
  <2>1. /\ Len(a) + 1 \in 1..(Len(a) + Len(x)) /\ ~(Len(a) + 1 <= Len(a)) /\ (Len(a) + 1) - Len(a) = 1
        /\ Len(b) + 1 \in 1..(Len(b) + Len(y)) /\ ~(Len(b) + 1 <= Len(b)) /\ (Len(b) + 1) - Len(b) = 1
    BY <1>1
  <2>2. \A i \in 1..(Len(a) + Len(x)) : (a \o x)[i] = IF i <= Len(a) THEN a[i] ELSE x[i - Len(a)]
    BY ConcatProperties
  <2>3. \A i \in 1..(Len(b) + Len(y)) : (b \o y)[i] = IF i <= Len(b) THEN b[i] ELSE y[i - Len(b)]
    BY ConcatProperties
  <2> QED BY <2>1, <2>2, <2>3
<1>3. Len(a) = Len(b)
  <2>1. \A i \in 1..Len(b) : (b \o y)[i] = b[i]
    BY <1>1
  <2>2. \A i \in 1..Len(a) : (a \o x)[i] = a[i]
    BY <1>1
  <2>3. ~(Len(a) < Len(b))
    <3> SUFFICES ASSUME Len(a) < Len(b) PROVE FALSE
      OBVIOUS
    <3>1. Len(a) + 1 \in 1..Len(b)
      BY <1>1
    <3> QED BY <1>2, <2>1, <3>1
  <2>4. ~(Len(b) < Len(a))
    <3> SUFFICES ASSUME Len(b) < Len(a) PROVE FALSE
      OBVIOUS
    <3>1. Len(b) + 1 \in 1..Len(a)
      BY <1>1
    <3> QED BY <1>2, <2>2, <3>1
  <2> QED BY <1>1, <2>3, <2>4
<1>4. PICK z \in Seq(T) : b = a \o z /\ x = z \o y
  <2>1. Len(a) <= Len(b)
    BY <1>1, <1>3
  <2>2. GoesOn(T, a, x, b, y)
    BY <2>1, ShorterFront
  <2> QED BY <2>2 DEF GoesOn
<1>5. Len(a \o z) = Len(a) + Len(z) /\ Len(z) \in Nat
  BY ConcatProperties, LenProperties
<1>6. Len(z) = 0
  BY <1>1, <1>3, <1>4, <1>5
<1>7. z = <<>>
  BY <1>6, EmptySeq
<1> QED
  BY <1>4, <1>7, ConcatEmptySeq

\* Newlines of two texts.
LEMMA NewlinesConcat ==
  ASSUME NEW s \in JsonText, NEW t \in JsonText
  PROVE  Newlines(s \o t) = {} <=> Newlines(s) = {} /\ Newlines(t) = {}
<1>1. /\ Len(s) \in Nat /\ Len(t) \in Nat /\ DOMAIN s = 1..Len(s) /\ DOMAIN t = 1..Len(t)
      /\ DOMAIN (s \o t) = 1..(Len(s) + Len(t))
      /\ \A i \in 1..(Len(s) + Len(t)) : (s \o t)[i] = IF i <= Len(s) THEN s[i] ELSE t[i - Len(s)]
  BY ConcatProperties, LenProperties DEF JsonText
<1>2. ASSUME NEW i \in DOMAIN s, s[i] = "newline" PROVE (s \o t)[i] = "newline" /\ i \in DOMAIN (s \o t)
  BY <1>1, <1>2
<1>3. ASSUME NEW i \in DOMAIN t, t[i] = "newline"
      PROVE  (s \o t)[Len(s) + i] = "newline" /\ Len(s) + i \in DOMAIN (s \o t)
  <2>1. Len(s) + i \in 1..(Len(s) + Len(t)) /\ ~(Len(s) + i <= Len(s)) /\ (Len(s) + i) - Len(s) = i
    BY <1>1
  <2> QED BY <1>1, <1>3, <2>1
<1>4. ASSUME NEW i \in DOMAIN (s \o t), (s \o t)[i] = "newline"
      PROVE  (\E j \in DOMAIN s : s[j] = "newline") \/ (\E j \in DOMAIN t : t[j] = "newline")
  <2>1. CASE i <= Len(s)
    BY <1>1, <1>4, <2>1
  <2>2. CASE ~(i <= Len(s))
    <3>1. i - Len(s) \in DOMAIN t
      BY <1>1, <2>2
    <3> QED BY <1>1, <1>4, <2>2, <3>1
  <2> QED BY <2>1, <2>2
<1> QED
  BY <1>2, <1>3, <1>4 DEF Newlines

\* A text without newlines, at every place.
LEMMA NoNewlines ==
  ASSUME NEW s \in JsonText
  PROVE  Newlines(s) = {} <=> \A i \in 1..Len(s) : s[i] # "newline"
BY LenProperties DEF Newlines, JsonText

-----------------------------------------------------------------------------
(***************************************************************************)
(* JsonStream: objects, and the white space around them.                   *)
(***************************************************************************)

\* Where a text's braces close does not depend on what follows.
LEMMA ClosesPrefix ==
  ASSUME NEW a \in JsonText, NEW x \in JsonText, NEW n \in 1..Len(a)
  PROVE  /\ Closes(a \o x, n) <=> Closes(a, n)
         /\ (a \o x)[1] = a[1]
<1>1. /\ Len(a) \in Nat /\ Len(x) \in Nat
      /\ \A i \in 1..(Len(a) + Len(x)) : (a \o x)[i] = IF i <= Len(a) THEN a[i] ELSE x[i - Len(a)]
  BY ConcatProperties, LenProperties DEF JsonText
<1>2. \A i \in 1..n : (a \o x)[i] = a[i]
  BY <1>1
<1>3. ASSUME NEW b PROVE Braces(a \o x, n, b) = Braces(a, n, b)
  <2>1. {i \in 1..n : (a \o x)[i] = b} = {i \in 1..n : a[i] = b}
    BY <1>2
  <2> QED BY <2>1 DEF Braces
<1>4. 1 \in 1..n
  BY <1>1
<1> QED
  BY <1>2, <1>3, <1>4 DEF Closes

\* An object begins and ends with ink.
LEMMA ObjectEnds ==
  ASSUME NEW t \in JsonText, IsObject(t)
  PROVE  /\ Len(t) \in Nat \ {0} /\ t[1] = "{" /\ t[1] \notin White /\ t[Len(t)] \notin White
         /\ Closes(t, Len(t)) /\ \A i \in 1..(Len(t) - 1) : ~Closes(t, i)
<1> DEFINE n == Len(t)
<1>1. t # <<>> /\ ObjectEnd(t) = n /\ n \in Nat \ {0}
  BY EmptySeq DEF IsObject, JsonText
<1>2. t[1] = "{" /\ Closes(t, n) /\ \A i \in 1..(n - 1) : ~Closes(t, i)
  BY <1>1, ObjectEndIs
<1>3. "{" \notin White
  BY DEF White
<1>4. ASSUME t[n] \in White PROVE FALSE
  <2>1. n # 1
    BY <1>2, <1>3, <1>4
  <2>2. n - 1 \in 1..(n - 1)
    BY <1>1, <2>1
  <2>3. t[n] # "{" /\ t[n] # "}"
    BY <1>4 DEF White
  <2>4. ASSUME NEW b, t[n] # b PROVE Braces(t, n - 1, b) = Braces(t, n, b)
    <3>1. {i \in 1..(n - 1) : t[i] = b} = {i \in 1..n : t[i] = b}
      <4>1. \A i \in 1..n : i \in 1..(n - 1) \/ i = n
        BY <1>1
      <4>2. \A i \in 1..(n - 1) : i \in 1..n
        BY <1>1
      <4> HIDE DEF n
      <4> QED BY <2>4, <4>1, <4>2
    <3> QED BY <3>1 DEF Braces
  <2>5. Closes(t, n - 1)
    BY <1>2, <2>3, <2>4 DEF Closes
  <2> QED BY <1>2, <2>2, <2>5
<1> QED
  BY <1>1, <1>2, <1>3, <1>4

\* An object in front of a text is the one that is found there.
LEMMA ObjectInFront ==
  ASSUME NEW t \in JsonText, IsObject(t), NEW x \in JsonText
  PROVE  ObjectEnd(t \o x) = Len(t)
<1> DEFINE n == Len(t)
           s == t \o x
           e == ObjectEnd(s)
<1>0. n \in Nat \ {0} /\ Closes(t, n) /\ \A i \in 1..(n - 1) : ~Closes(t, i)
  BY ObjectEnds
<1>1. t[1] = "{"
  BY ObjectEnds
<1>2. s \in JsonText /\ Len(s) = n + Len(x) /\ Len(x) \in Nat
  BY ConcatProperties, LenProperties DEF JsonText
<1>3. \A i \in 1..n : Closes(s, i) <=> Closes(t, i)
  BY ClosesPrefix
<1>4. s[1] = "{"
  <2>1. 1 \in 1..n
    BY <1>0
  <2> QED BY <1>1, <2>1, ClosesPrefix
<1> HIDE DEF s
<1>5. /\ e \in 0..Len(s)
      /\ e # 0 => Closes(s, e) /\ \A i \in 1..(e - 1) : ~Closes(s, i)
      /\ e = 0 => \A i \in 1..Len(s) : ~Closes(s, i)
  BY <1>2, <1>4, ObjectEndIs
<1> HIDE DEF e, n
<1>6. n \in 1..Len(s) /\ n \in 1..n
  BY <1>0, <1>2
<1>7. Closes(s, n)
  BY <1>0, <1>3, <1>6
<1>8. e # 0
  BY <1>5, <1>6, <1>7
<1>9. ~(e < n)
  <2> SUFFICES ASSUME e < n PROVE FALSE
    OBVIOUS
  <2>1. e \in 1..n /\ e \in 1..(n - 1)
    BY <1>0, <1>2, <1>5, <1>8
  <2> QED BY <1>0, <1>3, <1>5, <1>8, <2>1
<1>10. ~(n < e)
  <2> SUFFICES ASSUME n < e PROVE FALSE
    OBVIOUS
  <2>1. n \in 1..(e - 1)
    BY <1>0, <1>2, <1>5
  <2> QED BY <1>5, <1>7, <1>8, <2>1
<1>11. e = n
  BY <1>0, <1>2, <1>5, <1>9, <1>10
<1> QED
  BY <1>11 DEF e, n, s

\* Of an object that is not there in whole, none is found.
LEMMA ObjectCut ==
  ASSUME NEW a \in JsonText, NEW x \in JsonText, IsObject(a \o x), x # <<>>
  PROVE  ObjectEnd(a) = 0
<1>1. /\ a \o x \in JsonText /\ Len(a \o x) = Len(a) + Len(x)
      /\ Len(a) \in Nat /\ Len(x) \in Nat \ {0}
  BY ConcatProperties, LenProperties, EmptySeq DEF JsonText
<1>2. \A i \in 1..(Len(a \o x) - 1) : ~Closes(a \o x, i)
  BY <1>1, ObjectEnds
<1>3. \A i \in 1..Len(a) : ~Closes(a, i)
  <2> TAKE i \in 1..Len(a)
  <2>1. i \in 1..(Len(a \o x) - 1)
    BY <1>1
  <2> QED BY <1>2, <2>1, ClosesPrefix
<1>4. ObjectEnd(a) \in 0..Len(a) /\ (ObjectEnd(a) # 0 => Closes(a, ObjectEnd(a)))
  BY ObjectEndIs
<1> QED
  BY <1>1, <1>3, <1>4

\* White space is stripped to nothing.
LEMMA StripBlank ==
  ASSUME NEW v \in Blanks
  PROVE  InkAt(v) = {} /\ Strip(v) = <<>> /\ LStrip(v) = <<>>
<1>1. InkAt(v) = {}
  BY LenProperties, ElementOfSeq DEF InkAt, Blanks
<1> QED
  BY <1>1 DEF Strip, LStrip

\* Ink at a place of a text, and in it.
LEMMA InkAtSome ==
  ASSUME NEW s \in JsonText, NEW i \in 1..Len(s), s[i] \notin White
  PROVE  InkAt(s) # {}
BY LenProperties DEF InkAt, JsonText

\* lstrip takes white space off a text that begins with ink.
LEMMA LStripPadded ==
  ASSUME NEW v \in Blanks, NEW x \in JsonText, x # <<>>, x[1] \notin White
  PROVE  InkAt(v \o x) # {} /\ LStrip(v \o x) = x
<1> DEFINE s == v \o x
<1>0. v \in JsonText
  BY BlankIsText
<1>1. /\ s \in JsonText /\ Len(s) = Len(v) + Len(x) /\ Len(v) \in Nat /\ Len(x) \in Nat \ {0}
      /\ \A i \in 1..(Len(v) + Len(x)) : s[i] = IF i <= Len(v) THEN v[i] ELSE x[i - Len(v)]
  BY <1>0, ConcatProperties, LenProperties, EmptySeq DEF JsonText
<1>2. InkAt(s) # {}
  <2>1. Len(v) + 1 \in 1..Len(s) /\ ~(Len(v) + 1 <= Len(v)) /\ (Len(v) + 1) - Len(v) = 1
    BY <1>1
  <2>2. s[Len(v) + 1] = x[1]
    BY <1>1, <2>1
  <2> HIDE DEF s
  <2> QED BY <1>1, <2>1, <2>2, InkAtSome
<1> DEFINE m == Min(InkAt(s))
           f == SubSeq(s, 1, m - 1)
           b == LStrip(s)
<1>3. f \in Blanks /\ b \in JsonText \ {<<>>} /\ s = f \o b /\ b = SubSeq(s, m, Len(s)) /\ s[m] \notin White /\ m \in 1..Len(s)
  <2> HIDE DEF s
  <2> QED BY <1>1, <1>2, StripIs
<1>4. b[1] = s[m]
  <2> HIDE DEF s, m, b
  <2> QED BY <1>1, <1>3
<1> HIDE DEF m, f, b
<1>5. f \o b = v \o x
  BY <1>3 DEF s
<1>6. b[1] \in Alphabet \ White /\ x[1] \in Alphabet \ White
  <2>1. b[1] \in Alphabet /\ x[1] \in Alphabet
    BY <1>1, <1>3, EmptySeq, ElementOfSeq DEF JsonText
  <2> QED BY <1>3, <1>4, <2>1
<1>7. (\A i \in 1..Len(f) : f[i] \notin Alphabet \ White) /\ (\A i \in 1..Len(v) : v[i] \notin Alphabet \ White)
  BY <1>3, ElementOfSeq DEF Blanks
<1>8. f \in Seq(Alphabet) /\ b \in Seq(Alphabet) /\ v \in Seq(Alphabet) /\ x \in Seq(Alphabet)
  BY <1>0, <1>3, BlankIsText DEF JsonText
<1> HIDE DEF s
<1>9. b = x
  BY <1>3, <1>5, <1>6, <1>7, <1>8, SameFront
<1> QED
  BY <1>2, <1>9 DEF s, b

\* Texts that end with ink are the same if white space makes them so.
LEMMA NotLonger ==
  ASSUME NEW a \in JsonText, NEW x \in Blanks, NEW b \in JsonText, NEW y \in Blanks,
         a \o x = b \o y, b # <<>>, b[Len(b)] \notin White
  PROVE  Len(b) <= Len(a)
<1>0. x \in JsonText /\ y \in JsonText
  BY BlankIsText
<1>1. /\ Len(a) \in Nat /\ Len(b) \in Nat \ {0} /\ Len(x) \in Nat /\ Len(y) \in Nat
      /\ Len(a \o x) = Len(a) + Len(x) /\ Len(b \o y) = Len(b) + Len(y)
      /\ \A i \in 1..(Len(a) + Len(x)) : (a \o x)[i] = IF i <= Len(a) THEN a[i] ELSE x[i - Len(a)]
      /\ \A i \in 1..(Len(b) + Len(y)) : (b \o y)[i] = IF i <= Len(b) THEN b[i] ELSE y[i - Len(b)]
  BY <1>0, ConcatProperties, LenProperties, EmptySeq DEF JsonText
<1>2. \A i \in 1..Len(x) : x[i] \in White
  BY ElementOfSeq DEF Blanks
<1> SUFFICES ASSUME Len(a) < Len(b) PROVE FALSE
  BY <1>1
<1>3. /\ Len(b) \in 1..(Len(b) + Len(y)) /\ Len(b) \in 1..(Len(a) + Len(x))
      /\ ~(Len(b) <= Len(a)) /\ Len(b) - Len(a) \in 1..Len(x)
  BY <1>1
<1>4. (b \o y)[Len(b)] = b[Len(b)] /\ (a \o x)[Len(b)] = x[Len(b) - Len(a)]
  BY <1>1, <1>3
<1> QED
  BY <1>2, <1>3, <1>4

\* strip leaves an object of one with white space around it.
LEMMA StripPadded ==
  ASSUME NEW v \in Blanks, NEW w \in Blanks, NEW t \in JsonText,
         t # <<>>, t[1] \notin White, t[Len(t)] \notin White
  PROVE  Strip(v \o (t \o w)) = t
<1> DEFINE x == t \o w
           s == v \o x
<1>1. w \in JsonText /\ v \in JsonText
  BY BlankIsText
<1>2. /\ Len(t) \in Nat \ {0} /\ Len(w) \in Nat /\ x \in JsonText /\ Len(x) = Len(t) + Len(w)
      /\ \A i \in 1..(Len(t) + Len(w)) : x[i] = IF i <= Len(t) THEN t[i] ELSE w[i - Len(t)]
  BY <1>1, ConcatProperties, LenProperties, EmptySeq DEF JsonText
<1>3. x # <<>> /\ x[1] = t[1]
  <2>1. 1 \in 1..(Len(t) + Len(w)) /\ 1 <= Len(t) /\ Len(x) # 0
    BY <1>2
  <2>2. x[1] = t[1]
    BY <1>2, <2>1
  <2> HIDE DEF x
  <2> QED BY <2>1, <2>2, EmptySeq
<1> HIDE DEF x
<1>4. InkAt(s) # {} /\ LStrip(s) = x /\ s \in JsonText
  BY <1>1, <1>2, <1>3, LStripPadded, ConcatProperties DEF JsonText
<1> HIDE DEF s
<1> DEFINE m == Min(InkAt(s))
           n == Max(InkAt(s))
           r == Strip(s)
           back == SubSeq(s, n + 1, Len(s))
<1>5. /\ m \in 1..Len(s) /\ n \in m..Len(s) /\ s[n] \notin White /\ back \in Blanks
      /\ r = SubSeq(s, m, n) /\ r \in JsonText \ {<<>>} /\ x = r \o back
  BY <1>4, StripIs
<1>6. Len(r) = n - m + 1 /\ r[Len(r)] = s[n]
  <2>1. Len(s) \in Nat
    BY <1>4, LenProperties DEF JsonText
  <2> HIDE DEF m, n, r, back
  <2> QED BY <1>5, <2>1
<1> HIDE DEF m, n, r, back
<1>7. r \o back = t \o w
  BY <1>5 DEF x
<1>8. Len(r) <= Len(t) /\ Len(t) <= Len(r)
  <2>1. r # <<>> /\ r \in JsonText /\ r[Len(r)] \notin White /\ t # <<>>
    BY <1>5, <1>6
  <2>2. Len(t) <= Len(r)
    BY <1>5, <1>7, <2>1, NotLonger
  <2>3. Len(r) <= Len(t)
    BY <1>5, <1>7, <2>1, NotLonger
  <2> QED BY <2>2, <2>3
<1>9. PICK z \in Seq(Alphabet) : r = t \o z
  <2>1. r \in Seq(Alphabet) /\ back \in Seq(Alphabet) /\ t \in Seq(Alphabet) /\ w \in Seq(Alphabet)
    BY <1>1, <1>5, BlankIsText DEF JsonText
  <2>2. GoesOn(Alphabet, t, w, r, back)
    BY <1>7, <1>8, <2>1, ShorterFront
  <2> QED BY <2>2 DEF GoesOn
<1>10. z = <<>> /\ t \o <<>> = t
  <2>1. Len(t \o z) = Len(t) + Len(z) /\ Len(z) \in Nat /\ t \in Seq(Alphabet)
    BY ConcatProperties, LenProperties DEF JsonText
  <2>2. Len(z) = 0
    BY <1>2, <1>8, <1>9, <2>1
  <2> QED BY <2>1, <2>2, EmptySeq, ConcatEmptySeq
<1> QED
  BY <1>9, <1>10 DEF r, s, x

-----------------------------------------------------------------------------
(***************************************************************************)
(* JsonStream: an output is its first gap and what comes after it.         *)
(***************************************************************************)

Word == [gap : Blanks, text : JsonText \ {<<>>}]

\* The gap an output begins with: the first word's, or that at the end.
Lead(o) == IF o.words = <<>> THEN o.end ELSE o.words[1].gap
WithLead(o, g) ==
  IF o.words = <<>> THEN [words |-> <<>>, end |-> g]
  ELSE [words |-> [o.words EXCEPT ![1] = [gap |-> g, text |-> o.words[1].text]], end |-> o.end]

\* What comes after the first word, and after the first gap.
AfterOpen(o) == [words |-> Tail(o.words), end |-> o.end]
TrunkOf(o) == IF o.words = <<>> THEN <<>> ELSE o.words[1].text \o Written(AfterOpen(o))

Pieces(o) == [i \in DOMAIN o.words |-> o.words[i].gap \o o.words[i].text]

LEMMA OutputIs ==
  ASSUME NEW o \in Output
  PROVE  /\ o.words \in Seq(Word) /\ o.end \in Blanks /\ o = [words |-> o.words, end |-> o.end]
         /\ Len(o.words) \in Nat /\ DOMAIN o.words = 1..Len(o.words)
         /\ \A i \in 1..Len(o.words) :
              /\ o.words[i] \in Word
              /\ o.words[i].gap \in Blanks /\ o.words[i].gap \in JsonText
              /\ o.words[i].text \in JsonText /\ o.words[i].text # <<>>
         /\ o.words # <<>> => 1 \in 1..Len(o.words)
<1>1. o.words \in Seq(Word) /\ o.end \in Blanks /\ o = [words |-> o.words, end |-> o.end]
  BY DEF Output, Word, Blanks, JsonText
<1>2. /\ Len(o.words) \in Nat /\ DOMAIN o.words = 1..Len(o.words)
      /\ \A i \in 1..Len(o.words) : o.words[i] \in Word
  BY <1>1, LenProperties, ElementOfSeq
<1>3. \A w \in Word : w.gap \in Blanks /\ w.text \in JsonText /\ w.text # <<>>
  BY DEF Word
<1>4. o.words # <<>> => Len(o.words) # 0
  BY <1>1, EmptySeq
<1> QED
  BY <1>1, <1>2, <1>3, <1>4, BlankIsText

LEMMA PiecesAre ==
  ASSUME NEW o \in Output
  PROVE  /\ Pieces(o) \in Seq(JsonText) /\ Len(Pieces(o)) = Len(o.words)
         /\ \A i \in 1..Len(o.words) : Pieces(o)[i] = o.words[i].gap \o o.words[i].text
         /\ Written(o) = FlattenSeq(Pieces(o)) \o o.end
<1>1. Len(o.words) \in Nat /\ DOMAIN o.words = 1..Len(o.words)
  BY OutputIs
<1>2. \A i \in 1..Len(o.words) : o.words[i].gap \in JsonText /\ o.words[i].text \in JsonText
  BY OutputIs
<1>3. \A i \in 1..Len(o.words) : o.words[i].gap \o o.words[i].text \in JsonText
  BY <1>2, ConcatProperties DEF JsonText
<1>4. Pieces(o) = [i \in 1..Len(o.words) |-> o.words[i].gap \o o.words[i].text]
  BY <1>1 DEF Pieces
<1>5. Written(o) = FlattenSeq(Pieces(o)) \o o.end
  BY DEF Written, Pieces
<1> HIDE DEF Pieces
<1>6. \A i \in 1..Len(o.words) : Pieces(o)[i] = o.words[i].gap \o o.words[i].text
  BY <1>4
<1>7. Pieces(o) \in [1..Len(o.words) -> JsonText]
  BY <1>3, <1>4, Zenon
<1>8. Pieces(o) \in Seq(JsonText) /\ Len(Pieces(o)) = Len(o.words)
  BY <1>1, <1>7
<1> QED
  BY <1>5, <1>6, <1>8

\* The first word of an output, if there is one.
First(o) == o.words[1].text

\* A sequence of which an element and the elements that follow it are known.
LEMMA FrontAndRest ==
  ASSUME NEW T, NEW f \in Seq(T), NEW a \in T, NEW h \in Seq(T),
         Len(f) = Len(h) + 1, f[1] = a, \A i \in 1..Len(h) : f[i + 1] = h[i]
  PROVE  f = <<a>> \o h
<1>1. <<a>> \in Seq(T) /\ Len(<<a>>) = 1 /\ <<a>>[1] = a /\ Len(h) \in Nat
  BY LenProperties
<1>2. /\ <<a>> \o h \in Seq(T) /\ Len(<<a>> \o h) = Len(h) + 1
      /\ \A i \in 1..(Len(h) + 1) : (<<a>> \o h)[i] = IF i <= 1 THEN <<a>>[i] ELSE h[i - 1]
  BY <1>1, ConcatProperties
<1>3. ASSUME NEW i \in 1..(Len(h) + 1) PROVE f[i] = (<<a>> \o h)[i]
  <2>1. CASE i = 1
    BY <1>1, <1>2, <2>1
  <2>2. CASE i # 1
    <3>1. i - 1 \in 1..Len(h) /\ (i - 1) + 1 = i /\ ~(i <= 1)
      BY <1>1, <2>2
    <3>2. f[(i - 1) + 1] = h[i - 1]
      BY <3>1
    <3> QED BY <1>2, <3>1, <3>2
  <2> QED BY <2>1, <2>2
<1> QED
  BY <1>2, <1>3, SeqEqual

\* The words, their texts and their pieces, of an output that has a first word.
LEMMA FirstWord ==
  ASSUME NEW o \in Output, o.words # <<>>
  PROVE  /\ AfterOpen(o) \in Output /\ First(o) \in JsonText /\ First(o) # <<>>
         /\ Len(o.words) = Len(AfterOpen(o).words) + 1
         /\ \A i \in 1..Len(AfterOpen(o).words) : AfterOpen(o).words[i] = o.words[i + 1]
<1>1. /\ o.words \in Seq(Word) /\ o.end \in Blanks /\ 1 \in 1..Len(o.words)
      /\ First(o) \in JsonText /\ First(o) # <<>> /\ Len(o.words) \in Nat
  BY OutputIs DEF First
<1>2. Tail(o.words) \in Seq(Word) /\ Len(Tail(o.words)) = Len(o.words) - 1
  BY <1>1, HeadTailProperties
<1>3. AfterOpen(o).words = Tail(o.words) /\ AfterOpen(o).end = o.end
  BY DEF AfterOpen
<1>4. AfterOpen(o) \in Output
  BY <1>1, <1>2 DEF AfterOpen, Output, Word, Blanks, JsonText
<1>5. \A i \in 1..Len(Tail(o.words)) : Tail(o.words)[i] = o.words[i + 1]
  BY <1>1, HeadTailProperties
<1> QED
  BY <1>1, <1>2, <1>3, <1>4, <1>5

LEMMA ObjectsAre ==
  ASSUME NEW o \in Output
  PROVE  /\ Objects(o) \in Seq(JsonText) /\ Len(Objects(o)) = Len(o.words)
         /\ \A i \in 1..Len(o.words) : Objects(o)[i] = o.words[i].text
<1>1. Len(o.words) \in Nat /\ DOMAIN o.words = 1..Len(o.words)
  BY OutputIs
<1>2. \A i \in 1..Len(o.words) : o.words[i].text \in JsonText
  BY OutputIs
<1>3. Objects(o) = [i \in 1..Len(o.words) |-> o.words[i].text]
  BY <1>1 DEF Objects
<1> HIDE DEF Objects
<1>4. \A i \in 1..Len(o.words) : Objects(o)[i] = o.words[i].text
  BY <1>3
<1>5. Objects(o) \in [1..Len(o.words) -> JsonText]
  BY <1>2, <1>3, Zenon
<1>6. Objects(o) \in Seq(JsonText) /\ Len(Objects(o)) = Len(o.words)
  BY <1>1, <1>5
<1> QED
  BY <1>4, <1>6

\* What an output is made of.
LEMMA BeginsWhole ==
  ASSUME NEW o \in Output
  PROVE  /\ Lead(o) \in Blanks /\ Lead(o) \in JsonText /\ TrunkOf(o) \in JsonText
         /\ Written(o) = Lead(o) \o TrunkOf(o)
         /\ o.words = <<>> => TrunkOf(o) = <<>> /\ Objects(o) = <<>> /\ Lead(o) = o.end
         /\ o.words # <<>> =>
              /\ AfterOpen(o) \in Output /\ First(o) \in JsonText /\ First(o) # <<>>
              /\ TrunkOf(o) = First(o) \o Written(AfterOpen(o))
              /\ Objects(o) = <<First(o)>> \o Objects(AfterOpen(o))
<1>0. Lead(o) \in Blanks /\ Lead(o) \in JsonText
  BY OutputIs, BlankIsText DEF Lead
<1>1. CASE o.words = <<>>
  <2>1. Len(o.words) = 0
    BY <1>1, EmptySeq
  <2>2. Objects(o) = <<>>
    <3>1. Objects(o) \in Seq(JsonText) /\ Len(Objects(o)) = 0
      BY <2>1, ObjectsAre
    <3> QED BY <3>1, EmptySeq
  <2>3. Pieces(o) = <<>>
    <3>1. Pieces(o) \in Seq(JsonText) /\ Len(Pieces(o)) = 0
      BY <2>1, PiecesAre
    <3> QED BY <3>1, EmptySeq
  <2>4. TrunkOf(o) = <<>> /\ Lead(o) = o.end
    BY <1>1 DEF TrunkOf, Lead
  <2>5. Written(o) = FlattenSeq(<<>>) \o o.end
    BY <2>3, PiecesAre
  <2>6. Lead(o) \o <<>> = Lead(o) /\ <<>> \o Lead(o) = Lead(o) /\ <<>> \in JsonText
    BY <1>0, ConcatEmptySeq DEF JsonText
  <2>7. Written(o) = Lead(o) \o TrunkOf(o)
    BY <2>4, <2>5, <2>6, FlattenEmpty
  <2> QED BY <1>0, <1>1, <2>2, <2>4, <2>6, <2>7
<1>2. CASE o.words # <<>>
  <2> DEFINE a == AfterOpen(o)
             g == Lead(o)
             t == First(o)
  <2>1. /\ a \in Output /\ t \in JsonText /\ t # <<>>
        /\ Len(o.words) = Len(a.words) + 1
        /\ \A i \in 1..Len(a.words) : a.words[i] = o.words[i + 1]
    BY <1>2, FirstWord
  <2>2. Len(a.words) \in Nat /\ 1 \in 1..Len(o.words) /\ a.end = o.end
    <3>1. Len(a.words) \in Nat
      BY <2>1, OutputIs
    <3> QED BY <2>1, <3>1 DEF AfterOpen
  <2>3. \A i \in 1..Len(a.words) : i + 1 \in 1..Len(o.words)
    BY <2>1, <2>2
  <2>4. g = o.words[1].gap /\ TrunkOf(o) = t \o Written(a)
    BY <1>2 DEF Lead, TrunkOf, First
  <2> HIDE DEF a
  <2>5. Objects(o) = <<t>> \o Objects(a)
    <3>1. Objects(o) \in Seq(JsonText) /\ Objects(a) \in Seq(JsonText) /\ Len(Objects(o)) = Len(Objects(a)) + 1
      BY <2>1, ObjectsAre
    <3>2. Objects(o)[1] = t
      BY <2>2, ObjectsAre DEF First
    <3>3. ASSUME NEW i \in 1..Len(Objects(a)) PROVE Objects(o)[i + 1] = Objects(a)[i]
      <4>1. i \in 1..Len(a.words)
        BY <2>1, ObjectsAre
      <4>2. Objects(o)[i + 1] = o.words[i + 1].text
        BY <2>3, <4>1, ObjectsAre
      <4>3. Objects(a)[i] = a.words[i].text
        BY <2>1, <4>1, ObjectsAre
      <4> QED BY <2>1, <4>1, <4>2, <4>3
    <3> HIDE DEF t
    <3> QED BY <2>1, <3>1, <3>2, <3>3, FrontAndRest
  <2>6. Pieces(o) = <<g \o t>> \o Pieces(a) /\ g \o t \in JsonText /\ Pieces(a) \in Seq(JsonText)
    <3>1. Pieces(o) \in Seq(JsonText) /\ Pieces(a) \in Seq(JsonText) /\ Len(Pieces(o)) = Len(Pieces(a)) + 1
      BY <2>1, PiecesAre
    <3>2. Pieces(o)[1] = g \o t
      BY <2>2, <2>4, PiecesAre DEF First
    <3>3. ASSUME NEW i \in 1..Len(Pieces(a)) PROVE Pieces(o)[i + 1] = Pieces(a)[i]
      <4>1. i \in 1..Len(a.words)
        BY <2>1, PiecesAre
      <4>2. Pieces(o)[i + 1] = o.words[i + 1].gap \o o.words[i + 1].text
        BY <2>3, <4>1, PiecesAre
      <4>3. Pieces(a)[i] = a.words[i].gap \o a.words[i].text
        BY <2>1, <4>1, PiecesAre
      <4> QED BY <2>1, <4>1, <4>2, <4>3
    <3>4. g \o t \in JsonText
      BY <1>0, <2>1, ConcatProperties DEF JsonText
    <3> HIDE DEF t, g
    <3> QED BY <2>1, <3>1, <3>2, <3>3, <3>4, FrontAndRest
  <2>7. Written(o) = FlattenSeq(Pieces(o)) \o o.end
    BY PiecesAre
  <2>8. Written(a) = FlattenSeq(Pieces(a)) \o o.end /\ Written(a) \in JsonText
    BY <2>1, <2>2, PiecesAre, WrittenType
  <2> DEFINE P == FlattenSeq(Pieces(a))
  <2>9. FlattenSeq(Pieces(o)) = (g \o t) \o P /\ P \in JsonText
    <3>1. g \o t \in Seq(Alphabet) /\ Pieces(a) \in Seq(Seq(Alphabet))
      BY <2>6 DEF JsonText
    <3>2. FlattenSeq(<<g \o t>> \o Pieces(a)) = (g \o t) \o P
      BY <3>1, FlattenFront
    <3> QED BY <2>6, <3>1, <3>2, FlattenType DEF JsonText
  <2> HIDE DEF P, g, t
  <2>10. o.end \in JsonText
    BY OutputIs, BlankIsText
  <2>11. Regroups(g \o t, P, o.end) /\ Regroups(g, t, Written(a))
    BY <1>0, <2>1, <2>6, <2>8, <2>9, <2>10, Regroup DEF JsonText, g
  <2>12. Written(o) = (g \o t) \o (P \o o.end)
    BY <2>7, <2>9, <2>11 DEF Regroups
  <2>13. Written(o) = g \o TrunkOf(o)
    BY <2>4, <2>8, <2>11, <2>12 DEF Regroups, P
  <2>14. TrunkOf(o) \in JsonText
    BY <2>1, <2>4, <2>8, ConcatProperties DEF JsonText
  <2> QED BY <1>0, <1>2, <2>1, <2>4, <2>5, <2>13, <2>14 DEF a, g, t
<1> QED
  BY <1>1, <1>2

\* Another gap in front.
LEMMA WithLeadIs ==
  ASSUME NEW o \in Output, NEW g \in Blanks
  PROVE  LET w == WithLead(o, g) IN
         /\ w \in Output /\ Lead(w) = g /\ TrunkOf(w) = TrunkOf(o) /\ Objects(w) = Objects(o)
         /\ w.words = <<>> <=> o.words = <<>>
         /\ \A i \in DOMAIN w.words : i \in DOMAIN o.words /\ w.words[i].text = o.words[i].text
         /\ \A i \in DOMAIN w.words : i # 1 => w.words[i].gap = o.words[i].gap
<1> DEFINE w == WithLead(o, g)
<1>1. CASE o.words = <<>>
  <2>1. /\ w.words = <<>> /\ w.end = g /\ w = [words |-> <<>>, end |-> g]
    BY <1>1 DEF WithLead
  <2> HIDE DEF w
  <2>2. w \in Output
    BY <2>1 DEF Output, Blanks
  <2>3. Lead(w) = g /\ TrunkOf(w) = <<>> /\ TrunkOf(o) = <<>> /\ Objects(w) = <<>> /\ Objects(o) = <<>>
    BY <1>1, <2>1, <2>2, BeginsWhole
  <2> QED BY <1>1, <2>1, <2>2, <2>3 DEF w
<1>2. CASE o.words # <<>>
  <2> DEFINE word == [gap |-> g, text |-> o.words[1].text]
             ws == [o.words EXCEPT ![1] = word]
  <2>1. /\ o.words \in Seq(Word) /\ Len(o.words) \in Nat /\ o.words[1] \in Word /\ 1 \in 1..Len(o.words)
        /\ DOMAIN o.words = 1..Len(o.words) /\ o.end \in Blanks
    BY <1>2, OutputIs
  <2>2. word \in Word
    BY <2>1 DEF Word
  <2>3. w.words = ws /\ w.end = o.end /\ w = [words |-> ws, end |-> o.end]
    BY <1>2 DEF WithLead
  <2> HIDE DEF w
  <2>4. ws \in Seq(Word) /\ Len(ws) = Len(o.words) /\ DOMAIN ws = 1..Len(o.words) /\ ws[1] = word
    <3> HIDE DEF word
    <3>1. ws \in Seq(Word) /\ Len(ws) = Len(o.words)
      BY <2>1, <2>2, ExceptSeq
    <3> QED BY <2>1, <3>1
  <2>5. \A i \in 1..Len(o.words) : i # 1 => ws[i] = o.words[i]
    BY <2>1
  <2>6. word.gap = g /\ word.text = o.words[1].text
    OBVIOUS
  <2> HIDE DEF ws, word
  <2>7. w \in Output
    BY <2>1, <2>3, <2>4 DEF Output, Word, Blanks, JsonText
  <2>8. \A i \in DOMAIN w.words : i \in DOMAIN o.words /\ w.words[i].text = o.words[i].text
    BY <2>1, <2>3, <2>4, <2>5, <2>6
  <2>9. \A i \in DOMAIN w.words : i # 1 => w.words[i].gap = o.words[i].gap
    BY <2>1, <2>3, <2>4, <2>5
  <2>10. Objects(w) = Objects(o)
    BY <2>1, <2>3, <2>4, <2>8 DEF Objects
  <2>11. w.words # <<>>
    <3>1. Len(ws) # 0
      BY <2>1, <2>4
    <3> QED BY <2>3, <3>1, EmptySeq
  <2>12. Lead(w) = g /\ First(w) = First(o)
    BY <2>3, <2>4, <2>6, <2>11 DEF Lead, First
  <2>13. Tail(ws) = Tail(o.words)
    <3>1. /\ Tail(ws) \in Seq(Word) /\ Len(Tail(ws)) = Len(o.words) - 1
          /\ \A i \in 1..Len(Tail(ws)) : Tail(ws)[i] = ws[i + 1]
      BY <2>4, <2>3, <2>11, HeadTailProperties
    <3>2. /\ Tail(o.words) \in Seq(Word) /\ Len(Tail(o.words)) = Len(o.words) - 1
          /\ \A i \in 1..Len(Tail(o.words)) : Tail(o.words)[i] = o.words[i + 1]
      BY <1>2, <2>1, HeadTailProperties
    <3>3. ASSUME NEW i \in 1..(Len(o.words) - 1) PROVE Tail(ws)[i] = Tail(o.words)[i]
      <4>1. i + 1 \in 1..Len(o.words) /\ i + 1 # 1
        BY <2>1
      <4>2. ws[i + 1] = o.words[i + 1]
        BY <2>5, <4>1
      <4> QED BY <3>1, <3>2, <4>2
    <3> QED BY <3>1, <3>2, <3>3, SeqEqual
  <2>14. TrunkOf(w) = TrunkOf(o)
    BY <1>2, <2>3, <2>11, <2>12, <2>13 DEF TrunkOf, AfterOpen, First
  <2> QED BY <1>2, <2>7, <2>8, <2>9, <2>10, <2>11, <2>12, <2>14 DEF w
<1> QED
  BY <1>1, <1>2

\* Such an output is framed if it was, unless the gap brings a newline.
LEMMA FramedWithLead ==
  ASSUME NEW o \in Output, NEW g \in Blanks, Framed(o),
         Newlines(Lead(o)) = {} => Newlines(g) = {}
  PROVE  Framed(WithLead(o, g))
<1> DEFINE w == WithLead(o, g)
<1>1. /\ w \in Output /\ Lead(w) = g /\ TrunkOf(w) = TrunkOf(o)
      /\ \A i \in DOMAIN w.words : i \in DOMAIN o.words /\ w.words[i].text = o.words[i].text
      /\ \A i \in DOMAIN w.words : i # 1 => w.words[i].gap = o.words[i].gap
  BY WithLeadIs
<1> HIDE DEF w
<1>2. Newlines(Written(o)) = {} => Newlines(Written(w)) = {}
  <2>1. /\ Lead(o) \in JsonText /\ TrunkOf(o) \in JsonText /\ Written(o) = Lead(o) \o TrunkOf(o)
        /\ g \in JsonText /\ Written(w) = g \o TrunkOf(o)
    <3>1. Written(w) = Lead(w) \o TrunkOf(w) /\ Lead(w) \in JsonText
      BY <1>1, BeginsWhole
    <3> QED BY <1>1, <3>1, BeginsWhole
  <2> QED BY <2>1, NewlinesConcat
<1>3. \A i \in DOMAIN w.words : IsObject(w.words[i].text) /\ Newlines(w.words[i].text) = {}
  BY <1>1 DEF Framed
<1>4. (\A i \in DOMAIN o.words : i # 1 => Newlines(o.words[i].gap) # {})
        => \A i \in DOMAIN w.words : i # 1 => Newlines(w.words[i].gap) # {}
  BY <1>1
<1> QED
  BY <1>2, <1>3, <1>4 DEF Framed, w

\* What comes after the first word is framed too, and one a line.
LEMMA FramedAfter ==
  ASSUME NEW o \in Output, o.words # <<>>, Framed(o)
  PROVE  /\ Framed(AfterOpen(o)) /\ IsObject(First(o)) /\ Newlines(First(o)) = {}
         /\ Newlines(Written(o)) # {} /\ AfterOpen(o).words # <<>> => Newlines(Lead(AfterOpen(o))) # {}
<1> DEFINE a == AfterOpen(o)
<1>1. /\ a \in Output /\ First(o) \in JsonText /\ Len(o.words) = Len(a.words) + 1
      /\ \A i \in 1..Len(a.words) : a.words[i] = o.words[i + 1]
  BY FirstWord
<1>2. /\ DOMAIN o.words = 1..Len(o.words) /\ DOMAIN a.words = 1..Len(a.words)
      /\ Len(a.words) \in Nat /\ (a.words # <<>> => 1 \in 1..Len(a.words))
  BY <1>1, OutputIs
<1>3. TrunkOf(o) = First(o) \o Written(a) /\ Written(o) = Lead(o) \o TrunkOf(o) /\ Lead(o) \in JsonText /\ TrunkOf(o) \in JsonText
  BY BeginsWhole
<1>4. Written(a) \in JsonText
  BY <1>1, WrittenType
<1>5. Lead(a) = IF a.words = <<>> THEN a.end ELSE a.words[1].gap
  BY DEF Lead
<1> HIDE DEF a
<1>6. \A i \in 1..Len(a.words) : i + 1 \in 1..Len(o.words) /\ i + 1 # 1
  BY <1>1, <1>2
<1>7. 1 \in 1..Len(o.words)
  BY <1>1, <1>2
<1>8. Newlines(Written(o)) = {} => Newlines(Written(a)) = {}
  <2> SUFFICES ASSUME Newlines(Written(o)) = {} PROVE Newlines(Written(a)) = {}
    OBVIOUS
  <2>1. Newlines(TrunkOf(o)) = {}
    BY <1>3, NewlinesConcat, Zenon
  <2> QED BY <1>1, <1>3, <1>4, <2>1, NewlinesConcat, Zenon
<1>9. \A i \in DOMAIN a.words : IsObject(a.words[i].text) /\ Newlines(a.words[i].text) = {}
  BY <1>1, <1>2, <1>6 DEF Framed
<1>10. IsObject(First(o)) /\ Newlines(First(o)) = {}
  BY <1>2, <1>7 DEF Framed, First
<1>11. ASSUME \A i \in DOMAIN o.words : i # 1 => Newlines(o.words[i].gap) # {}
       PROVE  \A i \in DOMAIN a.words : Newlines(a.words[i].gap) # {}
  BY <1>1, <1>2, <1>6, <1>11
<1>12. Framed(a)
  BY <1>8, <1>9, <1>11 DEF Framed
<1>13. Newlines(Written(o)) # {} /\ a.words # <<>> => Newlines(Lead(a)) # {}
  BY <1>2, <1>5, <1>11 DEF Framed
<1> QED
  BY <1>10, <1>12, <1>13 DEF a

-----------------------------------------------------------------------------
(***************************************************************************)
(* JsonStream: a turn of _drain_lines on an output that is framed.         *)
(***************************************************************************)

\* A gap with a newline, cut at the first.
LEMMA GapWithNewline ==
  ASSUME NEW v \in Blanks, Newlines(v) # {}
  PROVE  \E f, g \in Blanks : v = f \o (<<"newline">> \o g) /\ Newlines(f) = {}
<1> DEFINE end == Min(Newlines(v))
           f == SubSeq(v, 1, end - 1)
           g == SubSeq(v, end + 1, Len(v))
<1>1. v \in JsonText
  BY BlankIsText
<1>2. /\ end \in 1..Len(v) /\ \A i \in 1..(end - 1) : v[i] # "newline"
      /\ v = f \o (<<"newline">> \o g) /\ f \in JsonText /\ Len(f) = end - 1
  BY <1>1, FirstNewline
<1> HIDE DEF end
<1>3. v \in Seq(White) /\ Len(v) \in Nat
  BY LenProperties DEF Blanks
<1>4. end \in 0..Len(v) /\ end - 1 \in 0..Len(v)
  BY <1>2, <1>3
<1>5. f \in Seq(White) /\ g \in Seq(White)
  <2>1. f \in Seq(White)
    BY <1>3, <1>4, Split
  <2>2. g \in Seq(White)
    BY <1>3, <1>4, Split
  <2> QED BY <2>1, <2>2
<1>6. \A i \in 1..Len(f) : f[i] # "newline"
  <2>1. \A i \in 1..(end - 1) : f[i] = v[i]
    BY <1>2, <1>3
  <2> HIDE DEF f
  <2> QED BY <1>2, <2>1
<1> HIDE DEF f, g
<1>7. Newlines(f) = {}
  BY <1>2, <1>6, NoNewlines
<1> QED
  BY <1>2, <1>5, <1>7 DEF Blanks

\* Where the line a text begins with ends does not depend on how it is cut.
LEMMA LineIs ==
  ASSUME NEW s \in JsonText, NEW u \in JsonText, NEW a \in JsonText, NEW y \in JsonText,
         Newlines(s) # {}, Newlines(a) = {}, s \o u = a \o (<<"newline">> \o y)
  PROVE  LET end == Min(Newlines(s)) IN
         SubSeq(s, 1, end - 1) = a /\ SubSeq(s, end + 1, Len(s)) \o u = y
<1> DEFINE end == Min(Newlines(s))
           f == SubSeq(s, 1, end - 1)
           b == SubSeq(s, end + 1, Len(s))
           nl == <<"newline">>
<1>1. /\ end \in 1..Len(s) /\ \A i \in 1..(end - 1) : s[i] # "newline"
      /\ s = f \o (nl \o b) /\ f \in JsonText /\ b \in JsonText /\ Len(f) = end - 1
  BY FirstNewline
<1>2. \A i \in 1..Len(f) : f[i] \notin {"newline"}
  <2>1. Len(s) \in Nat /\ \A i \in 1..(end - 1) : f[i] = s[i]
    BY <1>1, LenProperties DEF JsonText
  <2> HIDE DEF f, end
  <2> QED BY <1>1, <2>1
<1>3. \A i \in 1..Len(a) : a[i] \notin {"newline"}
  BY NoNewlines
<1>4. nl \in Seq(Alphabet) /\ nl # <<>> /\ Len(nl) = 1 /\ nl[1] = "newline"
  BY DEF Alphabet, White
<1> HIDE DEF f, b, nl, end
<1> DEFINE x == nl \o (b \o u)
           z == nl \o y
<1>5. x \in Seq(Alphabet) /\ z \in Seq(Alphabet) /\ b \o u \in Seq(Alphabet)
  <2>1. b \o u \in Seq(Alphabet) /\ z \in Seq(Alphabet)
    BY <1>1, <1>4, ConcatProperties DEF JsonText
  <2> QED BY <1>4, <2>1, ConcatProperties
<1>6. x # <<>> /\ z # <<>> /\ x[1] = "newline" /\ z[1] = "newline"
  <2>1. /\ \A i \in 1..(Len(nl) + Len(b \o u)) : x[i] = IF i <= Len(nl) THEN nl[i] ELSE (b \o u)[i - Len(nl)]
        /\ Len(x) = Len(nl) + Len(b \o u) /\ Len(b \o u) \in Nat
    <3>1. Len(b \o u) \in Nat
      BY <1>5, LenProperties
    <3> QED BY <1>4, <1>5, <3>1, ConcatProperties, ZenonT(60)
  <2>2. /\ \A i \in 1..(Len(nl) + Len(y)) : z[i] = IF i <= Len(nl) THEN nl[i] ELSE y[i - Len(nl)]
        /\ Len(z) = Len(nl) + Len(y) /\ Len(y) \in Nat
    <3>1. Len(y) \in Nat /\ y \in Seq(Alphabet)
      BY LenProperties DEF JsonText
    <3> QED BY <1>4, <3>1, ConcatProperties, ZenonT(60)
  <2>3. Len(x) # 0 /\ Len(z) # 0 /\ 1 \in 1..(Len(nl) + Len(b \o u)) /\ 1 \in 1..(Len(nl) + Len(y)) /\ 1 <= Len(nl)
    BY <1>4, <2>1, <2>2
  <2>4. x[1] = nl[1] /\ z[1] = nl[1]
    BY <2>1, <2>2, <2>3
  <2> HIDE DEF x, z
  <2> QED BY <1>4, <1>5, <2>3, <2>4, EmptySeq
<1>7. s \o u = f \o x
  <2>1. Regroups(f, nl \o b, u) /\ Regroups(nl, b, u)
    <3>1. nl \o b \in Seq(Alphabet)
      BY <1>1, <1>4, ConcatProperties DEF JsonText
    <3> QED BY <1>1, <1>4, <3>1, Regroup DEF JsonText
  <2> QED BY <1>1, <2>1 DEF Regroups
<1> HIDE DEF x, z
<1>8. f \o x = a \o z
  BY <1>7 DEF z, nl
<1>9. f = a /\ x = z
  <2>1. x[1] \in {"newline"} /\ z[1] \in {"newline"} /\ f \in Seq(Alphabet) /\ a \in Seq(Alphabet)
    BY <1>1, <1>6 DEF JsonText
  <2> QED BY <1>2, <1>3, <1>5, <1>6, <1>8, <2>1, SameFront, Zenon
<1>10. nl \o (b \o u) = nl \o y
  BY <1>9 DEF x, z
<1>11. b \o u = y
  <2>1. nl \in Seq(Alphabet) /\ b \o u \in Seq(Alphabet) /\ y \in Seq(Alphabet)
    BY <1>4, <1>5 DEF JsonText
  <2> QED BY <1>10, <2>1, ConcatSimplifications, Zenon
<1> QED
  BY <1>9, <1>11 DEF f, b, end

\* What is taken and what is left make up an output, with what is unread.
Reads(d, u, all) ==
  {o \in Output : /\ Framed(o) /\ d.rest \o u = Written(o)
                  /\ d.taken \in Seq(JsonText) /\ d.taken \o Objects(o) = all}

\* Such an output, from what is to be shown of it.
LEMMA ReadsFrom ==
  ASSUME NEW d, NEW u, NEW all, NEW o \in Output, Framed(o), d.rest \o u = Written(o),
         d.taken \in Seq(JsonText), d.taken \o Objects(o) = all
  PROVE  Reads(d, u, all) # {}
<1>1. o \in Reads(d, u, all)
  BY DEF Reads
<1> QED
  BY <1>1

\* A record is taken: the first object of what is left is the last of what is
\* taken.
LEMMA FirstTaken ==
  ASSUME NEW o \in Output, o.words # <<>>, NEW taken \in Seq(JsonText)
  PROVE  /\ Append(taken, First(o)) \in Seq(JsonText)
         /\ Append(taken, First(o)) \o Objects(AfterOpen(o)) = taken \o Objects(o)
<1> DEFINE t == First(o)
           r == Objects(AfterOpen(o))
<1>1. /\ t \in JsonText /\ AfterOpen(o) \in Output /\ Objects(o) = <<t>> \o r
  BY BeginsWhole
<1>2. r \in Seq(JsonText) /\ <<t>> \in Seq(JsonText)
  BY <1>1, ObjectsAre
<1> HIDE DEF t, r
<1>3. Append(taken, t) = taken \o <<t>> /\ Append(taken, t) \in Seq(JsonText)
  BY <1>1, AppendIsConcat, AppendProperties
<1>4. Regroups(taken, <<t>>, r)
  BY <1>2, Regroup
<1> QED
  BY <1>1, <1>3, <1>4 DEF Regroups, t, r

LEMMA LineTurn ==
  ASSUME NEW d \in Bufs, NEW u \in JsonText, NEW all, Reads(d, u, all) # {}
  PROVE  Reads(TakeLine(d), u, all) # {}
<1> DEFINE s == d.rest
           end == Min(Newlines(s))
           front == SubSeq(s, 1, end - 1)
           left == SubSeq(s, end + 1, Len(s))
           cut == Strip(front)
           new == IF cut = <<>> THEN d.taken ELSE Append(d.taken, cut)
           e == TakeLine(d)
           nl == <<"newline">>
<1>1. PICK o \in Reads(d, u, all) : TRUE
  OBVIOUS
<1>2. /\ o \in Output /\ Framed(o) /\ s \o u = Written(o)
      /\ d.taken \in Seq(JsonText) /\ d.taken \o Objects(o) = all /\ s \in JsonText
  BY <1>1 DEF Reads, Bufs
<1>3. CASE Newlines(s) = {}
  BY <1>3 DEF TakeLine
<1>4. CASE Newlines(s) # {}
  <2>1. e = [taken |-> new, rest |-> left]
    BY <1>4 DEF TakeLine
  <2>2. e.taken = new /\ e.rest = left
    <3> HIDE DEF e, new, left
    <3> QED BY <2>1
  <2> DEFINE g == Lead(o)
             b == TrunkOf(o)
  <2>3. g \in Blanks /\ g \in JsonText /\ b \in JsonText /\ s \o u = g \o b
    BY <1>2, BeginsWhole
  <2>4. nl \in JsonText
    <3>1. "newline" \in Alphabet
      BY DEF Alphabet, White
    <3> QED BY <3>1 DEF JsonText
  <2> HIDE DEF s, e, nl
  <2>5. CASE Newlines(g) # {}
    <3>1. PICK v, w \in Blanks : g = v \o (nl \o w) /\ Newlines(v) = {}
      BY <2>3, <2>5, GapWithNewline DEF nl
    <3>2. v \in JsonText /\ w \in JsonText
      BY <3>1, BlankIsText
    <3>3. nl \o w \in JsonText /\ w \o b \in JsonText
      BY <2>3, <2>4, <3>2, ConcatProperties DEF JsonText
    <3>4. Regroups(v, nl \o w, b) /\ Regroups(nl, w, b)
      BY <2>3, <2>4, <3>2, <3>3, Regroup DEF JsonText
    <3>5. s \o u = v \o (nl \o (w \o b))
      BY <2>3, <3>1, <3>4 DEF Regroups
    <3> HIDE DEF g, b
    <3>6. front = v /\ left \o u = w \o b
      BY <1>2, <1>4, <3>1, <3>2, <3>3, <3>5, LineIs DEF nl
    <3> DEFINE o2 == WithLead(o, w)
    <3>7. o2 \in Output /\ Lead(o2) = w /\ TrunkOf(o2) = b /\ Objects(o2) = Objects(o)
      BY <1>2, <3>1, WithLeadIs DEF b
    <3>8. Framed(o2)
      BY <1>2, <2>5, <3>1, FramedWithLead DEF g
    <3> HIDE DEF o2
    <3>9. Written(o2) = w \o b
      BY <3>7, BeginsWhole
    <3>10. new = d.taken
      BY <3>1, <3>6, StripBlank
    <3> HIDE DEF new, left, front
    <3>11. e.rest \o u = Written(o2) /\ e.taken = d.taken
      BY <2>2, <3>6, <3>9, <3>10
    <3> QED BY <1>2, <3>7, <3>8, <3>11, ReadsFrom DEF e
  <2>6. CASE Newlines(g) = {}
    <3> DEFINE a == AfterOpen(o)
               t == First(o)
    <3>1. Newlines(s \o u) # {}
      BY <1>2, <1>4, NewlinesConcat
    <3>2. Newlines(b) # {}
      BY <2>3, <2>6, <3>1, NewlinesConcat
    <3>3. o.words # <<>>
      <4>1. Newlines(<<>>) = {}
        BY DEF Newlines
      <4> QED BY <1>2, <3>2, <4>1, BeginsWhole
    <3>4. a \in Output /\ t \in JsonText /\ t # <<>> /\ b = t \o Written(a) /\ Written(a) \in JsonText
      BY <1>2, <3>3, BeginsWhole, WrittenType
    <3>5. /\ Framed(a) /\ IsObject(t) /\ Newlines(t) = {}
          /\ a.words # <<>> => Newlines(Lead(a)) # {}
      BY <1>2, <3>1, <3>3, FramedAfter
    <3> HIDE DEF a
    <3> DEFINE c == TrunkOf(a)
    <3>6. /\ Lead(a) \in Blanks /\ Lead(a) \in JsonText /\ c \in JsonText /\ Written(a) = Lead(a) \o c
          /\ a.words = <<>> => c = <<>>
      BY <3>4, BeginsWhole
    <3>7. Newlines(Lead(a)) # {}
      <4>1. Newlines(Written(a)) # {}
        BY <3>2, <3>4, <3>5, NewlinesConcat
      <4>2. Newlines(<<>>) = {}
        BY DEF Newlines
      <4>3. CASE a.words = <<>>
        BY <3>6, <4>1, <4>2, <4>3, NewlinesConcat
      <4> QED BY <3>5, <4>3
    <3>8. PICK v, w \in Blanks : Lead(a) = v \o (nl \o w) /\ Newlines(v) = {}
      BY <3>6, <3>7, GapWithNewline DEF nl
    <3>9. v \in JsonText /\ w \in JsonText
      BY <3>8, BlankIsText
    <3> DEFINE z == nl \o (w \o c)
    <3> HIDE DEF c, g, b, t
    <3>10. nl \o w \in JsonText /\ w \o c \in JsonText /\ z \in JsonText
      <4>1. nl \o w \in JsonText /\ w \o c \in JsonText
        BY <2>4, <3>6, <3>9, ConcatProperties DEF JsonText
      <4> QED BY <2>4, <4>1, ConcatProperties DEF JsonText
    <3>11. Written(a) = v \o z
      <4>1. Regroups(v, nl \o w, c) /\ Regroups(nl, w, c)
        BY <2>4, <3>6, <3>9, <3>10, Regroup DEF JsonText
      <4> QED BY <3>6, <3>8, <4>1 DEF Regroups
    <3> HIDE DEF z
    <3>12. t \o v \in JsonText /\ g \o (t \o v) \in JsonText
      <4>1. t \o v \in JsonText
        BY <3>4, <3>9, ConcatProperties DEF JsonText
      <4> QED BY <2>3, <4>1, ConcatProperties DEF JsonText
    <3>13. s \o u = (g \o (t \o v)) \o z
      <4>1. Regroups(t, v, z) /\ Regroups(g, t \o v, z)
        BY <2>3, <3>4, <3>9, <3>10, <3>12, Regroup DEF JsonText
      <4> QED BY <2>3, <3>4, <3>11, <4>1 DEF Regroups
    <3>14. Newlines(g \o (t \o v)) = {}
      BY <2>3, <2>6, <3>4, <3>5, <3>8, <3>9, <3>12, NewlinesConcat
    <3>15. s \o u = (g \o (t \o v)) \o (nl \o (w \o c))
      BY <3>13 DEF z
    <3>16. front = g \o (t \o v) /\ left \o u = w \o c
      <4> DEFINE x == g \o (t \o v)
                 y == w \o c
      <4>1. x \in JsonText /\ y \in JsonText /\ Newlines(x) = {} /\ s \o u = x \o (nl \o y)
        BY <3>10, <3>12, <3>14, <3>15
      <4> HIDE DEF x, y, front, left
      <4>2. front = x /\ left \o u = y
        BY <1>2, <1>4, <4>1, LineIs, Zenon DEF front, left, nl
      <4> QED BY <4>2 DEF x, y
    <3>17. cut = t
      <4>1. t[1] \notin White /\ t[Len(t)] \notin White
        BY <3>4, <3>5, ObjectEnds
      <4>2. Strip(g \o (t \o v)) = t
        BY <2>3, <3>4, <3>8, <4>1, StripPadded
      <4> HIDE DEF front
      <4> QED BY <3>16, <4>2
    <3> HIDE DEF cut
    <3>18. new = Append(d.taken, t)
      BY <3>4, <3>17
    <3> DEFINE o2 == WithLead(a, w)
    <3>19. o2 \in Output /\ Lead(o2) = w /\ TrunkOf(o2) = c /\ Objects(o2) = Objects(a)
      BY <3>4, <3>8, WithLeadIs DEF c
    <3>20. Framed(o2)
      BY <3>4, <3>5, <3>7, <3>8, FramedWithLead
    <3> HIDE DEF o2, new, left, front
    <3>21. Written(o2) = w \o c
      BY <3>19, BeginsWhole
    <3>22. Append(d.taken, t) \in Seq(JsonText) /\ Append(d.taken, t) \o Objects(a) = all
      BY <1>2, <3>3, FirstTaken DEF t, a
    <3>23. /\ e.rest \o u = Written(o2) /\ e.taken \in Seq(JsonText)
           /\ e.taken \o Objects(o2) = all
      BY <2>2, <3>16, <3>18, <3>19, <3>21, <3>22
    <3> QED BY <3>19, <3>20, <3>23, ReadsFrom DEF e
  <2> QED BY <2>5, <2>6
<1> QED
  BY <1>3, <1>4

-----------------------------------------------------------------------------
(***************************************************************************)
(* JsonStream: a turn of _drain_json_objects on an output that is framed.  *)
(***************************************************************************)

\* After the first gap of a framed output there is an object, if anything.
LEMMA FirstInk ==
  ASSUME NEW o \in Output, Framed(o), o.words # <<>>
  PROVE  /\ IsObject(First(o)) /\ TrunkOf(o) # <<>> /\ TrunkOf(o)[1] = "{" /\ TrunkOf(o)[1] \in Alphabet \ White
<1> DEFINE t == First(o)
           x == Written(AfterOpen(o))
<1>1. AfterOpen(o) \in Output /\ t \in JsonText /\ TrunkOf(o) = t \o x
  BY BeginsWhole
<1>2. x \in JsonText
  BY <1>1, WrittenType
<1>3. IsObject(t)
  BY FramedAfter
<1> HIDE DEF t, x
<1>4. t[1] = "{" /\ t[1] \notin White
  BY <1>1, <1>3, ObjectEnds
<1>4a. Len(t) \in Nat \ {0}
  BY <1>1, <1>3, ObjectEnds
<1>5. /\ Len(t \o x) = Len(t) + Len(x) /\ Len(x) \in Nat /\ t \o x \in Seq(Alphabet)
  <2>1. t \in Seq(Alphabet) /\ x \in Seq(Alphabet)
    BY <1>1, <1>2 DEF JsonText
  <2> QED BY <2>1, ConcatProperties, LenProperties
<1>6. 1 \in 1..Len(t) /\ Len(t \o x) # 0
  BY <1>5, <1>4a
<1>7. t \o x # <<>>
  BY <1>5, <1>6, EmptySeq
<1>8. (t \o x)[1] = t[1]
  BY <1>1, <1>2, <1>6, ClosesPrefix
<1>9. "{" \in Alphabet
  BY DEF Alphabet
<1> QED
  BY <1>1, <1>3, <1>4, <1>7, <1>8, <1>9 DEF t

\* The end of white space is white space.
LEMMA BlankRest ==
  ASSUME NEW s \in JsonText, NEW x \in JsonText, s \o x \in Blanks
  PROVE  x \in Blanks /\ (Newlines(s \o x) = {} => Newlines(x) = {})
<1>1. /\ Len(s) \in Nat /\ Len(x) \in Nat /\ x \in [1..Len(x) -> Alphabet]
      /\ \A i \in 1..(Len(s) + Len(x)) : (s \o x)[i] = IF i <= Len(s) THEN s[i] ELSE x[i - Len(s)]
      /\ Len(s \o x) = Len(s) + Len(x)
  BY LenProperties, ConcatProperties DEF JsonText
<1>2. \A i \in 1..Len(s \o x) : (s \o x)[i] \in White
  BY ElementOfSeq DEF Blanks
<1>3. ASSUME NEW i \in 1..Len(x) PROVE x[i] \in White
  <2>1. Len(s) + i \in 1..(Len(s) + Len(x)) /\ ~(Len(s) + i <= Len(s)) /\ (Len(s) + i) - Len(s) = i
    BY <1>1
  <2> QED BY <1>1, <1>2, <2>1
<1>4. x \in Blanks
  BY <1>1, <1>3 DEF Blanks
<1> QED
  BY <1>4, NewlinesConcat

\* A whole object in front of a buffer is taken from it.
LEMMA TakeWhole ==
  ASSUME NEW d \in Bufs, NEW t \in JsonText, NEW x \in JsonText,
         IsObject(t), LStrip(d.rest) = t \o x
  PROVE  /\ TakeObject(d).taken = Append(d.taken, t)
         /\ \E w \in Blanks : /\ TakeObject(d).rest = w \o x /\ Newlines(w) = {}
                              /\ Len(w) = Len(d.rest) - Len(t \o x)
<1> DEFINE s == d.rest
           bare == LStrip(s)
           end == ObjectEnd(bare)
           spaces == [i \in 1..(Len(s) - Len(bare)) |-> "space"]
<1>1. s \in JsonText
  BY DEF Bufs
<1>2. Len(bare) <= Len(s) /\ Len(s) \in Nat /\ Len(bare) \in Nat
  BY <1>1, StripInk, LenProperties DEF JsonText
<1>3. end = Len(t)
  BY ObjectInFront
<1>4. Len(t) \in Nat \ {0}
  BY ObjectEnds
<1>5. /\ bare \in Seq(Alphabet) /\ Len(bare) = Len(t) + Len(x) /\ Len(x) \in Nat
      /\ t \in Seq(Alphabet) /\ x \in Seq(Alphabet)
  BY ConcatProperties, LenProperties DEF JsonText
<1>6. bare # <<>> /\ end # 0
  <2>1. Len(bare) # 0 /\ end # 0
    BY <1>3, <1>4, <1>5
  <2> HIDE DEF bare, end
  <2> QED BY <1>5, <2>1, EmptySeq
<1>7. TakeObject(d) = [taken |-> Append(d.taken, SubSeq(bare, 1, end)),
                       rest |-> spaces \o SubSeq(bare, end + 1, Len(bare))]
  BY <1>6 DEF TakeObject
<1>8. SubSeq(bare, 1, Len(t)) = t /\ SubSeq(bare, Len(t) + 1, Len(bare)) = x
  <2> DEFINE f == SubSeq(bare, 1, Len(t))
             b == SubSeq(bare, Len(t) + 1, Len(bare))
  <2>1. Len(t) \in 0..Len(bare)
    BY <1>4, <1>5
  <2>2. f \in Seq(Alphabet) /\ b \in Seq(Alphabet) /\ Len(f) = Len(t)
    BY <1>5, <2>1, Split, Zenon
  <2>3. bare = f \o b
    BY <1>5, <2>1, Split, Zenon
  <2> HIDE DEF f, b
  <2>4. t \o x = f \o b
    BY <2>3
  <2>5. GoesOn(Alphabet, t, x, f, b)
    <3>1. Len(t) <= Len(f)
      BY <1>4, <2>2
    <3> QED BY <1>5, <2>2, <2>4, <3>1, ShorterFront, Zenon
  <2>6. PICK y \in Seq(Alphabet) : f = t \o y /\ x = y \o b
    BY <2>5 DEF GoesOn
  <2>7. y = <<>>
    <3>1. Len(t \o y) = Len(t) + Len(y) /\ Len(y) \in Nat
      BY <1>5, ConcatProperties, LenProperties
    <3>2. Len(y) = 0
      BY <1>4, <2>2, <2>6, <3>1
    <3> QED BY <3>2, EmptySeq
  <2>8. f = t /\ x = b
    BY <1>5, <2>2, <2>6, <2>7, ConcatEmptySeq
  <2> QED BY <2>8 DEF f, b
<1>9. Len(s) - Len(bare) \in Nat
  BY <1>2
<1>10. spaces \in Blanks /\ Len(spaces) = Len(s) - Len(bare) /\ Newlines(spaces) = {}
  <2>1. spaces \in Blanks /\ Len(spaces) = Len(s) - Len(bare)
    BY <1>9, SpacesAre
  <2>2. \A i \in 1..(Len(s) - Len(bare)) : spaces[i] # "newline"
    <3> HIDE DEF bare
    <3> QED OBVIOUS
  <2>3. DOMAIN spaces = 1..(Len(s) - Len(bare))
    OBVIOUS
  <2> HIDE DEF spaces
  <2> QED BY <2>1, <2>2, <2>3 DEF Newlines
<1> HIDE DEF spaces, bare, end
<1>11. TakeObject(d).taken = Append(d.taken, t) /\ TakeObject(d).rest = spaces \o x
  <2>1. TakeObject(d) = [taken |-> Append(d.taken, t), rest |-> spaces \o x]
    BY <1>3, <1>7, <1>8
  <2> QED BY <2>1
<1> QED
  BY <1>10, <1>11 DEF bare, s

\* The ink of a buffer begins where the first object of an output does.
LEMMA InkMeets ==
  ASSUME NEW s \in JsonText, NEW u \in JsonText, InkAt(s) # {},
         NEW o \in Output, Framed(o), s \o u = Written(o)
  PROVE  /\ o.words # <<>> /\ LStrip(s) \in JsonText /\ LStrip(s) # <<>>
         /\ LStrip(s) \o u = TrunkOf(o)
<1> DEFINE bare == LStrip(s)
           g == Lead(o)
           b == TrunkOf(o)
           v == SubSeq(s, 1, Min(InkAt(s)) - 1)
           P == Alphabet \ White
<1>0. /\ g \in Blanks /\ g \in JsonText /\ b \in JsonText /\ s \o u = g \o b
      /\ o.words = <<>> => b = <<>>
  BY BeginsWhole
<1>1. /\ v \in Blanks /\ bare \in JsonText \ {<<>>} /\ s = v \o bare /\ bare[1] \in P
      /\ v \in JsonText
  <2> DEFINE m == Min(InkAt(s))
  <2>1. /\ v \in Blanks /\ bare \in JsonText \ {<<>>} /\ s = v \o bare
        /\ m \in 1..Len(s) /\ s[m] \notin White /\ bare = SubSeq(s, m, Len(s))
    BY StripIs
  <2>2. Len(s) \in Nat
    BY LenProperties DEF JsonText
  <2>3. s[m] \in Alphabet
    BY <2>1, ElementOfSeq DEF JsonText
  <2> HIDE DEF m, bare, v
  <2>4. bare[1] = s[m]
    BY <2>1, <2>2
  <2> QED BY <2>1, <2>3, <2>4, BlankIsText
<1> HIDE DEF v, bare
<1>2. \A i \in 1..Len(v) : v[i] \notin P
  BY <1>1, ElementOfSeq DEF Blanks
<1>3. \A i \in 1..Len(g) : g[i] \notin P
  BY <1>0, ElementOfSeq DEF Blanks
<1> DEFINE y == bare \o u
<1>4. y \in JsonText /\ y # <<>> /\ y[1] \in P
  <2>1. /\ y \in Seq(Alphabet) /\ Len(y) = Len(bare) + Len(u) /\ Len(u) \in Nat /\ Len(bare) \in Nat \ {0}
        /\ \A i \in 1..(Len(bare) + Len(u)) : y[i] = IF i <= Len(bare) THEN bare[i] ELSE u[i - Len(bare)]
    BY <1>1, ConcatProperties, LenProperties, EmptySeq DEF JsonText
  <2>2. 1 \in 1..(Len(bare) + Len(u)) /\ 1 <= Len(bare) /\ Len(y) # 0
    BY <2>1
  <2> HIDE DEF y, P
  <2> QED BY <1>1, <2>1, <2>2, EmptySeq DEF JsonText
<1>5. v \o y = g \o b
  <2>1. Regroups(v, bare, u)
    BY <1>1, Regroup DEF JsonText
  <2> QED BY <1>0, <1>1, <2>1 DEF Regroups
<1> HIDE DEF y
<1>6. o.words # <<>>
  <2> SUFFICES ASSUME o.words = <<>> PROVE FALSE
    OBVIOUS
  <2>1. v \o y = g
    <3>1. b = <<>>
      BY <1>0
    <3> HIDE DEF g, b
    <3> QED BY <1>0, <1>5, <3>1, ConcatEmptySeq DEF JsonText
  <2>2. y \in Blanks
    BY <1>0, <1>1, <1>4, <2>1, BlankRest
  <2>3. Len(y) # 0 /\ Len(y) \in Nat
    BY <1>4, EmptySeq DEF JsonText
  <2>4. 1 \in 1..Len(y)
    BY <2>3
  <2>5. y[1] \in White
    BY <2>2, <2>4, ElementOfSeq DEF Blanks
  <2> QED BY <1>4, <2>5
<1>7. b # <<>> /\ b[1] \in P
  BY <1>6, FirstInk
<1> HIDE DEF P, g, b
<1>8. y = b
  <2>1. v \in Seq(Alphabet) /\ g \in Seq(Alphabet) /\ y \in Seq(Alphabet) /\ b \in Seq(Alphabet)
    BY <1>0, <1>1, <1>4 DEF JsonText
  <2> QED BY <1>2, <1>3, <1>4, <1>5, <1>7, <2>1, SameFront, Zenon
<1> QED
  BY <1>1, <1>6, <1>8 DEF y, b, bare

LEMMA ObjectTurn ==
  ASSUME NEW d \in Bufs, NEW u \in JsonText, NEW all, NEW o \in Reads(d, u, all)
  PROVE  \E o2 \in Reads(TakeObject(d), u, all) :
           u = <<>> => \/ o2.words = <<>>
                       \/ o.words # <<>> /\ Len(TakeObject(d).rest) < Len(d.rest)
<1> DEFINE s == d.rest
           bare == LStrip(s)
           e == TakeObject(d)
           g == Lead(o)
           b == TrunkOf(o)
<1>1. /\ o \in Output /\ Framed(o) /\ s \o u = Written(o)
      /\ d.taken \in Seq(JsonText) /\ d.taken \o Objects(o) = all /\ s \in JsonText
  BY DEF Reads, Bufs
<1>2. /\ g \in Blanks /\ g \in JsonText /\ b \in JsonText /\ s \o u = g \o b
      /\ o.words = <<>> => b = <<>>
  BY <1>1, BeginsWhole
<1>3. CASE InkAt(s) = {}
  <2>1. s \in Blanks /\ bare = <<>>
    BY <1>1, <1>3, NoInkIsBlank DEF LStrip
  <2>2. e.taken = d.taken /\ e.rest = <<>>
    <3>1. e = [d EXCEPT !.rest = <<>>]
      BY <2>1 DEF TakeObject
    <3> QED BY <3>1 DEF Bufs
  <2> HIDE DEF s, e, bare
  <2>3. /\ Len(s) \in Nat /\ Len(u) \in Nat /\ Len(g) \in Nat /\ Len(b) \in Nat
        /\ Len(s \o u) = Len(s) + Len(u) /\ Len(g \o b) = Len(g) + Len(b)
        /\ \A i \in 1..(Len(s) + Len(u)) : (s \o u)[i] = IF i <= Len(s) THEN s[i] ELSE u[i - Len(s)]
        /\ \A i \in 1..(Len(g) + Len(b)) : (g \o b)[i] = IF i <= Len(g) THEN g[i] ELSE b[i - Len(g)]
    <3> HIDE DEF g, b
    <3> QED BY <1>1, <1>2, ConcatProperties, LenProperties DEF JsonText
  <2>4. Len(s) <= Len(g)
    <3> SUFFICES ASSUME Len(g) < Len(s) PROVE FALSE
      BY <2>3
    <3>1. Len(b) # 0
      BY <1>2, <2>3
    <3>2. o.words # <<>>
      BY <1>2, <3>1, EmptySeq
    <3>3. b[1] \notin White
      BY <1>1, <3>2, FirstInk
    <3>4. /\ Len(g) + 1 \in 1..(Len(s) + Len(u)) /\ Len(g) + 1 \in 1..(Len(g) + Len(b))
          /\ Len(g) + 1 <= Len(s) /\ ~(Len(g) + 1 <= Len(g)) /\ (Len(g) + 1) - Len(g) = 1
          /\ Len(g) + 1 \in 1..Len(s)
      BY <2>3, <3>1
    <3> HIDE DEF g, b
    <3>5. s[Len(g) + 1] = b[1]
      BY <1>2, <2>3, <3>4
    <3>6. s[Len(g) + 1] \in White
      BY <2>1, <3>4, ElementOfSeq DEF Blanks
    <3> QED BY <3>3, <3>5, <3>6
  <2> HIDE DEF g, b
  <2>5. PICK x \in Seq(Alphabet) : g = s \o x /\ u = x \o b
    <3>1. GoesOn(Alphabet, s, u, g, b)
      BY <1>1, <1>2, <2>4, ShorterFront DEF JsonText
    <3> QED BY <3>1 DEF GoesOn
  <2>6. x \in Blanks /\ (Newlines(g) = {} => Newlines(x) = {}) /\ x \in JsonText
    BY <1>1, <1>2, <2>5, BlankRest DEF JsonText
  <2> DEFINE o2 == WithLead(o, x)
  <2>7. /\ o2 \in Output /\ Lead(o2) = x /\ TrunkOf(o2) = b /\ Objects(o2) = Objects(o)
        /\ o2.words = <<>> <=> o.words = <<>>
    BY <1>1, <2>6, WithLeadIs DEF b
  <2>8. Framed(o2)
    BY <1>1, <2>6, FramedWithLead DEF g
  <2> HIDE DEF o2
  <2>9. Written(o2) = x \o b
    BY <2>7, BeginsWhole
  <2>10. e.rest \o u = Written(o2)
    <3>1. <<>> \o u = u
      BY ConcatEmptySeq DEF JsonText
    <3> QED BY <2>2, <2>5, <2>9, <3>1
  <2>11. o2 \in Reads(e, u, all)
    BY <1>1, <2>2, <2>7, <2>8, <2>10 DEF Reads
  <2>12. u = <<>> => o2.words = <<>>
    <3> SUFFICES ASSUME u = <<>>, o2.words # <<>> PROVE FALSE
      OBVIOUS
    <3>1. b # <<>>
      BY <1>1, <2>7, FirstInk DEF b
    <3>2. x \o b = <<>> /\ b \in Seq(Alphabet)
      BY <1>2, <2>5 DEF JsonText
    <3> QED BY <2>5, <3>1, <3>2, ConcatSimplifications
  <2> QED BY <2>11, <2>12 DEF e
<1>4. CASE InkAt(s) # {}
  <2> DEFINE t == First(o)
             a == AfterOpen(o)
  <2>1. o.words # <<>> /\ bare \in JsonText /\ bare # <<>> /\ bare \o u = b
    BY <1>1, <1>4, InkMeets
  <2>2. /\ a \in Output /\ t \in JsonText /\ t # <<>> /\ b = t \o Written(a) /\ Written(a) \in JsonText
        /\ Framed(a) /\ IsObject(t)
    BY <1>1, <2>1, BeginsWhole, WrittenType, FramedAfter
  <2> HIDE DEF g, b, t, a, s, bare, e
  <2>3. bare \o u = t \o Written(a)
    BY <2>1, <2>2
  <2>4. /\ bare \in Seq(Alphabet) /\ t \in Seq(Alphabet) /\ u \in Seq(Alphabet) /\ Written(a) \in Seq(Alphabet)
        /\ Len(bare) \in Nat /\ Len(t) \in Nat \ {0}
    BY <2>1, <2>2, LenProperties, EmptySeq DEF JsonText
  <2>5. CASE Len(bare) < Len(t)
    <3>1. GoesOn(Alphabet, bare, u, t, Written(a))
      <4>1. Len(bare) <= Len(t)
        BY <2>4, <2>5
      <4> QED BY <2>3, <2>4, <4>1, ShorterFront, Zenon
    <3>2. PICK x \in Seq(Alphabet) : t = bare \o x /\ u = x \o Written(a)
      BY <3>1 DEF GoesOn
    <3>3. x # <<>>
      <4>1. Len(bare \o x) = Len(bare) + Len(x)
        BY <2>4, <3>2, ConcatProperties
      <4>2. Len(x) # 0
        BY <2>4, <2>5, <3>2, <4>1
      <4> QED BY <4>2, EmptySeq
    <3>4. ObjectEnd(bare) = 0
      BY <2>1, <2>2, <3>2, <3>3, ObjectCut DEF JsonText
    <3>5. e = d
      <4>1. LStrip(d.rest) # <<>> /\ ObjectEnd(LStrip(d.rest)) = 0
        BY <2>1, <3>4 DEF bare, s
      <4>2. /\ LStrip(d.rest) = <<>> => TakeObject(d) = [d EXCEPT !.rest = <<>>]
            /\ LStrip(d.rest) # <<>> /\ ObjectEnd(LStrip(d.rest)) = 0 => TakeObject(d) = d
        BY DEF TakeObject
      <4> QED BY <4>1, <4>2 DEF e
    <3>6. u # <<>>
      BY <2>4, <3>2, <3>3, ConcatSimplifications
    <3> QED BY <3>5, <3>6 DEF e
  <2>6. CASE ~(Len(bare) < Len(t))
    <3>1. GoesOn(Alphabet, t, Written(a), bare, u)
      <4>1. Len(t) <= Len(bare)
        BY <2>4, <2>6
      <4> QED BY <2>3, <2>4, <4>1, ShorterFront, Zenon
    <3>2. PICK x \in Seq(Alphabet) : bare = t \o x /\ Written(a) = x \o u
      BY <3>1 DEF GoesOn
    <3>3. x \in JsonText
      BY <3>2 DEF JsonText
    <3>4. /\ e.taken = Append(d.taken, t)
          /\ \E w \in Blanks : /\ e.rest = w \o x /\ Newlines(w) = {} /\ Len(w) = Len(s) - Len(bare)
      <4>1. LStrip(d.rest) = t \o x
        BY <3>2 DEF bare, s
      <4>2. /\ TakeObject(d).taken = Append(d.taken, t)
            /\ \E w \in Blanks : /\ TakeObject(d).rest = w \o x /\ Newlines(w) = {}
                                 /\ Len(w) = Len(d.rest) - Len(t \o x)
        BY <2>2, <3>3, <4>1, TakeWhole, ZenonT(60)
      <4>3. Len(d.rest) - Len(t \o x) = Len(s) - Len(bare)
        BY <3>2 DEF s
      <4> HIDE DEF bare
      <4> QED BY <4>2, <4>3 DEF e
    <3>5. PICK w \in Blanks : e.rest = w \o x /\ Newlines(w) = {} /\ Len(w) = Len(s) - Len(bare)
      BY <3>4
    <3> DEFINE c == TrunkOf(a)
               h == Lead(a)
    <3>6. h \in Blanks /\ h \in JsonText /\ c \in JsonText /\ Written(a) = h \o c
      BY <2>2, BeginsWhole
    <3>7. w \in JsonText /\ w \o h \in Blanks
      BY <3>6, BlankIsText, ConcatProperties DEF Blanks
    <3> DEFINE o2 == WithLead(a, w \o h)
    <3>8. o2 \in Output /\ Lead(o2) = w \o h /\ TrunkOf(o2) = c /\ Objects(o2) = Objects(a)
      BY <2>2, <3>7, WithLeadIs
    <3>9. Framed(o2)
      <4>1. Newlines(h) = {} => Newlines(w \o h) = {}
        BY <3>5, <3>6, <3>7, NewlinesConcat
      <4> QED BY <2>2, <3>7, <4>1, FramedWithLead
    <3> HIDE DEF o2, c, h
    <3>10. Written(o2) = (w \o h) \o c
      BY <3>8, BeginsWhole
    <3>11. Regroups(w, h, c) /\ Regroups(w, x, u)
      BY <3>3, <3>6, <3>7, Regroup DEF JsonText
    <3>12. e.rest \o u = Written(o2)
      BY <3>2, <3>5, <3>6, <3>10, <3>11 DEF Regroups
    <3>13. Append(d.taken, t) \in Seq(JsonText) /\ Append(d.taken, t) \o Objects(a) = all
      BY <1>1, <2>1, FirstTaken DEF t, a
    <3>14. o2 \in Reads(e, u, all)
      BY <3>4, <3>8, <3>9, <3>12, <3>13 DEF Reads
    <3>15. Len(e.rest) < Len(s)
      <4>1. Len(w \o x) = Len(w) + Len(x) /\ Len(bare) = Len(t) + Len(x) /\ Len(x) \in Nat
        BY <2>4, <3>2, <3>7, ConcatProperties, LenProperties DEF JsonText
      <4>2. Len(s) \in Nat
        BY <1>1, LenProperties DEF JsonText
      <4> QED BY <2>4, <3>5, <4>1, <4>2
    <3> QED BY <2>1, <3>14, <3>15 DEF e, s
  <2> QED BY <2>5, <2>6
<1> QED
  BY <1>3, <1>4

-----------------------------------------------------------------------------
(***************************************************************************)
(* JsonStream: feed and finalize on an output that is framed.              *)
(***************************************************************************)

\* A loop leaves a buffer that makes up a framed output with what is unread.
LEMMA DrainWhole ==
  ASSUME NEW s \in JsonText, NEW u \in JsonText, NEW o \in Output, Framed(o),
         s \o u = Written(o), NEW what
  PROVE  Drain(s, what) \in Bufs /\ Reads(Drain(s, what), u, Objects(o)) # {}
<1> DEFINE all == Objects(o)
           I == {d \in Bufs : Reads(d, u, all) # {}}
<1>1. Whole(s) \in I
  <2>1. Whole(s) \in Bufs /\ Whole(s).taken = <<>> /\ Whole(s).rest = s
    BY DEF Whole, Bufs
  <2>2. <<>> \in Seq(JsonText) /\ <<>> \o all = all
    BY ObjectsAre, ConcatEmptySeq
  <2> HIDE DEF all
  <2>3. Reads(Whole(s), u, all) # {}
    BY <2>1, <2>2, ReadsFrom DEF all
  <2> QED BY <2>1, <2>3
<1> HIDE DEF all
<1>2. ASSUME NEW d \in I PROVE LoopTurn(d, what) \in I
  <2>1. d \in Bufs /\ Reads(d, u, all) # {}
    OBVIOUS
  <2>2. TakeLine(d) \in I
    BY <2>1, LineTurn, TakeLineInk
  <2>3. TakeObject(d) \in I
    <3>1. PICK o1 \in Reads(d, u, all) : TRUE
      BY <2>1
    <3>2. Reads(TakeObject(d), u, all) # {}
      BY <2>1, <3>1, ObjectTurn
    <3> QED BY <2>1, <3>2, TakeObjectInk
  <2> HIDE DEF I
  <2> QED BY <2>2, <2>3 DEF LoopTurn
<1> HIDE DEF I
<1>3. Drain(s, what) \in I
  BY <1>1, <1>2, DrainStays
<1> QED
  BY <1>3 DEF I, all

LEMMA OneTurnMore ==
  ASSUME NEW m \in Nat, NEW n \in Nat, NEW k \in Nat, NEW l \in Nat, n + k <= l, m < n
  PROVE  m + (k + 1) <= l
OBVIOUS

\* When nothing is unread, the loop of objects leaves white space.
LEMMA DrainAll ==
  ASSUME NEW s \in JsonText, NEW o \in Output, Framed(o), s \o <<>> = Written(o)
  PROVE  LET d == Drain(s, "objects") IN
         d \in Bufs /\ \E o2 \in Reads(d, <<>>, Objects(o)) : o2.words = <<>>
<1> DEFINE all == Objects(o)
           Left(d, k) == \E o2 \in Reads(d, <<>>, all) : o2.words = <<>> \/ Len(d.rest) + k <= Len(s)
           J == {p \in Nat \X Bufs : Left(p[2], p[1])}
           d == Drain(s, "objects")
<1>0. Len(s) \in Nat /\ <<>> \in JsonText
  BY LenProperties DEF JsonText
<1>1. <<0, Whole(s)>> \in J
  <2>1. Whole(s) \in Bufs /\ Whole(s).taken = <<>> /\ Whole(s).rest = s
    BY DEF Whole, Bufs
  <2>2. <<>> \in Seq(JsonText) /\ <<>> \o all = all
    BY ObjectsAre, ConcatEmptySeq
  <2> HIDE DEF all
  <2>3. PICK o2 \in Reads(Whole(s), <<>>, all) : TRUE
    BY <2>1, <2>2, ReadsFrom DEF all
  <2>4. Left(Whole(s), 0)
    BY <1>0, <2>1, <2>3
  <2> HIDE DEF Left
  <2> QED BY <2>1, <2>4
<1> HIDE DEF all
<1>2. ASSUME NEW k \in 0..(Len(s) - 1), NEW e, <<k, e>> \in J
      PROVE  <<k + 1, LoopTurn(e, "objects")>> \in J
  <2>1. e \in Bufs /\ Left(e, k) /\ k \in Nat
    <3> HIDE DEF Left
    <3> QED BY <1>2
  <2>2. PICK o1 \in Reads(e, <<>>, all) : o1.words = <<>> \/ Len(e.rest) + k <= Len(s)
    BY <2>1
  <2> DEFINE f == TakeObject(e)
  <2>3. PICK o2 \in Reads(f, <<>>, all) :
          o2.words = <<>> \/ (o1.words # <<>> /\ Len(f.rest) < Len(e.rest))
    BY <1>0, <2>1, ObjectTurn
  <2>4. f \in Bufs
    BY <2>1, TakeObjectInk
  <2>5. Len(f.rest) \in Nat /\ Len(e.rest) \in Nat
    <3> HIDE DEF f
    <3>1. f.rest \in Seq(Alphabet) /\ e.rest \in Seq(Alphabet)
      BY <2>1, <2>4 DEF Bufs, JsonText
    <3> QED BY <3>1, LenProperties
  <2> HIDE DEF f
  <2>6. o2.words = <<>> \/ Len(f.rest) + (k + 1) <= Len(s)
    <3>1. k \in Nat
      BY <2>1
    <3>2. CASE o2.words = <<>>
      BY <3>2
    <3>3. CASE o2.words # <<>>
      <4>1. Len(e.rest) + k <= Len(s) /\ Len(f.rest) < Len(e.rest)
        BY <2>2, <2>3, <3>3
      <4>2. Len(s) \in Nat
        BY <1>0
      <4>3. Len(f.rest) + (k + 1) <= Len(s)
        BY <2>5, <3>1, <4>1, <4>2, OneTurnMore
      <4> QED BY <4>3
    <3> QED BY <3>2, <3>3
  <2>7. Left(f, k + 1)
    BY <2>6
  <2> HIDE DEF Left
  <2> QED BY <2>1, <2>4, <2>7 DEF LoopTurn, f
<1>3. \A k \in 0..(Len(s) - 1) : \A e : <<k, e>> \in J => <<k + 1, LoopTurn(e, "objects")>> \in J
  <2> HIDE DEF J
  <2> QED BY <1>2
<1>4. <<Len(s), d>> \in J
  <2> HIDE DEF J, d
  <2> QED BY <1>1, <1>3, DrainReaches DEF d
<1> HIDE DEF d
<1>5. d \in Bufs /\ Left(d, Len(s))
  <2> HIDE DEF Left
  <2> QED BY <1>4
<1>6. PICK o2 \in Reads(d, <<>>, all) : o2.words = <<>> \/ Len(d.rest) + Len(s) <= Len(s)
  BY <1>5
<1>7. o2.words = <<>>
  <2> SUFFICES ASSUME Len(d.rest) + Len(s) <= Len(s), o2.words # <<>> PROVE FALSE
    BY <1>6
  <2>1. d.rest \in Seq(Alphabet) /\ Len(d.rest) \in Nat
    BY <1>5, LenProperties DEF Bufs, JsonText
  <2>2. Len(d.rest) = 0
    BY <1>0, <2>1
  <2>3. d.rest \o <<>> = <<>> /\ o2 \in Output /\ Framed(o2)
    <3>1. d.rest = <<>>
      BY <2>1, <2>2, EmptySeq
    <3> QED BY <2>1, <3>1, ConcatEmptySeq DEF Reads
  <2>4. Lead(o2) \in Seq(Alphabet) /\ TrunkOf(o2) \in Seq(Alphabet) /\ Lead(o2) \o TrunkOf(o2) = <<>>
    BY <2>3, BeginsWhole DEF Reads, JsonText
  <2>5. TrunkOf(o2) # <<>>
    BY <2>3, FirstInk
  <2> QED BY <2>4, <2>5, ConcatSimplifications
<1> QED
  BY <1>5, <1>6, <1>7 DEF all, d

\* What two loops take, one after the other; for texts to be named.
TakesTwice(s, t, o, o1) ==
  s \o t \in Seq(JsonText) /\ (s \o t) \o Objects(o) = s \o Objects(o1)

LEMMA TakenTwice ==
  ASSUME NEW s \in Seq(JsonText), NEW t \in Seq(JsonText), NEW o \in Output, NEW o1,
         t \o Objects(o) = Objects(o1)
  PROVE  TakesTwice(s, t, o, o1)
<1> DEFINE r == Objects(o)
<1>1. r \in Seq(JsonText)
  BY ObjectsAre
<1> HIDE DEF r
<1>2. Regroups(s, t, r) /\ s \o t \in Seq(JsonText)
  BY <1>1, Regroup, ConcatProperties
<1>3. (s \o t) \o r = s \o Objects(o1)
  BY <1>2 DEF Regroups, r
<1> QED
  BY <1>2, <1>3 DEF TakesTwice, r

\* Where a buffer begins with ink, it begins with an object.
LEMMA NotTooLong ==
  ASSUME NEW r \in JsonText, NEW u \in JsonText, NEW o \in Output, Framed(o), r \o u = Written(o)
  PROVE  ~TooLong(r)
<1> DEFINE bare == LStrip(r)
<1> SUFFICES ASSUME bare # <<>> PROVE bare[1] = "{"
  BY DEF TooLong
<1>1. InkAt(r) # {}
  BY DEF LStrip
<1>2. o.words # <<>> /\ bare \in JsonText /\ bare \o u = TrunkOf(o)
  BY <1>1, InkMeets
<1> HIDE DEF bare
<1>3. TrunkOf(o)[1] = "{"
  BY <1>2, FirstInk
<1>4. 1 \in 1..Len(bare)
  <2>1. Len(bare) # 0 /\ Len(bare) \in Nat
    BY <1>2, EmptySeq DEF JsonText
  <2> QED BY <2>1
<1>5. (bare \o u)[1] = bare[1]
  BY <1>2, <1>4, ClosesPrefix
<1> QED
  BY <1>2, <1>3, <1>5

LEMMA FeedWhole ==
  ASSUME NEW s \in JsonText, NEW u \in JsonText, NEW o \in Output, Framed(o), s \o u = Written(o)
  PROVE  Reads(Feed(s), u, Objects(o)) # {} /\ ~TooLong(Feed(s).rest)
<1> DEFINE d == Drain(s, "lines")
           e == Drain(d.rest, "objects")
           fed == Feed(s)
           all == Objects(o)
<1>1. PICK o1 \in Reads(d, u, all) : TRUE
  BY DrainWhole
<1>2. d \in Bufs
  BY DrainWhole
<1>3. fed = IF Len(d.rest) <= BufferLimit THEN d ELSE [taken |-> d.taken \o e.taken, rest |-> e.rest]
  BY DEF Feed
<1>4. fed \in Bufs
  BY FeedInk
<1> HIDE DEF d, fed, all
<1>5. /\ o1 \in Output /\ Framed(o1) /\ d.rest \o u = Written(o1) /\ d.rest \in JsonText
      /\ d.taken \in Seq(JsonText) /\ d.taken \o Objects(o1) = all
  BY <1>1, <1>2 DEF Reads, Bufs
<1>6. Reads(fed, u, all) # {}
  <2>1. CASE Len(d.rest) <= BufferLimit
    BY <1>1, <1>3, <2>1
  <2>2. CASE ~(Len(d.rest) <= BufferLimit)
    <3>1. PICK o2 \in Reads(e, u, Objects(o1)) : TRUE
      BY <1>5, DrainWhole
    <3> HIDE DEF e
    <3>2. /\ o2 \in Output /\ Framed(o2) /\ e.rest \o u = Written(o2)
          /\ e.taken \in Seq(JsonText) /\ e.taken \o Objects(o2) = Objects(o1)
      BY <3>1 DEF Reads
    <3>3. d.taken \o e.taken \in Seq(JsonText) /\ (d.taken \o e.taken) \o Objects(o2) = all
      <4>1. TakesTwice(d.taken, e.taken, o2, o1)
        BY <1>5, <3>2, TakenTwice
      <4> QED BY <1>5, <4>1 DEF TakesTwice
    <3>4. fed.taken = d.taken \o e.taken /\ fed.rest = e.rest
      BY <1>3, <2>2
    <3> QED BY <3>2, <3>3, <3>4, ReadsFrom
  <2> QED BY <2>1, <2>2
<1>7. ~TooLong(fed.rest)
  <2>1. PICK o3 \in Reads(fed, u, all) : TRUE
    BY <1>6
  <2>2. o3 \in Output /\ Framed(o3) /\ fed.rest \o u = Written(o3) /\ fed.rest \in JsonText
    BY <1>4, <2>1 DEF Reads, Bufs
  <2> QED BY <2>2, NotTooLong
<1> QED
  BY <1>6, <1>7 DEF fed, all

LEMMA FinalizeWhole ==
  ASSUME NEW s \in JsonText, NEW o \in Output, Framed(o), s \o <<>> = Written(o)
  PROVE  Finalize(s) = Objects(o)
<1> DEFINE d == Drain(s, "lines")
           e == Drain(d.rest, "objects")
           tail == Strip(e.rest)
           all == Objects(o)
<1>0. <<>> \in JsonText
  BY DEF JsonText
<1>1. PICK o1 \in Reads(d, <<>>, all) : TRUE
  BY <1>0, DrainWhole
<1>2. d \in Bufs
  BY <1>0, DrainWhole
<1>3. Finalize(s) = (d.taken \o e.taken) \o (IF tail = <<>> THEN <<>> ELSE <<tail>>)
  BY DEF Finalize
<1> HIDE DEF d
<1>4. /\ o1 \in Output /\ Framed(o1) /\ d.rest \o <<>> = Written(o1) /\ d.rest \in JsonText
      /\ d.taken \in Seq(JsonText) /\ d.taken \o Objects(o1) = all
  BY <1>1, <1>2 DEF Reads, Bufs
<1>5. e \in Bufs /\ \E o2 \in Reads(e, <<>>, Objects(o1)) : o2.words = <<>>
  BY <1>4, DrainAll
<1> HIDE DEF e, all
<1>6. PICK o2 \in Reads(e, <<>>, Objects(o1)) : o2.words = <<>>
  BY <1>5
<1>7. /\ o2 \in Output /\ e.rest \o <<>> = Written(o2) /\ e.rest \in Seq(Alphabet)
      /\ e.taken \in Seq(JsonText) /\ e.taken \o Objects(o2) = Objects(o1)
  BY <1>5, <1>6 DEF Reads, Bufs, JsonText
<1>8. Lead(o2) \in Blanks /\ TrunkOf(o2) = <<>> /\ Objects(o2) = <<>> /\ Written(o2) = Lead(o2) \o TrunkOf(o2)
  BY <1>6, <1>7, BeginsWhole
<1>9. e.rest = Lead(o2)
  BY <1>7, <1>8, ConcatEmptySeq DEF Blanks
<1>10. tail = <<>>
  BY <1>8, <1>9, StripBlank
<1>11. d.taken \o e.taken \in Seq(JsonText) /\ (d.taken \o e.taken) \o Objects(o2) = all
  <2>1. TakesTwice(d.taken, e.taken, o2, o1)
    BY <1>4, <1>7, TakenTwice
  <2> QED BY <1>4, <2>1 DEF TakesTwice
<1>12. (d.taken \o e.taken) \o <<>> = all
  BY <1>8, <1>11
<1> QED
  BY <1>3, <1>10, <1>12 DEF all

\* Records that are objects of a framed output are accepted.
LEMMA AcceptWhole ==
  ASSUME NEW o \in Output, Framed(o), NEW recs \in Seq(JsonText), NEW more \in Seq(JsonText),
         recs \o more = Objects(o)
  PROVE  Accepted(recs) = recs
<1>1. /\ Len(recs) \in Nat /\ Len(more) \in Nat /\ DOMAIN recs = 1..Len(recs)
      /\ Len(recs \o more) = Len(recs) + Len(more)
      /\ \A i \in 1..(Len(recs) + Len(more)) :
           (recs \o more)[i] = IF i <= Len(recs) THEN recs[i] ELSE more[i - Len(recs)]
  BY ConcatProperties, LenProperties
<1>2. Len(Objects(o)) = Len(o.words) /\ \A i \in 1..Len(o.words) : Objects(o)[i] = o.words[i].text
  BY ObjectsAre
<1>3. DOMAIN o.words = 1..Len(o.words)
  BY OutputIs
<1>4. ASSUME NEW i \in 1..Len(recs) PROVE IsObject(recs[i])
  <2>1. i \in 1..(Len(recs) + Len(more)) /\ i <= Len(recs)
    BY <1>1
  <2>2. recs[i] = Objects(o)[i] /\ i \in 1..Len(o.words)
    BY <1>1, <1>2, <2>1
  <2> QED BY <1>2, <1>3, <2>2 DEF Framed
<1> QED
  BY <1>1, <1>4, AcceptedIs

-----------------------------------------------------------------------------
(***************************************************************************)
(* JsonStream: the records are the objects that were written.              *)
(***************************************************************************)

\* The records, the buffer and what is unread make up an output with the
\* objects of the one that is written, which is framed; they are all there when
\* it has been read.
Now == [taken |-> records, rest |-> buffer]
FrameInv ==
  Framed(output) =>
    /\ reader # "failed"
    /\ reader = "reading" => Reads(Now, unread, Objects(output)) # {}
    /\ reader = "ended" => records = Objects(output)

LEMMA FrameStep ==
  ASSUME StreamTyped, FrameInv, [StreamNext]_streamVars
  PROVE  FrameInv'
<1>0. buffer \in JsonText /\ records \in Seq(JsonText) /\ output \in Output
  BY DEF StreamTyped
<1>1. ASSUME NEW o \in Outputs, StartReading(o) PROVE FrameInv'
  <2>1. /\ output' = o /\ unread' = Written(o) /\ reader' = "reading"
        /\ buffer' = <<>> /\ records' = <<>>
    BY <1>1 DEF StartReading, StreamTyped
  <2>2. o \in Output
    BY StreamAssumption
  <2>3. <<>> \o Written(o) = Written(o) /\ <<>> \o Objects(o) = Objects(o)
    BY <2>2, WrittenType, ObjectsAre, ConcatEmptySeq DEF JsonText
  <2> DEFINE d == [taken |-> <<>>, rest |-> <<>>]
  <2>4. d.taken = <<>> /\ d.rest = <<>> /\ d.taken \in Seq(JsonText)
    OBVIOUS
  <2> HIDE DEF d
  <2>5. Framed(o) => Reads(d, Written(o), Objects(o)) # {}
    BY <2>2, <2>3, <2>4, ReadsFrom
  <2>6. Now' = d
    BY <2>1 DEF Now, d
  <2> QED BY <2>1, <2>5, <2>6 DEF FrameInv
<1>2. ASSUME NEW n \in 1..ReadSize, ReadPiece(n) PROVE FrameInv'
  <2> DEFINE piece == SubSeq(unread, 1, n)
             s == buffer \o piece
             fed == Feed(s)
             all == Objects(output)
  <2>1. /\ unread' \in JsonText /\ s \in JsonText
        /\ buffer \o unread = s \o unread'
        /\ reader = "reading" /\ buffer' = fed.rest /\ output' = output
        /\ ~TooLong(fed.rest) => Accept(fed.taken, "reading")
    BY <1>2, ReadIs
  <2> HIDE DEF piece, s
  <2> SUFFICES ASSUME Framed(output)
               PROVE  reader' = "reading" /\ Reads(Now', unread', Objects(output')) # {}
    BY <2>1 DEF FrameInv
  <2>2. PICK o \in Reads(Now, unread, all) : TRUE
    BY <2>1 DEF FrameInv
  <2> HIDE DEF all
  <2>3. /\ o \in Output /\ Framed(o) /\ buffer \o unread = Written(o) /\ records \o Objects(o) = all
    BY <2>2 DEF Reads, Now
  <2>4. s \o unread' = Written(o)
    BY <2>1, <2>3
  <2>5. Reads(fed, unread', Objects(o)) # {} /\ ~TooLong(fed.rest)
    BY <2>1, <2>3, <2>4, FeedWhole
  <2> HIDE DEF fed
  <2>6. PICK o2 \in Reads(fed, unread', Objects(o)) : TRUE
    BY <2>5
  <2>7. /\ o2 \in Output /\ Framed(o2) /\ fed.rest \o unread' = Written(o2)
        /\ fed.taken \in Seq(JsonText) /\ fed.taken \o Objects(o2) = Objects(o)
    BY <2>6 DEF Reads
  <2>8. Accepted(fed.taken) = fed.taken
    <3>1. Objects(o2) \in Seq(JsonText)
      BY <2>7, ObjectsAre
    <3> QED BY <2>3, <2>7, <3>1, AcceptWhole
  <2>9. records' = records \o fed.taken /\ reader' = "reading"
    BY <2>1, <2>5, <2>8 DEF Accept
  <2>10. records' \in Seq(JsonText) /\ records' \o Objects(o2) = all
    <3>1. TakesTwice(records, fed.taken, o2, o)
      BY <1>0, <2>7, TakenTwice
    <3> QED BY <2>3, <2>9, <3>1 DEF TakesTwice
  <2> DEFINE d == [taken |-> records', rest |-> buffer']
  <2>11. d.taken = records' /\ d.rest = fed.rest
    BY <2>1
  <2>12. Now' = d
    BY DEF Now
  <2> HIDE DEF d
  <2>13. Reads(d, unread', all) # {}
    BY <2>7, <2>10, <2>11, ReadsFrom
  <2>14. Objects(output') = all
    BY <2>1 DEF all
  <2> QED BY <2>9, <2>12, <2>13, <2>14
<1>3. ASSUME EndOfOutput PROVE FrameInv'
  <2> DEFINE fin == Finalize(buffer)
             all == Objects(output)
  <2>1. /\ reader = "reading" /\ unread = <<>> /\ output' = output
        /\ records' = records \o Accepted(fin)
        /\ reader' = IF Accepted(fin) = fin THEN "ended" ELSE "failed"
    BY <1>3 DEF EndOfOutput, Accept
  <2> SUFFICES ASSUME Framed(output) PROVE reader' = "ended" /\ records' = Objects(output')
    BY <2>1 DEF FrameInv
  <2>2. PICK o \in Reads(Now, unread, all) : TRUE
    BY <2>1 DEF FrameInv
  <2> HIDE DEF all
  <2>3. /\ o \in Output /\ Framed(o) /\ buffer \o <<>> = Written(o) /\ records \o Objects(o) = all
    BY <2>1, <2>2 DEF Reads, Now
  <2>4. fin = Objects(o)
    BY <1>0, <2>3, FinalizeWhole
  <2> HIDE DEF fin
  <2>5. fin \in Seq(JsonText) /\ <<>> \in Seq(JsonText) /\ fin \o <<>> = Objects(o)
    BY <2>3, <2>4, ObjectsAre, ConcatEmptySeq
  <2>6. Accepted(fin) = fin
    BY <2>3, <2>5, AcceptWhole
  <2> QED BY <2>1, <2>3, <2>4, <2>6 DEF all
<1>4. ASSUME UNCHANGED streamVars PROVE FrameInv'
  BY <1>4 DEF streamVars, FrameInv, Now
<1> QED
  BY <1>1, <1>2, <1>3, <1>4 DEF StreamNext

\* A sequence is a beginning of itself and any other.
LEMMA FrontIsPrefix ==
  ASSUME NEW T, NEW s \in Seq(T), NEW x \in Seq(T)
  PROVE  IsPrefix(s, s \o x)
<1> DEFINE w == s \o x
           m == Len(s)
<1>1. /\ m \in Nat /\ Len(x) \in Nat /\ Len(w) = m + Len(x)
      /\ \A i \in 1..(m + Len(x)) : w[i] = IF i <= m THEN s[i] ELSE x[i - m]
  BY ConcatProperties, LenProperties
<1> HIDE DEF w, m
<1>2. SubSeq(s, 1, m) = [i \in 1..m |-> s[i]] /\ SubSeq(w, 1, m) = [i \in 1..m |-> w[i]]
  BY <1>1
<1>3. \A i \in 1..m : w[i] = s[i]
  BY <1>1
<1>4. SubSeq(s, 1, m) = SubSeq(w, 1, m) /\ m <= Len(w)
  BY <1>1, <1>2, <1>3
<1> QED
  BY <1>4 DEF IsPrefix, w, m

\* Whatever codex writes, in pieces of any size and with a buffer of any limit,
\* no symbol of it is lost, repeated or moved; and if it writes objects, one a
\* line or without lines, these are the records, in their order.
THEOREM RecordsAreWhole == StreamInit /\ [][StreamNext]_streamVars => []RecordsWhole
<1>1. StreamInit => StreamTyped /\ InkInv /\ FrameInv
  BY StreamTypedInit DEF StreamInit, FrameInv
<1>2. StreamTyped /\ InkInv /\ FrameInv /\ [StreamNext]_streamVars => (StreamTyped /\ InkInv /\ FrameInv)'
  <2> SUFFICES ASSUME StreamTyped, InkInv, FrameInv, [StreamNext]_streamVars
               PROVE  StreamTyped' /\ InkInv' /\ FrameInv'
    OBVIOUS
  <2> QED BY StreamTypedStep, InkStep, FrameStep
<1>3. StreamTyped /\ InkInv /\ FrameInv => RecordsWhole
  <2> SUFFICES ASSUME StreamTyped, InkInv, FrameInv PROVE RecordsWhole
    OBVIOUS
  <2> DEFINE R == Ink(FlattenSeq(records))
             all == Objects(output)
  <2>1. PICK left \in JsonText : /\ R \o left = Ink(Written(output))
                                 /\ reader = "ended" => left = <<>>
    BY DEF InkInv
  <2>2. records \in Seq(JsonText) /\ output \in Output
    BY DEF StreamTyped
  <2>3. R \in Seq(Alphabet) /\ all \in Seq(JsonText)
    <3>1. FlattenSeq(records) \in Seq(Alphabet)
      BY <2>2, FlattenType DEF JsonText
    <3> QED BY <2>2, <3>1, KeepType, ObjectsAre DEF Ink
  <2> HIDE DEF R
  <2>4. IsPrefix(R, Ink(Written(output)))
    <3>1. IsPrefix(R, R \o left)
      BY <2>3, FrontIsPrefix DEF JsonText
    <3> QED BY <2>1, <3>1
  <2>5. reader = "ended" => R = Ink(Written(output))
    <3>1. R \o <<>> = R
      BY <2>3, ConcatEmptySeq
    <3>2. ASSUME reader = "ended" PROVE R = Ink(Written(output))
      <4>1. left = <<>>
        BY <2>1, <3>2
      <4>2. R \o left = Ink(Written(output))
        BY <2>1
      <4> QED BY <3>1, <4>1, <4>2, Zenon
    <3> QED BY <3>2
  <2>6. ASSUME Framed(output)
        PROVE  /\ reader # "failed" /\ IsPrefix(records, all)
               /\ reader = "ended" => records = all
    <3>1. reader # "failed" /\ (reader = "ended" => records = all)
      BY <2>6 DEF FrameInv
    <3>2. \E more \in Seq(JsonText) : records \o more = all
      <4> HIDE DEF all
      <4>1. CASE reader = "idle"
        <5>1. records = <<>>
          BY <4>1 DEF StreamTyped
        <5> QED BY <2>3, <5>1, ConcatEmptySeq
      <4>2. CASE reader = "reading"
        <5>1. PICK o \in Reads(Now, unread, all) : TRUE
          BY <2>6, <4>2 DEF FrameInv, all
        <5>2. o \in Output /\ records \o Objects(o) = all
          BY <5>1 DEF Reads, Now
        <5> QED BY <5>2, ObjectsAre
      <4>3. CASE reader = "ended"
        <5>1. records \o <<>> = all /\ <<>> \in Seq(JsonText)
          BY <2>2, <3>1, <4>3, ConcatEmptySeq
        <5> QED BY <5>1
      <4> QED BY <3>1, <4>1, <4>2, <4>3 DEF StreamTyped
    <3>3. IsPrefix(records, all)
      <4>1. PICK more \in Seq(JsonText) : records \o more = all
        BY <3>2
      <4> HIDE DEF all
      <4>2. IsPrefix(records, records \o more)
        BY <2>2, FrontIsPrefix
      <4> QED BY <4>1, <4>2
    <3> QED BY <3>1, <3>3
  <2> QED BY <2>4, <2>5, <2>6 DEF RecordsWhole, R
<1> QED
  BY <1>1, <1>2, <1>3, PTL
=============================================================================
