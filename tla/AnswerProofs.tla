---------------------------- MODULE AnswerProofs ----------------------------
(***************************************************************************)
(* What a user gets to see of one message (Answer), for every chunk size,  *)
(* every pattern of pieces and every number of refused calls.              *)
(*                                                                         *)
(* The theorems rest on three invariants, each on the one before:          *)
(*   TellingInv  one process at a time, and an error's text on its way     *)
(*   OutInv      where every token of the answer is                        *)
(*   ReadInv     how the channel reads, if Discord took every call         *)
(* and on what chunk_text computes for every input, by induction on the    *)
(* length of a prefix (Induction of SequenceLemmas).                       *)
(***************************************************************************)
EXTENDS Answer, SequenceLemmas, FiniteSetTheorems

-----------------------------------------------------------------------------
(***************************************************************************)
(* chunk_text: the chunks of a text are the text.                          *)
(***************************************************************************)

\* Quotients, as the solver does not know them for a divisor it cannot see.
LEMMA DivFacts ==
  ASSUME NEW a \in Nat, NEW c \in Nat \ {0}
  PROVE  /\ a \div c \in Nat
         /\ (a \div c) * c <= a
         /\ a < (a \div c) * c + c
OBVIOUS

\* Multiples are ordered as their factors.
LEMMA TimesFacts ==
  ASSUME NEW c \in Nat \ {0}
  PROVE  /\ \A i, j \in Nat : i * c \in Nat /\ (i <= j => i * c <= j * c) /\ (i < j => i * c + c <= j * c)
         /\ \A i \in Nat : (i + 1) * c = i * c + c
         /\ 0 * c = 0 /\ 1 * c = c
OBVIOUS

\* Where the i-th chunk of a text of n tokens ends.
EndOf(n, i) == IF i * ChunkSize <= n THEN i * ChunkSize ELSE n

\* How many pieces a text is cut into, and where they begin and end.
LEMMA ChunkCount ==
  ASSUME NEW n \in Nat
  PROVE  LET k == (n + ChunkSize - 1) \div ChunkSize IN
         /\ k \in Nat /\ (k = 0 <=> n = 0)
         /\ EndOf(n, k) = n
         /\ \A i \in 1..k : (i - 1) * ChunkSize \in 0..(n - 1)
                           /\ EndOf(n, i) \in ((i - 1) * ChunkSize + 1)..n
                           /\ EndOf(n, i) <= (i - 1) * ChunkSize + ChunkSize
                           /\ EndOf(n, i - 1) = (i - 1) * ChunkSize
<1> DEFINE c == ChunkSize
           k == (n + c - 1) \div c
<1>1. c \in Nat \ {0} /\ n + c - 1 \in Nat
  BY AnswerAssumption
<1> HIDE DEF c
<1>2. k \in Nat /\ k * c <= n + c - 1 /\ n + c - 1 < k * c + c
  BY <1>1, DivFacts
<1> HIDE DEF k
<1>3. n <= k * c /\ k * c \in Nat
  BY <1>1, <1>2, TimesFacts
<1>4. k = 0 => n = 0
  BY <1>1, <1>3, TimesFacts
<1>5. n = 0 => k = 0
  <2> SUFFICES ASSUME n = 0, 1 <= k PROVE FALSE
    BY <1>2
  <2>1. 1 * c <= k * c
    BY <1>1, <1>2, TimesFacts
  <2> QED BY <1>1, <1>2, <2>1, TimesFacts
<1>6. ASSUME NEW i \in 1..k
      PROVE  /\ (i - 1) * c \in 0..(n - 1)
             /\ EndOf(n, i) \in ((i - 1) * c + 1)..n
             /\ EndOf(n, i) <= (i - 1) * c + c
             /\ EndOf(n, i - 1) = (i - 1) * c
  <2>1. i - 1 \in Nat /\ i - 1 < k /\ (i - 1) + 1 = i
    BY <1>2
  <2>2. (i - 1) * c \in Nat /\ (i - 1) * c + c <= k * c /\ i * c = (i - 1) * c + c
    <3>1. (i - 1) * c \in Nat /\ (i - 1) * c + c <= k * c
      BY <1>1, <1>2, <2>1, TimesFacts
    <3>2. ((i - 1) + 1) * c = (i - 1) * c + c
      BY <1>1, <2>1, TimesFacts
    <3> QED BY <2>1, <3>1, <3>2
  <2> DEFINE a == (i - 1) * c
             b == i * c
  <2>3. a \in Nat /\ a < n /\ b = a + c
    BY <1>1, <1>2, <1>3, <2>2
  <2>4. EndOf(n, i) = (IF b <= n THEN b ELSE n) /\ EndOf(n, i - 1) = (IF a <= n THEN a ELSE n)
    BY DEF EndOf, c
  <2> HIDE DEF a, b
  <2>5. a \in 0..(n-1) /\ EndOf(n, i) \in (a + 1)..n /\ EndOf(n, i) <= a + c /\ EndOf(n, i - 1) = a
    BY <1>1, <2>3, <2>4
  <2> QED
    BY <2>5 DEF a
<1>7. EndOf(n, k) = n
  BY <1>3 DEF EndOf, c
<1> QED
  BY <1>2, <1>4, <1>5, <1>6, <1>7 DEF k, c

\* The pieces of a text.
LEMMA ChunksAre ==
  ASSUME NEW T, NEW s \in Seq(T)
  PROVE  /\ Chunks(s) \in Seq(Seq(T))
         /\ Len(Chunks(s)) = (Len(s) + ChunkSize - 1) \div ChunkSize
         /\ \A i \in 1..Len(Chunks(s)) :
              Chunks(s)[i] = SubSeq(s, (i - 1) * ChunkSize + 1, EndOf(Len(s), i))
         /\ Chunks(s) = << >> <=> s = << >>
<1> DEFINE k == (Len(s) + ChunkSize - 1) \div ChunkSize
<1>1. Len(s) \in Nat
  BY LenProperties
<1>2. /\ k \in Nat /\ (k = 0 <=> Len(s) = 0)
      /\ \A i \in 1..k : (i - 1) * ChunkSize \in 0..(Len(s) - 1)
                        /\ EndOf(Len(s), i) \in ((i - 1) * ChunkSize + 1)..Len(s)
  BY <1>1, ChunkCount
<1>3. Chunks(s) = [i \in 1..k |-> SubSeq(s, (i - 1) * ChunkSize + 1, EndOf(Len(s), i))]
  BY DEF Chunks, EndOf
<1> HIDE DEF k
<1>4. ASSUME NEW i \in 1..k
      PROVE  SubSeq(s, (i - 1) * ChunkSize + 1, EndOf(Len(s), i)) \in Seq(T)
  <2> DEFINE z == (i - 1) * ChunkSize
             a == z + 1
             b == EndOf(Len(s), i)
  <2>0. z \in 0..(Len(s) - 1) /\ b \in (z + 1)..Len(s)
    BY <1>2
  <2> HIDE DEF z
  <2>1. a \in 1..Len(s) /\ b \in a..Len(s)
    BY <1>1, <2>0
  <2> HIDE DEF a, b
  <2>2. \A j \in 1..Len(s) : s[j] \in T
    BY ElementOfSeq
  <2>3. \A j \in a..b : s[j] \in T
    BY <2>1, <2>2
  <2>4. SubSeq(s, a, b) \in Seq(T)
    BY <2>1, <2>3, SubSeqProperties
  <2> QED
    BY <2>4 DEF a, b, z
<1>5. Chunks(s) \in [1..k -> Seq(T)]
  BY <1>3, <1>4
<1>6. Chunks(s) \in Seq(Seq(T)) /\ Len(Chunks(s)) = k
  BY <1>2, <1>5
<1>7. Chunks(s) = << >> <=> s = << >>
  BY <1>1, <1>2, <1>6
<1> QED
  BY <1>3, <1>6, <1>7 DEF k

\* Joined, they are the text again.
LEMMA ChunksJoin ==
  ASSUME NEW T, NEW s \in Seq(T)
  PROVE  FlattenSeq(Chunks(s)) = s
<1> DEFINE n == Len(s)
           ss == Chunks(s)
           k == Len(ss)
<1>1. n \in Nat
  BY LenProperties
<1>2. /\ ss \in Seq(Seq(T))
      /\ \A i \in 1..k : ss[i] = SubSeq(s, (i - 1) * ChunkSize + 1, EndOf(n, i))
      /\ ss = << >> <=> s = << >>
  BY ChunksAre
<1>3. /\ k \in Nat /\ (k = 0 <=> n = 0) /\ EndOf(n, k) = n
      /\ \A i \in 1..k : (i - 1) * ChunkSize \in 0..(n - 1)
                        /\ EndOf(n, i) \in ((i - 1) * ChunkSize + 1)..n
                        /\ EndOf(n, i - 1) = (i - 1) * ChunkSize
  BY <1>1, ChunkCount, ChunksAre
<1> HIDE DEF ss
<1> DEFINE E == {i \in Nat : i \in 1..k => Joined(ss)[i] = SubSeq(s, 1, EndOf(n, i))}
<1>4. 0 \in E
  OBVIOUS
<1>5. ASSUME NEW i \in Nat, i \in E
      PROVE  i + 1 \in E
  <2> SUFFICES ASSUME i + 1 \in 1..k PROVE Joined(ss)[i+1] = SubSeq(s, 1, EndOf(n, i + 1))
    OBVIOUS
  <2>1. (i + 1) - 1 = i
    OBVIOUS
  <2>2. /\ i * ChunkSize \in 0..(n - 1)
        /\ EndOf(n, i + 1) \in (i * ChunkSize + 1)..n
        /\ EndOf(n, i) = i * ChunkSize
    BY <1>3, <2>1
  <2>3. ss[i+1] = SubSeq(s, i * ChunkSize + 1, EndOf(n, i + 1))
    BY <1>2, <2>1
  <2>4. CASE i = 0
    <3>1. i * ChunkSize + 1 = 1 /\ i + 1 = 1 /\ k # 0
      BY <1>3, <2>4, AnswerAssumption
    <3>2. Joined(ss)[1] = ss[1]
      BY <1>2, <3>1, JoinedIs
    <3> QED BY <2>3, <3>1, <3>2
  <2>5. CASE i # 0
    <3>1. i \in Nat \ {0} /\ i + 1 <= k /\ i \in 1..k
      BY <1>3, <2>5
    <3>2. Joined(ss)[i+1] = Joined(ss)[i] \o ss[i+1]
      BY <1>2, <3>1, JoinedIs
    <3>3. Joined(ss)[i] = SubSeq(s, 1, i * ChunkSize)
      BY <1>5, <2>2, <3>1
    <3> DEFINE a == i * ChunkSize
               b == EndOf(n, i + 1)
    <3>4. a \in 0..n /\ b \in a..n
      BY <1>1, <2>2
    <3> HIDE DEF a, b
    <3>5. SubSeq(s, 1, a) \o SubSeq(s, a + 1, b) = SubSeq(s, 1, b)
      BY <1>1, <3>4, ConcatAdjacentSubSeq
    <3> QED
      BY <2>3, <3>2, <3>3, <3>5 DEF a, b
  <2> QED BY <2>4, <2>5
<1>6. Nat \subseteq E
  BY <1>4, <1>5, Induction
<1>7. CASE k = 0
  <2>1. s = << >> /\ ss = << >>
    BY <1>2, <1>3, <1>7
  <2> QED BY <2>1, FlattenEmpty DEF ss
<1>8. CASE k # 0
  <2>1. FlattenSeq(ss) = Joined(ss)[k]
    BY <1>2, <1>8, FlattenIsJoined
  <2>2. k \in 1..k
    BY <1>3, <1>8
  <2>3. Joined(ss)[k] = SubSeq(s, 1, EndOf(n, k))
    BY <1>3, <1>6, <2>2
  <2>4. SubSeq(s, 1, n) = s
    BY SubSeqFull
  <2> QED
    BY <1>3, <2>1, <2>3, <2>4 DEF ss
<1> QED
  BY <1>7, <1>8

-----------------------------------------------------------------------------
(***************************************************************************)
(* Types.                                                                  *)
(***************************************************************************)

Text == Seq(Nat \X Nat)
Ended == {"closing", "syncing", "done", "raised"}
Calling == {"showing", "noticing", "closing", "syncing"}

AnswerTyped ==
  /\ AnswerTypeOK
  /\ parts \in Text /\ streamed \in Text
  /\ batch \in Seq(Text) /\ channel \in Seq(Text)

\* The texts of the program.
LEMMA OwnTexts ==
  Notice \in Text /\ Failed \in Text /\ Nothing \in Text
BY DEF Notice, Failed, Nothing, Text

\* The chunks of a text are texts.
LEMMA ChunkTexts ==
  ASSUME NEW s \in Text
  PROVE  Chunks(s) \in Seq(Text)
BY ChunksAre DEF Text

\* What a text a stage begins to show is like.
LEMMA FinishTypes ==
  ASSUME AnswerTyped, NEW o \in {"answer", "error"}, Finish(o)
  PROVE  /\ outcome' = o
         /\ streamed' \in Text /\ batch' \in Seq(Text)
         /\ place' \in 1..(Len(batch') + 1)
         /\ stage' \in {"closing", "syncing", "done"}
<1> DEFINE chunks == IF o = "error" THEN <<Failed>> ELSE Chunks(parts)
<1>1. chunks \in Seq(Text)
  <2>1. <<Failed>> \in Seq(Text)
    BY OwnTexts
  <2>2. Chunks(parts) \in Seq(Text)
    BY ChunkTexts DEF AnswerTyped
  <2> QED
    BY <2>1, <2>2
<1> HIDE DEF chunks
<1>2. FlattenSeq(chunks) \in Text /\ Chunks(FlattenSeq(chunks)) \in Seq(Text)
  <2>1. FlattenSeq(chunks) \in Text
    BY <1>1, FlattenType DEF Text
  <2> QED
    BY <2>1, ChunkTexts
<1> USE DEF chunks
<1>3. <<Nothing>> \in Seq(Text)
  BY OwnTexts
<1> DEFINE last == IF chunks = <<>> THEN <<Nothing>> ELSE chunks
<1>4. last \in Seq(Text)
  BY <1>1, <1>3
<1>5. \A ss \in Seq(Text) : 1 \in 1..(Len(ss) + 1)
  BY LenProperties
<1>6. /\ outcome' = o
      /\ \/ /\ streamed' = FlattenSeq(chunks) /\ batch' = Chunks(FlattenSeq(chunks))
            /\ place' = 1 /\ stage' = "syncing"
         \/ /\ streamed' = streamed /\ stage' = "done" /\ batch' = batch /\ place' = place
         \/ /\ streamed' = streamed /\ stage' = "closing" /\ batch' = last /\ place' = 1
  BY Zenon DEF Finish, Show
<1> HIDE DEF chunks, last
<1> QED
  BY <1>2, <1>4, <1>5, <1>6 DEF AnswerTyped, AnswerTypeOK

\* What codex prints is a text of as many tokens.
LEMMA TokensType ==
  ASSUME AnswerTyped, NEW n \in Nat
  PROVE  Tokens(n) \in Text /\ Len(Tokens(n)) = n
<1>1. run \in Nat /\ made \in Nat
  BY AnswerAssumption DEF AnswerTyped, AnswerTypeOK
<1>2. Tokens(n) \in [1..n -> Nat \X Nat]
  BY <1>1 DEF Tokens
<1> QED
  BY <1>2 DEF Text

\* A piece of the stream keeps the types.
LEMMA StreamTextTypes ==
  ASSUME AnswerTyped, NEW n \in PieceSizes, made + n <= MaxTokens, StreamText(n)
  PROVE  /\ made' \in 0..MaxTokens
         /\ parts' \in Text /\ streamed' \in Text /\ batch' \in Seq(Text)
         /\ place' \in 1..(Len(batch') + 1)
         /\ stage' \in {"showing", stage}
<1>1. n \in Nat \ {0}
  BY AnswerAssumption
<1>2. Tokens(n) \in Text
  BY <1>1, TokensType
<1>3. made' \in 0..MaxTokens /\ parts' \in Text
  BY <1>1, <1>2, ConcatProperties, AnswerAssumption DEF AnswerTyped, AnswerTypeOK, StreamText, Text
<1>4. streamed' \in Text
  <2>1. streamed \in Text
    BY DEF AnswerTyped
  <2>2. streamed \o Tokens(n) \in Text
    BY <1>2, <2>1, ConcatProperties, Zenon DEF Text
  <2> QED
    BY <2>1, <2>2 DEF StreamText
<1>5. \/ batch' = Chunks(Tokens(n)) /\ place' = 1 /\ stage' = "showing"
      \/ batch' = Chunks(streamed') /\ place' = 1 /\ stage' = "showing"
      \/ UNCHANGED <<batch, place, stage>>
  BY DEF StreamText, Show
<1>6. Chunks(Tokens(n)) \in Seq(Text) /\ Chunks(streamed') \in Seq(Text)
  BY <1>2, <1>4, ChunkTexts
<1>7. \A ss \in Seq(Text) : 1 \in 1..(Len(ss) + 1)
  BY LenProperties
<1> QED
  BY <1>3, <1>4, <1>5, <1>6, <1>7 DEF AnswerTyped, AnswerTypeOK

\* The first state is typed.
LEMMA AnswerTypedInit ==
  ASSUME AnswerInit
  PROVE  AnswerTyped
<1>1. resumes \in BOOLEAN
  BY DEF AnswerInit
<1>2. \A S : << >> \in Seq(S) /\ Len(<< >>) = 0
  BY EmptySeq
<1>3. parts \in Text /\ streamed \in Text /\ batch \in Seq(Text) /\ channel \in Seq(Text)
  BY <1>2 DEF AnswerInit, Text
<1>4. messages \in Seq(1..Len(channel)) /\ place \in 1..(Len(batch) + 1)
  BY <1>2 DEF AnswerInit
<1>5. made \in 0..MaxTokens /\ refused \in 0..MaxRefusals /\ children \subseteq 1..run
  BY AnswerAssumption DEF AnswerInit
<1> QED
  BY <1>1, <1>3, <1>4, <1>5 DEF AnswerInit, AnswerTyped, AnswerTypeOK

\* The child of a new run has the next number.
LEMMA RunsGrow ==
  ASSUME NEW r \in Nat, NEW C, C \subseteq 1..r, NEW D, D \subseteq C \cup {r + 1}
  PROVE  D \subseteq 1..(r + 1)
OBVIOUS

\* What the provider does keeps the types.
LEMMA AnswerTypedProvide ==
  ASSUME AnswerTyped, Provide
  PROVE  AnswerTyped'
<1> USE DEF AnswerTyped, AnswerTypeOK, responder, wrapper
<1>1. CASE Begin
  BY <1>1, AnswerAssumption DEF Begin, Launch
<1>2. CASE BeginFails
  BY <1>2, FinishTypes DEF BeginFails
<1>3. CASE \E n \in PieceSizes : Piece(n)
  <2>1. PICK n \in PieceSizes : Piece(n)
    BY <1>3
  <2>2. StreamText(n) /\ made + n <= MaxTokens
    BY <2>1 DEF Piece
  <2> QED
    BY <2>1, <2>2, StreamTextTypes DEF Piece
<1>4. CASE Exits
  <2>1. CASE UNCHANGED <<stage, made, parts, streamed, batch, place>>
    BY <1>4, <2>1 DEF Exits
  <2>2. CASE \E n \in PieceSizes : made = 0 /\ n <= MaxTokens /\ StreamText(n)
    <3>1. PICK n \in PieceSizes : made = 0 /\ n <= MaxTokens /\ StreamText(n)
      BY <2>2
    <3>2. made + n <= MaxTokens
      BY <3>1, AnswerAssumption
    <3> QED
      BY <1>4, <3>1, <3>2, StreamTextTypes DEF Exits
  <2> QED BY <1>4, <2>1, <2>2 DEF Exits
<1>5. CASE StreamRead
  <2>1. PICK o \in {"answer", "error"} : Finish(o)
    BY <1>5 DEF StreamRead
  <2> QED
    BY <1>5, <2>1, FinishTypes DEF StreamRead
<1>6. CASE Warns
  <2>1. batch' = <<Notice>> /\ place' = 1 /\ <<Notice>> \in Seq(Text)
    BY <1>6, OwnTexts DEF Warns, Show
  <2> QED
    BY <1>6, <2>1 DEF Warns, Show
<1>7. CASE SecondAttempt
  <2>1. run' \in Nat
    BY <1>7 DEF SecondAttempt
  <2>3. made' \in 0..MaxTokens
    BY <1>7, AnswerAssumption DEF SecondAttempt
  <2>4. resumes' \in BOOLEAN
    BY <1>7 DEF SecondAttempt
  <2>2. children' \subseteq 1..run'
    <3>1. run \in Nat /\ children \subseteq 1..run
      OBVIOUS
    <3>2. run' = run + 1 /\ children' \subseteq children \cup {run + 1}
      BY <1>7 DEF SecondAttempt
    <3> QED BY <3>1, <3>2, RunsGrow
  <2> QED BY <1>7, <2>1, <2>2, <2>3, <2>4 DEF SecondAttempt
<1>8. CASE Lost
  <2>1. CASE retried
    BY <1>8, <2>1, FinishTypes DEF Lost
  <2>2. CASE ~retried
    BY <1>8, <2>2 DEF Lost
  <2> QED BY <2>1, <2>2
<1>9. CASE Fails
  BY <1>9, FinishTypes DEF Fails
<1>10. CASE Reset
  <2>1. run' \in Nat
    BY <1>10 DEF Reset, Launch
  <2>4. made' \in 0..MaxTokens
    BY <1>10, AnswerAssumption DEF Reset, Launch
  <2>5. resumes' \in BOOLEAN /\ retried' \in BOOLEAN
    BY <1>10 DEF Reset, Launch
  <2>2. children' \subseteq 1..run'
    <3>1. run \in Nat /\ children \subseteq 1..run
      OBVIOUS
    <3>2. run' = run + 1 /\ children' = children \cup {run + 1}
      BY <1>10 DEF Reset, Launch
    <3> QED BY <3>1, <3>2, RunsGrow
  <2>3. parts' \in Text
    BY <1>10 DEF Reset, Text
  <2> QED BY <1>10, <2>1, <2>2, <2>3, <2>4, <2>5 DEF Reset, Launch
<1>11. CASE ResetFails
  BY <1>11, FinishTypes DEF ResetFails
<1> QED
  BY <1>1, <1>2, <1>3, <1>4, <1>5, <1>6, <1>7, <1>8, <1>9, <1>10, <1>11 DEF Provide

\* Where a message goes.
LEMMA PlacesGrow ==
  ASSUME AnswerTyped, NEW b \in Text
  PROVE  /\ Append(channel, b) \in Seq(Text) /\ Len(Append(channel, b)) = Len(channel) + 1
         /\ messages \in Seq(1..(Len(channel) + 1))
         /\ Append(messages, Len(channel) + 1) \in Seq(1..(Len(channel) + 1))
         /\ \A i \in 1..Len(messages) :
              [messages EXCEPT ![i] = Len(channel) + 1] \in Seq(1..(Len(channel) + 1))
<1>1. Len(channel) \in Nat /\ messages \in Seq(1..Len(channel))
  BY LenProperties DEF AnswerTyped, AnswerTypeOK
<1>2. messages \in Seq(1..(Len(channel) + 1)) /\ Len(channel) + 1 \in 1..(Len(channel) + 1)
  <2>1. 1..Len(channel) \subseteq 1..(Len(channel) + 1)
    BY <1>1
  <2> QED BY <1>1, <2>1, SeqMonotonic
<1>3. Append(channel, b) \in Seq(Text) /\ Len(Append(channel, b)) = Len(channel) + 1
  BY AppendProperties DEF AnswerTyped
<1> QED
  BY <1>2, <1>3, AppendProperties, ExceptSeq

\* So does what Discord answers.
LEMMA AnswerTypedCall ==
  ASSUME AnswerTyped, Call
  PROVE  AnswerTyped'
<1> USE DEF AnswerTyped, AnswerTypeOK, responder, wrapper
<1>1. ASSUME NEW i \in 1..Len(batch), Sent(i)
      PROVE  AnswerTyped'
  <2>1. batch[i] \in Text /\ Len(batch) \in Nat
    BY ElementOfSeq, LenProperties
  <2>2. /\ channel' \in Seq(Text) /\ Len(channel') = Len(channel) + 1
        /\ messages' \in Seq(1..Len(channel'))
    BY <1>1, <2>1, PlacesGrow DEF Sent
  <2>3. place' \in 1..(Len(batch') + 1)
    BY <1>1, <2>1 DEF Sent
  <2> QED
    BY <1>1, <2>2, <2>3 DEF Sent
<1>2. ASSUME NEW i \in 1..Len(batch), Edited(i)
      PROVE  AnswerTyped'
  <2>1. batch[i] \in Text /\ Len(batch) \in Nat
    BY ElementOfSeq, LenProperties
  <2>2. i \in 1..Len(messages) /\ messages[i] \in 1..Len(channel)
    BY <1>2, <2>1, ElementOfSeq, LenProperties, SMTT(30) DEF Edited
  <2>3. channel' \in Seq(Text) /\ Len(channel') = Len(channel)
    BY <1>2, <2>1, <2>2, ExceptSeq DEF Edited
  <2>4. place' \in 1..(Len(batch') + 1)
    BY <1>2, <2>1 DEF Edited
  <2> QED
    BY <1>2, <2>3, <2>4 DEF Edited
<1>3. ASSUME NEW i \in 1..Len(batch), EditRefused(i)
      PROVE  AnswerTyped'
  <2>1. batch[i] \in Text /\ Len(batch) \in Nat /\ i \in 1..Len(messages)
    BY <1>3, ElementOfSeq, LenProperties DEF EditRefused
  <2>2. /\ channel' \in Seq(Text) /\ Len(channel') = Len(channel) + 1
        /\ messages' \in Seq(1..Len(channel'))
    BY <1>3, <2>1, PlacesGrow DEF EditRefused
  <2>3. place' \in 1..(Len(batch') + 1) /\ refused' \in 0..MaxRefusals
    BY <1>3, <2>1, AnswerAssumption DEF EditRefused
  <2> QED
    BY <1>3, <2>2, <2>3 DEF EditRefused
<1>4. ASSUME NEW i \in 1..Len(batch), SendRefused(i)
      PROVE  AnswerTyped'
  <2>1. refused' \in 0..MaxRefusals
    BY <1>4, AnswerAssumption DEF SendRefused
  <2>2. children' \subseteq 1..run
    BY <1>4 DEF SendRefused
  <2>3. CASE stage \in {"showing", "noticing"}
    BY <1>4, <2>1, <2>2, <2>3, FinishTypes DEF SendRefused
  <2>4. CASE stage \notin {"showing", "noticing"}
    BY <1>4, <2>1, <2>2, <2>4 DEF SendRefused
  <2> QED BY <2>3, <2>4
<1>5. CASE Shown
  <2>1. Len(streamed) \in Nat
    BY LenProperties DEF Text
  <2>2. rendered' \in Nat /\ sent' \in BOOLEAN /\ noticed' \in BOOLEAN
    BY <1>5, <2>1 DEF Shown
  <2>3. batch' \in Seq(Text) /\ place' \in 1..(Len(batch') + 1)
    BY <1>5 DEF Shown
  <2> QED
    BY <1>5, <2>2, <2>3 DEF Shown
<1> QED
  BY <1>1, <1>2, <1>3, <1>4, <1>5 DEF Call

\* Types are inductive.
LEMMA AnswerTypedStep ==
  ASSUME AnswerTyped, [AnswerNext]_answerVars
  PROVE  AnswerTyped'
<1>1. CASE Provide
  BY <1>1, AnswerTypedProvide
<1>2. CASE Call
  BY <1>2, AnswerTypedCall
<1>3. CASE StreamClosed
  BY <1>3 DEF StreamClosed, AnswerTyped, AnswerTypeOK, responder
<1>4. CASE UNCHANGED answerVars
  BY <1>4 DEF AnswerTyped, AnswerTypeOK, answerVars, wrapper, responder
<1> QED
  BY <1>1, <1>2, <1>3, <1>4 DEF AnswerNext

\* The state of a message, its processes and its chunks is well formed: what a
\* handler shows is always a place in what there is to show, and the messages it
\* remembers are messages of the channel.
THEOREM AnswerTypeCorrect == AnswerSpec => []AnswerTypeOK
<1>1. AnswerInit => AnswerTyped
  BY AnswerTypedInit
<1>2. AnswerTyped /\ [AnswerNext]_answerVars => AnswerTyped'
  BY AnswerTypedStep
<1>3. AnswerTyped => AnswerTypeOK
  BY DEF AnswerTyped
<1> QED
  BY <1>1, <1>2, <1>3, PTL DEF AnswerSpec

-----------------------------------------------------------------------------
(***************************************************************************)
(* One process at a time, and errors that are told.                        *)
(***************************************************************************)

\* Only the current process may be running, and none before the first or
\* between the two attempts.
OneChild ==
  /\ children \subseteq {run}
  /\ stage \in {"idle", "resetting"} => children = {}

OutcomeKnown == outcome # "none" <=> stage \in Ended

\* Of an error only its text is shown, and when it has been it is there.
Telling ==
  outcome = "error" /\ stage \in {"closing", "syncing"} =>
    /\ batch = <<Failed>>
    /\ place = 2 => \E m \in 1..Len(channel) : channel[m] = Failed

TellingInv == AnswerTyped /\ OneChild /\ OutcomeKnown /\ Telling /\ FailureShown

\* What a failure shows fits in a message.
LEMMA FailedIsOneChunk ==
  FlattenSeq(<<Failed>>) = Failed /\ Chunks(Failed) = <<Failed>>
<1>1. Failed \in Text /\ Len(Failed) = 1
  BY OwnTexts DEF Failed
<1>2. FlattenSeq(<<Failed>>) = Failed
  <2>1. << >> \in Seq(Text) /\ Append(<< >>, Failed) = <<Failed>> /\ << >> \o Failed = Failed
    BY <1>1, ConcatEmptySeq DEF Text
  <2>2. FlattenSeq(Append(<< >>, Failed)) = FlattenSeq(<< >>) \o Failed
    BY <1>1, <2>1, FlattenAppend DEF Text
  <2> QED
    BY <2>1, <2>2, FlattenEmpty
<1>3. (1 + ChunkSize - 1) \div ChunkSize = 1
  <2> DEFINE q == (1 + ChunkSize - 1) \div ChunkSize
  <2>1. 1 + ChunkSize - 1 = ChunkSize /\ ChunkSize \in Nat \ {0}
    BY AnswerAssumption
  <2>2. q \in Nat /\ q * ChunkSize <= ChunkSize /\ ChunkSize < q * ChunkSize + ChunkSize
    BY <2>1, DivFacts
  <2> HIDE DEF q
  <2>3. q # 0
    BY <2>1, <2>2, TimesFacts
  <2>4. ~(1 < q)
    <3> SUFFICES ASSUME 1 < q PROVE FALSE
      OBVIOUS
    <3>1. 1 * ChunkSize + ChunkSize <= q * ChunkSize /\ 1 * ChunkSize = ChunkSize
      BY <2>1, <2>2, TimesFacts
    <3> QED BY <2>1, <2>2, <3>1, TimesFacts
  <2>5. q = 1
    BY <2>2, <2>3, <2>4
  <2> QED
    BY <2>5 DEF q
<1>4. /\ Len(Chunks(Failed)) = 1
      /\ Chunks(Failed) \in Seq(Text)
      /\ Chunks(Failed)[1] = SubSeq(Failed, (1 - 1) * ChunkSize + 1, EndOf(1, 1))
  <2>1. /\ Chunks(Failed) \in Seq(Text)
        /\ Len(Chunks(Failed)) = (Len(Failed) + ChunkSize - 1) \div ChunkSize
        /\ \A i \in 1..Len(Chunks(Failed)) :
             Chunks(Failed)[i] = SubSeq(Failed, (i - 1) * ChunkSize + 1, EndOf(Len(Failed), i))
    BY <1>1, ChunksAre, Zenon DEF Text
  <2>2. Len(Chunks(Failed)) = 1
    BY <1>1, <1>3, <2>1
  <2>3. 1 \in 1..Len(Chunks(Failed))
    BY <2>2
  <2> QED
    BY <1>1, <2>1, <2>2, <2>3, Zenon
<1>5. (1 - 1) * ChunkSize + 1 = 1 /\ EndOf(1, 1) = 1
  <2>3. ChunkSize \in Nat \ {0}
    BY AnswerAssumption
  <2>1. (1 - 1) * ChunkSize + 1 = 1
    BY <2>3
  <2>2. EndOf(1, (1 + ChunkSize - 1) \div ChunkSize) = 1
    BY ChunkCount
  <2> QED
    BY <1>3, <2>1, <2>2
<1>6. Chunks(Failed)[1] = Failed
  BY <1>1, <1>4, <1>5, SubSeqFull DEF Text
<1>7. <<Failed>> \in Seq(Text) /\ Len(<<Failed>>) = 1 /\ <<Failed>>[1] = Failed
  BY <1>1
<1>8. Chunks(Failed) = <<Failed>>
  BY <1>4, <1>6, <1>7, SeqEqual
<1> QED
  BY <1>2, <1>8

\* An answer that fails has the failure to show, or has shown a part already.
LEMMA FinishTells ==
  ASSUME Finish("error")
  PROVE  \/ /\ stage' \in {"closing", "syncing"}
            /\ batch' = <<Failed>> /\ place' = 1
         \/ stage' = "done" /\ provider # "claude" /\ sent
<1>1. <<Failed>> # << >>
  OBVIOUS
<1> QED
  BY <1>1, FailedIsOneChunk DEF Finish, Show

\* The invariant under FailureShown and OneProcess holds at first.
LEMMA TellingInit ==
  ASSUME AnswerInit
  PROVE  TellingInv
BY AnswerTypedInit DEF AnswerInit, TellingInv, OneChild, OutcomeKnown, Ended, Telling, FailureShown

\* What keeps FailureShown once a turn has come to its end.
LEMMA FinishKeeps ==
  ASSUME TellingInv, NEW o \in {"answer", "error"}, Finish(o),
         UNCHANGED <<provider, sent>>
  PROVE  OutcomeKnown' /\ Telling' /\ FailureShown'
<1>1. outcome' = o /\ stage' \in {"closing", "syncing", "done"}
  BY FinishTypes DEF TellingInv
<1>2. OutcomeKnown'
  BY <1>1 DEF OutcomeKnown, Ended
<1>3. CASE o = "answer"
  BY <1>1, <1>2, <1>3 DEF Telling, FailureShown
<1>4. CASE o = "error"
  BY <1>1, <1>2, <1>4, FinishTells DEF Telling, FailureShown
<1> QED
  BY <1>3, <1>4

\* Before a turn ends there is nothing to tell.
LEMMA StreamingKeeps ==
  ASSUME TellingInv, stage \notin Ended, stage' \notin Ended, UNCHANGED outcome
  PROVE  OutcomeKnown' /\ Telling' /\ FailureShown'
BY DEF TellingInv, OutcomeKnown, Ended, Telling, FailureShown

\* The provider's steps keep it.
LEMMA TellingProvide ==
  ASSUME TellingInv, Provide
  PROVE  OneChild' /\ OutcomeKnown' /\ Telling' /\ FailureShown'
<1> USE DEF responder, wrapper
<1>0. AnswerTyped /\ run \in Nat /\ children \subseteq {run}
  BY DEF TellingInv, AnswerTyped, AnswerTypeOK, OneChild
<1>1. CASE Begin
  <2>1. children = {}
    BY <1>1 DEF Begin, TellingInv, OneChild
  <2>2. OneChild'
    BY <1>1, <2>1 DEF Begin, Launch, OneChild
  <2> QED
    BY <1>1, <2>2, StreamingKeeps DEF Begin, Launch, Ended
<1>2. CASE BeginFails
  <2>1. Finish("error") /\ UNCHANGED <<provider, sent, run, children>>
    BY <1>2 DEF BeginFails
  <2>2. OneChild'
    BY <1>0, <2>1, FinishTypes DEF OneChild
  <2> QED BY <2>1, <2>2, FinishKeeps
<1>3. CASE \E n \in PieceSizes : Piece(n)
  <2>1. PICK n \in PieceSizes : Piece(n)
    BY <1>3
  <2>2. stage = "streaming" /\ stage' \in {"showing", "streaming"} /\ UNCHANGED <<run, children, outcome>>
    BY <1>0, <2>1, StreamTextTypes DEF Piece
  <2>3. OneChild'
    BY <1>0, <2>2 DEF OneChild
  <2> QED BY <2>2, <2>3, StreamingKeeps DEF Ended
<1>4. CASE Exits
  <2>1. stage = "streaming" /\ UNCHANGED <<run, outcome>> /\ children' \subseteq {run}
    BY <1>0, <1>4 DEF Exits
  <2>2. stage' \in {"showing", "streaming"}
    <3>1. CASE UNCHANGED stage
      BY <2>1, <3>1
    <3>2. CASE \E n \in PieceSizes : made = 0 /\ n <= MaxTokens /\ StreamText(n)
      BY <2>1, <3>2 DEF StreamText, Show
    <3> QED BY <1>4, <3>1, <3>2 DEF Exits
  <2>3. OneChild'
    BY <2>1, <2>2 DEF OneChild
  <2> QED BY <2>1, <2>2, <2>3, StreamingKeeps DEF Ended
<1>5. CASE StreamRead
  <2>1. PICK o \in {"answer", "error"} : Finish(o)
    BY <1>5 DEF StreamRead
  <2>2. UNCHANGED <<provider, sent, run, children>>
    BY <1>5 DEF StreamRead
  <2>3. OneChild'
    BY <1>0, <2>1, <2>2, FinishTypes DEF OneChild
  <2> QED BY <2>1, <2>2, <2>3, FinishKeeps
<1>6. CASE Warns
  <2>1. stage = "streaming" /\ stage' = "noticing" /\ UNCHANGED <<run, children, outcome>>
    BY <1>6 DEF Warns, Show
  <2>2. OneChild'
    BY <1>0, <2>1 DEF OneChild
  <2> QED BY <2>1, <2>2, StreamingKeeps DEF Ended
<1>7. CASE SecondAttempt
  <2>1. /\ stage = "streaming" /\ UNCHANGED <<stage, outcome>>
        /\ run' = run + 1 /\ children' = (children \ {run}) \cup {run + 1}
    BY <1>7 DEF SecondAttempt
  <2>2. OneChild'
    BY <1>0, <2>1 DEF OneChild
  <2> QED BY <2>1, <2>2, StreamingKeeps DEF Ended
<1>8. CASE Lost
  <2>1. /\ stage = "streaming" /\ children' = children \ {run}
        /\ UNCHANGED <<provider, sent, run>>
    BY <1>8 DEF Lost
  <2>2. OneChild'
    BY <1>0, <2>1 DEF OneChild
  <2>3. CASE retried
    <3>1. Finish("error")
      BY <1>8, <2>3 DEF Lost
    <3> QED BY <2>1, <2>2, <3>1, FinishKeeps
  <2>4. CASE ~retried
    BY <1>8, <2>1, <2>2, <2>4, StreamingKeeps DEF Lost, Ended
  <2> QED BY <2>3, <2>4
<1>9. CASE Fails
  <2>1. /\ Finish("error") /\ children' = children \ {run}
        /\ UNCHANGED <<provider, sent, run>>
    BY <1>9 DEF Fails
  <2>2. OneChild'
    BY <1>0, <2>1 DEF OneChild
  <2> QED BY <2>1, <2>2, FinishKeeps
<1>10. CASE Reset
  <2>1. children = {} /\ stage = "resetting"
    BY <1>10 DEF Reset, TellingInv, OneChild
  <2>2. OneChild'
    BY <1>10, <2>1 DEF Reset, Launch, OneChild
  <2> QED
    BY <1>10, <2>2, StreamingKeeps DEF Reset, Launch, Ended
<1>11. CASE ResetFails
  <2>1. Finish("error") /\ UNCHANGED <<provider, sent, run, children>>
    BY <1>11 DEF ResetFails
  <2>2. OneChild'
    BY <1>0, <2>1, FinishTypes DEF OneChild
  <2> QED BY <2>1, <2>2, FinishKeeps
<1> QED
  BY <1>1, <1>2, <1>3, <1>4, <1>5, <1>6, <1>7, <1>8, <1>9, <1>10, <1>11 DEF Provide

\* Which chunks are out.  Only an answer that streams is edited with chunks
\* passed over.
LEMMA PlaceOfCall ==
  ASSUME AnswerTyped, NEW i \in 1..Len(batch), Up(i)
  PROVE  /\ place \in 1..Len(batch) /\ place <= i
         /\ stage # "showing" => i = place
<1>1. i \in place..Len(batch) /\ \A j \in place..(i - 1) : Editing /\ Settled(j)
  BY DEF Up
<1>2. place \in Nat \ {0} /\ Len(batch) \in Nat
  BY LenProperties DEF AnswerTyped, AnswerTypeOK
<1>3. stage # "showing" => i = place
  <2> SUFFICES ASSUME stage # "showing", i # place PROVE FALSE
    OBVIOUS
  <2>1. place \in place..(i - 1)
    BY <1>1, <1>2
  <2> QED BY <1>1, <2>1 DEF Settled
<1> QED BY <1>1, <1>2, <1>3

\* Once a batch is shown there is none of it left.
LEMMA AllOut ==
  ASSUME AnswerTyped, Shown, stage # "showing"
  PROVE  place = Len(batch) + 1
<1>1. place \in 1..(Len(batch) + 1) /\ Len(batch) \in Nat
  BY LenProperties DEF AnswerTyped, AnswerTypeOK
<1> SUFFICES ASSUME place # Len(batch) + 1 PROVE FALSE
  OBVIOUS
<1>2. place \in place..Len(batch)
  BY <1>1
<1> QED BY <1>2 DEF Shown, Settled

\* Discord's answers keep it.
LEMMA TellingCall ==
  ASSUME TellingInv, Call
  PROVE  OneChild' /\ OutcomeKnown' /\ Telling' /\ FailureShown'
<1> USE DEF responder, wrapper
<1>0. AnswerTyped /\ children \subseteq {run}
  BY DEF TellingInv, OneChild
<1>1. ASSUME NEW i \in 1..Len(batch), NEW b \in Text, b = batch[i], Up(i),
             i = 1 /\ stage \in {"closing", "syncing"} => \E m \in 1..Len(channel') : channel'[m] = b,
             place' = i + 1, stage \in Calling,
             UNCHANGED <<stage, run, children, outcome, batch>>
      PROVE  OneChild' /\ OutcomeKnown' /\ Telling' /\ FailureShown'
  <2>1. OneChild' /\ OutcomeKnown'
    BY <1>0, <1>1 DEF TellingInv, OneChild, OutcomeKnown, Calling
  <2>2. FailureShown'
    BY <1>1 DEF FailureShown, Calling
  <2>3. Telling'
    <3> SUFFICES ASSUME outcome = "error", stage \in {"closing", "syncing"}
                 PROVE  /\ batch = <<Failed>>
                        /\ \E m \in 1..Len(channel') : channel'[m] = Failed
      BY <1>1 DEF Telling
    <3>1. batch = <<Failed>>
      BY DEF TellingInv, Telling
    <3>2. i = 1 /\ batch[i] = Failed
      BY <3>1
    <3> QED
      BY <1>1, <3>1, <3>2
  <2> QED BY <2>1, <2>2, <2>3
<1>2. ASSUME NEW i \in 1..Len(batch)
      PROVE  batch[i] \in Text /\ Len(channel) \in Nat
  BY <1>0, ElementOfSeq, LenProperties DEF AnswerTyped
<1>3. ASSUME NEW i \in 1..Len(batch), channel' = Append(channel, batch[i])
      PROVE  \E m \in 1..Len(channel') : channel'[m] = batch[i]
  <2>1. Len(channel') = Len(channel) + 1 /\ channel'[Len(channel) + 1] = batch[i]
    BY <1>0, <1>2, <1>3, AppendProperties DEF AnswerTyped
  <2> QED BY <1>2, <2>1
<1>4. ASSUME NEW i \in 1..Len(batch), Sent(i)
      PROVE  OneChild' /\ OutcomeKnown' /\ Telling' /\ FailureShown'
  BY <1>1, <1>2, <1>3, <1>4 DEF Sent, Calling
<1>5. ASSUME NEW i \in 1..Len(batch), Edited(i)
      PROVE  OneChild' /\ OutcomeKnown' /\ Telling' /\ FailureShown'
  <2>1. i \in 1..Len(messages) /\ messages[i] \in 1..Len(channel)
    BY <1>0, <1>5, ElementOfSeq, LenProperties, SMTT(30) DEF Edited, AnswerTyped, AnswerTypeOK
  <2>2. Len(channel') = Len(channel) /\ channel'[messages[i]] = batch[i]
    BY <1>0, <1>2, <1>5, <2>1, ExceptSeq DEF Edited, AnswerTyped
  <2> QED
    BY <1>1, <1>2, <1>5, <2>1, <2>2 DEF Edited, Editing, Calling
<1>6. ASSUME NEW i \in 1..Len(batch), EditRefused(i)
      PROVE  OneChild' /\ OutcomeKnown' /\ Telling' /\ FailureShown'
  BY <1>1, <1>2, <1>3, <1>6 DEF EditRefused, Editing, Calling
<1>7. ASSUME NEW i \in 1..Len(batch), SendRefused(i)
      PROVE  OneChild' /\ OutcomeKnown' /\ Telling' /\ FailureShown'
  <2>1. children' \subseteq {run} /\ UNCHANGED <<run, provider, sent>>
    BY <1>0, <1>7 DEF SendRefused
  <2>2. CASE stage \in {"showing", "noticing"}
    <3>1. Finish("error")
      BY <1>7, <2>2 DEF SendRefused
    <3>2. OneChild'
      BY <1>0, <2>1, <3>1, FinishTypes DEF OneChild
    <3> QED BY <2>1, <3>1, <3>2, FinishKeeps
  <2>3. CASE stage \notin {"showing", "noticing"}
    BY <1>7, <2>1, <2>3 DEF SendRefused, TellingInv, OneChild, OutcomeKnown, Ended, Telling, FailureShown
  <2> QED BY <2>2, <2>3
<1>8. CASE Shown
  <2>1. /\ UNCHANGED <<run, children, outcome, provider, channel>> /\ stage' \in {"streaming", "done"}
        /\ stage' = IF stage \in {"showing", "noticing"} THEN "streaming" ELSE "done"
        /\ stage \in Calling
    BY <1>8 DEF Shown, Calling
  <2>2. OneChild'
    BY <1>0, <2>1 DEF OneChild
  <2>3. CASE stage \in {"showing", "noticing"}
    BY <2>1, <2>2, <2>3, StreamingKeeps DEF Ended
  <2>4. CASE stage \notin {"showing", "noticing"}
    <3>1. OutcomeKnown' /\ Telling'
      BY <2>1, <2>4 DEF TellingInv, OutcomeKnown, Ended, Calling, Telling
    <3>2. FailureShown'
      <4> SUFFICES ASSUME outcome = "error"
                   PROVE  \E m \in 1..Len(channel) : channel[m] = Failed
        BY <2>1 DEF FailureShown
      <4>1. batch = <<Failed>> /\ place = Len(batch) + 1
        BY <1>0, <1>8, <2>1, <2>4, AllOut DEF TellingInv, Telling, Calling
      <4>2. place = 2
        BY <4>1
      <4> QED
        BY <2>1, <2>4, <4>2 DEF TellingInv, Telling, Calling
    <3> QED BY <2>2, <3>1, <3>2
  <2> QED BY <2>3, <2>4
<1> QED
  BY <1>4, <1>5, <1>6, <1>7, <1>8 DEF Call

\* It is inductive.
LEMMA TellingStep ==
  ASSUME TellingInv, [AnswerNext]_answerVars
  PROVE  TellingInv'
<1>1. AnswerTyped'
  BY AnswerTypedStep DEF TellingInv
<1>2. CASE Provide
  BY <1>1, <1>2, TellingProvide DEF TellingInv
<1>3. CASE Call
  BY <1>1, <1>3, TellingCall DEF TellingInv
<1>4. CASE StreamClosed
  BY <1>1, <1>4 DEF StreamClosed, TellingInv, OneChild, OutcomeKnown, Telling, FailureShown, responder
<1>5. CASE UNCHANGED answerVars
  BY <1>1, <1>5 DEF TellingInv, OneChild, OutcomeKnown, Telling, FailureShown, answerVars, wrapper,
                    responder
<1> QED
  BY <1>2, <1>3, <1>4, <1>5 DEF AnswerNext

\* It holds in every state.
LEMMA TellingAlways == AnswerSpec => []TellingInv
<1>1. AnswerInit => TellingInv
  BY TellingInit
<1>2. TellingInv /\ [AnswerNext]_answerVars => TellingInv'
  BY TellingStep
<1> QED
  BY <1>1, <1>2, PTL DEF AnswerSpec

\* A turn talks to one process at a time, through the second attempt of codex,
\* the retry of a stale session and Discord's refusals: the wrapper has killed
\* the process before it starts the next.
THEOREM OneProcessAtATime == AnswerSpec => []OneProcess
<1>1. TellingInv => OneProcess
  <2> SUFFICES ASSUME TellingInv PROVE Cardinality(children) <= 1
    BY DEF OneProcess
  <2>1. children = {} \/ children = {run}
    BY DEF TellingInv, OneChild
  <2>2. Cardinality({}) = 0 /\ Cardinality({run}) = 1
    BY FS_EmptySet, FS_Singleton
  <2> QED
    BY <2>1, <2>2
<1> QED
  BY <1>1, TellingAlways, PTL

\* Whenever a turn fails before anything of it was shown whole, or with claude
\* at any time, the user is told, whatever Discord refused before.
THEOREM FailuresAreTold == AnswerSpec => []FailureShown
<1>1. TellingInv => FailureShown
  BY DEF TellingInv
<1> QED
  BY <1>1, TellingAlways, PTL

-----------------------------------------------------------------------------
(***************************************************************************)
(* Nothing is lost: where the tokens of an answer are.                     *)
(***************************************************************************)

InText(x, t) == \E j \in 1..Len(t) : t[j] = x
OnChannel(x) == \E m \in 1..Len(channel) : InText(x, channel[m])

\* While the answer streams: with claude the text of the responder is as long as
\* the answer; without, what came is out or about to go out.
PartsOut ==
  outcome = "none" =>
    /\ provider = "claude" => Len(parts) <= Len(streamed)
    /\ provider # "claude" =>
         /\ \A i \in 1..Len(parts) :
              \/ OnChannel(parts[i])
              \/ stage = "showing" /\ \E c \in place..Len(batch) : InText(parts[i], batch[c])
         /\ stage # "showing" /\ ~sent => parts = << >>

\* At the end: the chunks that were passed are in the messages.
AnswerOut ==
  outcome = "answer" =>
    /\ stage = "closing" => parts = << >>
    /\ stage = "syncing" =>
         /\ provider = "claude" /\ batch = Chunks(parts)
         /\ \A c \in 1..(place - 1) : c <= Len(messages) /\ channel[messages[c]] = batch[c]

PostedApart ==
  \A i, j \in 1..Len(messages) : messages[i] = messages[j] => i = j

OutInv == TellingInv /\ PartsOut /\ AnswerOut /\ PostedApart /\ NothingLost

\* A token of a joined text is in one of the texts.
LEMMA FlattenElements ==
  ASSUME NEW T, NEW ss \in Seq(Seq(T)), NEW j \in 1..Len(FlattenSeq(ss))
  PROVE  \E c \in 1..Len(ss) : InText(FlattenSeq(ss)[j], ss[c])
<1> DEFINE E == {k \in Nat : k \in 1..Len(ss) =>
                    \A x : InText(x, Joined(ss)[k]) => \E c \in 1..k : InText(x, ss[c])}
<1>0. Len(ss) \in Nat
  BY LenProperties
<1>1. 0 \in E
  OBVIOUS
<1>2. ASSUME NEW k \in Nat, k \in E
      PROVE  k + 1 \in E
  <2> SUFFICES ASSUME k + 1 \in 1..Len(ss), NEW x, InText(x, Joined(ss)[k+1])
               PROVE  \E c \in 1..(k + 1) : InText(x, ss[c])
    OBVIOUS
  <2>1. CASE k = 0
    <3>1. k + 1 = 1 /\ Len(ss) # 0
      BY <1>0, <2>1
    <3>2. Joined(ss)[1] = ss[1]
      BY <3>1, JoinedIs
    <3> QED BY <3>1, <3>2
  <2>2. CASE k # 0
    <3>1. k \in Nat \ {0} /\ k + 1 <= Len(ss) /\ k \in 1..Len(ss)
      BY <1>0, <2>2
    <3> DEFINE a == Joined(ss)[k]
               b == ss[k+1]
    <3>2. Joined(ss)[k+1] = a \o b
      BY <3>1, JoinedIs
    <3>3. a \in Seq(T) /\ b \in Seq(T)
      BY <3>1, JoinedType, ElementOfSeq
    <3> HIDE DEF a, b
    <3>4. InText(x, a) \/ InText(x, b)
      <4>1. PICK i \in 1..Len(a \o b) : (a \o b)[i] = x
        BY <3>2 DEF InText
      <4>2. /\ Len(a \o b) = Len(a) + Len(b) /\ Len(a) \in Nat /\ Len(b) \in Nat
            /\ (a \o b)[i] = IF i <= Len(a) THEN a[i] ELSE b[i - Len(a)]
        BY <3>3, <4>1, ConcatProperties, LenProperties
      <4>3. CASE i <= Len(a)
        BY <4>1, <4>2, <4>3 DEF InText
      <4>4. CASE ~(i <= Len(a))
        <5>1. i - Len(a) \in 1..Len(b) /\ b[i - Len(a)] = x
          BY <4>1, <4>2, <4>4
        <5> QED BY <5>1 DEF InText
      <4> QED BY <4>3, <4>4
    <3>5. CASE InText(x, a)
      <4>1. \E c \in 1..k : InText(x, ss[c])
        BY <1>2, <3>1, <3>5 DEF a
      <4> QED BY <4>1
    <3>6. CASE InText(x, b)
      BY <3>6 DEF b
    <3> QED BY <3>4, <3>5, <3>6
  <2> QED BY <2>1, <2>2
<1>3. Nat \subseteq E
  BY <1>1, <1>2, Induction
<1>4. CASE Len(ss) = 0
  <2>1. FlattenSeq(ss) = << >> /\ Len(<< >>) = 0
    BY <1>4, FlattenIsJoined
  <2>2. 1..Len(FlattenSeq(ss)) = {}
    BY <2>1
  <2> QED BY <2>2
<1>5. CASE Len(ss) # 0
  <2>0. Len(ss) \in 1..Len(ss)
    BY <1>0, <1>5
  <2>1. \A x : InText(x, Joined(ss)[Len(ss)]) => \E c \in 1..Len(ss) : InText(x, ss[c])
    BY <1>0, <1>3, <2>0
  <2>2. FlattenSeq(ss) = Joined(ss)[Len(ss)]
    BY <1>5, FlattenIsJoined
  <2>3. InText(FlattenSeq(ss)[j], Joined(ss)[Len(ss)])
    BY <2>2 DEF InText
  <2> QED
    BY <2>1, <2>3
<1> QED
  BY <1>4, <1>5

\* A token of a text is in one of its pieces.
LEMMA ChunksCover ==
  ASSUME NEW T, NEW s \in Seq(T), NEW j \in 1..Len(s)
  PROVE  \E c \in 1..Len(Chunks(s)) : InText(s[j], Chunks(s)[c])
<1>1. Chunks(s) \in Seq(Seq(T)) /\ FlattenSeq(Chunks(s)) = s
  BY ChunksAre, ChunksJoin
<1> QED
  BY <1>1, FlattenElements

\* The invariant under NothingLost and AnswerShown holds at first.
LEMMA OutInit ==
  ASSUME AnswerInit
  PROVE  OutInv
<1>1. TellingInv
  BY TellingInit
<1>2. Len(<< >>) = 0
  OBVIOUS
<1> QED
  BY <1>1, <1>2 DEF AnswerInit, OutInv, PartsOut, AnswerOut, PostedApart, NothingLost

\* At the end of a turn that went well everything is out already, or is in what
\* begins to be shown.
LEMMA FinishOut ==
  ASSUME OutInv, NEW o \in {"answer", "error"}, Finish(o), stage = "streaming" \/ o = "error",
         UNCHANGED <<provider, parts, messages, channel>>
  PROVE  PartsOut' /\ AnswerOut' /\ PostedApart' /\ NothingLost'
<1>1. outcome' = o /\ stage' \in {"closing", "syncing", "done"}
  BY FinishTypes DEF OutInv, TellingInv
<1>2. PostedApart'
  BY DEF OutInv, PostedApart
<1>3. PartsOut'
  BY <1>1 DEF PartsOut
<1>4. CASE o = "error"
  BY <1>1, <1>2, <1>3, <1>4 DEF AnswerOut, NothingLost
<1>5. CASE o = "answer"
  <2>1. parts \in Text /\ streamed \in Text /\ outcome = "none" /\ stage = "streaming"
    BY <1>5 DEF OutInv, TellingInv, OutcomeKnown, Ended, AnswerTyped
  <2>2. CASE provider = "claude" /\ streamed # << >>
    <3>1. batch' = Chunks(FlattenSeq(Chunks(parts))) /\ place' = 1 /\ stage' = "syncing"
      BY <1>5, <2>2 DEF Finish, Show
    <3>2. batch' = Chunks(parts)
      BY <2>1, <3>1, ChunksJoin DEF Text
    <3>3. 1..(place' - 1) = {}
      BY <3>1
    <3> QED
      BY <1>1, <1>2, <1>3, <2>2, <3>1, <3>2, <3>3 DEF AnswerOut, NothingLost
  <2>3. CASE provider = "claude" /\ streamed = << >>
    <3>1. stage' = "closing"
      BY <2>3 DEF Finish, Show
    <3>2. Len(parts) <= Len(streamed) /\ Len(streamed) = 0
      BY <2>1, <2>3 DEF OutInv, PartsOut
    <3>3. parts = << >>
      BY <2>1, <3>2, EmptySeq, LenProperties DEF Text
    <3> QED
      BY <1>1, <1>2, <1>3, <3>1, <3>3 DEF AnswerOut, NothingLost
  <2>4. CASE provider # "claude" /\ sent
    <3>1. stage' = "done"
      BY <2>4 DEF Finish, Show
    <3>2. \A i \in 1..Len(parts) : OnChannel(parts[i])
      BY <2>1, <2>4 DEF OutInv, PartsOut
    <3>3. NothingLost'
      BY <3>2 DEF NothingLost, OnChannel, InText
    <3> QED
      BY <1>1, <1>2, <1>3, <3>1, <3>3 DEF AnswerOut
  <2>5. CASE provider # "claude" /\ ~sent
    <3>1. stage' = "closing"
      BY <2>5 DEF Finish, Show
    <3>2. parts = << >>
      BY <2>1, <2>5 DEF OutInv, PartsOut
    <3> QED
      BY <1>1, <1>2, <1>3, <3>1, <3>2 DEF AnswerOut, NothingLost
  <2> QED BY <2>2, <2>3, <2>4, <2>5
<1> QED BY <1>4, <1>5

\* A step that brings and shows nothing.
LEMMA QuietOut ==
  ASSUME OutInv, stage \notin {"showing"} \cup Ended, stage' \notin {"showing"} \cup Ended,
         UNCHANGED <<provider, parts, streamed, outcome, messages, sent, channel>>
  PROVE  PartsOut' /\ AnswerOut' /\ PostedApart' /\ NothingLost'
<1>1. outcome = "none"
  BY DEF OutInv, TellingInv, OutcomeKnown, AnswerTyped, AnswerTypeOK
<1> QED
  BY <1>1 DEF OutInv, PartsOut, AnswerOut, PostedApart, NothingLost, OnChannel, Ended

\* A piece of the stream goes to the batch as a whole.
LEMMA StreamTextOut ==
  ASSUME OutInv, stage = "streaming", NEW n \in PieceSizes, made + n <= MaxTokens, StreamText(n),
         UNCHANGED <<provider, outcome, messages, sent, channel>>
  PROVE  PartsOut' /\ AnswerOut' /\ PostedApart' /\ NothingLost'
<1>1. /\ outcome = "none" /\ outcome' = "none" /\ AnswerTyped
      /\ parts \in Text /\ streamed \in Text
  BY DEF OutInv, TellingInv, OutcomeKnown, AnswerTyped, AnswerTypeOK, Ended
<1>2. n \in Nat /\ Tokens(n) \in Text /\ Len(Tokens(n)) = n
  BY <1>1, TokensType, AnswerAssumption
<1>3. /\ parts' = parts \o Tokens(n) /\ Len(parts') = Len(parts) + n
      /\ Len(parts) \in Nat /\ Len(streamed) \in Nat
      /\ \A i \in 1..Len(parts) : parts'[i] = parts[i]
      /\ \A i \in 1..Len(parts') : i > Len(parts) => parts'[i] = Tokens(n)[i - Len(parts)]
  BY <1>1, <1>2, ConcatProperties, LenProperties, SMTT(30) DEF StreamText, Text
<1>4. stage' \in {"showing", "streaming"}
  BY <1>1, StreamTextTypes
<1>5. AnswerOut' /\ NothingLost' /\ PostedApart'
  BY <1>1 DEF OutInv, AnswerOut, NothingLost, PostedApart
<1>6. CASE provider = "claude"
  <2>1. streamed' = streamed \o Tokens(n)
    BY <1>6 DEF StreamText
  <2>2. Len(streamed') = Len(streamed) + n
    BY <1>1, <1>2, <2>1, ConcatProperties DEF Text
  <2>3. Len(parts) <= Len(streamed)
    BY <1>1, <1>6 DEF OutInv, PartsOut
  <2> QED
    BY <1>2, <1>3, <1>5, <1>6, <2>2, <2>3 DEF PartsOut
<1>7. CASE provider # "claude"
  <2>1. batch' = Chunks(Tokens(n)) /\ place' = 1 /\ stage' = "showing"
    BY <1>7 DEF StreamText, Show
  <2>2. ASSUME NEW i \in 1..Len(parts')
        PROVE  OnChannel(parts'[i]) \/ \E c \in place'..Len(batch') : InText(parts'[i], batch'[c])
    <3>1. CASE i <= Len(parts)
      <4>1. OnChannel(parts[i]) /\ parts'[i] = parts[i]
        BY <1>1, <1>3, <1>7, <2>2, <3>1 DEF OutInv, PartsOut
      <4> QED BY <4>1
    <3>2. CASE ~(i <= Len(parts))
      <4>1. i - Len(parts) \in 1..Len(Tokens(n)) /\ parts'[i] = Tokens(n)[i - Len(parts)]
        BY <1>2, <1>3, <2>2, <3>2
      <4>2. \E c \in 1..Len(Chunks(Tokens(n))) : InText(Tokens(n)[i - Len(parts)], Chunks(Tokens(n))[c])
        BY <1>2, <4>1, ChunksCover DEF Text
      <4> QED BY <2>1, <4>1, <4>2
    <3> QED BY <3>1, <3>2
  <2>3. PartsOut'
    BY <1>7, <2>1, <2>2 DEF PartsOut, OnChannel
  <2> QED BY <1>5, <2>3
<1> QED BY <1>6, <1>7

\* The provider's steps keep it.
LEMMA OutProvide ==
  ASSUME OutInv, Provide
  PROVE  PartsOut' /\ AnswerOut' /\ PostedApart' /\ NothingLost'
<1> USE DEF responder, wrapper
<1>1. CASE Begin
  BY <1>1, QuietOut DEF Begin, Launch, Ended
<1>2. CASE BeginFails
  BY <1>2, FinishOut DEF BeginFails
<1>3. CASE \E n \in PieceSizes : Piece(n)
  BY <1>3, StreamTextOut DEF Piece
<1>4. CASE Exits
  <2>1. stage = "streaming" /\ UNCHANGED <<provider, outcome, messages, sent, channel>>
    BY <1>4 DEF Exits
  <2>2. CASE UNCHANGED <<stage, made, parts, streamed, batch, place>>
    BY <2>1, <2>2, QuietOut DEF Ended
  <2>3. CASE \E n \in PieceSizes : made = 0 /\ n <= MaxTokens /\ StreamText(n)
    <3>1. PICK n \in PieceSizes : made = 0 /\ n <= MaxTokens /\ StreamText(n)
      BY <2>3
    <3>2. made + n <= MaxTokens
      BY <3>1, AnswerAssumption
    <3> QED
      BY <2>1, <3>1, <3>2, StreamTextOut
  <2> QED BY <1>4, <2>2, <2>3 DEF Exits
<1>5. CASE StreamRead
  BY <1>5, FinishOut DEF StreamRead
<1>6. CASE Warns
  BY <1>6, QuietOut DEF Warns, Show, Ended
<1>7. CASE SecondAttempt
  BY <1>7, QuietOut DEF SecondAttempt, Ended
<1>8. CASE Lost
  <2>1. CASE retried
    BY <1>8, <2>1, FinishOut DEF Lost
  <2>2. CASE ~retried
    BY <1>8, <2>2, QuietOut DEF Lost, Ended
  <2> QED BY <2>1, <2>2
<1>9. CASE Fails
  BY <1>9, FinishOut DEF Fails
<1>10. CASE Reset
  <2>1. /\ stage = "resetting" /\ stage' = "streaming" /\ parts' = << >>
        /\ UNCHANGED <<provider, streamed, outcome, messages, channel>>
    BY <1>10 DEF Reset, Launch
  <2>2. outcome = "none" /\ streamed \in Text
    BY <2>1 DEF OutInv, TellingInv, OutcomeKnown, Ended, AnswerTyped, AnswerTypeOK
  <2>3. Len(<< >>) = 0 /\ Len(streamed) \in Nat
    BY <2>2, LenProperties DEF Text
  <2>4. PartsOut'
    BY <2>1, <2>2, <2>3 DEF PartsOut
  <2> QED
    BY <2>1, <2>2, <2>4 DEF OutInv, AnswerOut, PostedApart, NothingLost
<1>11. CASE ResetFails
  BY <1>11, FinishOut DEF ResetFails
<1> QED
  BY <1>1, <1>2, <1>3, <1>4, <1>5, <1>6, <1>7, <1>8, <1>9, <1>10, <1>11 DEF Provide

\* A chunk goes out, in a message of its own.
LEMMA AppendOut ==
  ASSUME OutInv, NEW i \in 1..Len(batch), Up(i), place' = i + 1, stage \in Calling,
         channel' = Append(channel, batch[i]),
         UNCHANGED <<provider, stage, parts, streamed, outcome, sent, batch>>
  PROVE  /\ PartsOut' /\ NothingLost'
         /\ Len(channel') = Len(channel) + 1 /\ Len(channel) \in Nat
         /\ channel'[Len(channel) + 1] = batch[i]
         /\ \A m \in 1..Len(channel) : channel'[m] = channel[m]
<1>1. /\ AnswerTyped /\ batch[i] \in Text /\ channel \in Seq(Text)
      /\ i \in Nat /\ place \in Nat /\ Len(batch) \in Nat
  BY ElementOfSeq, LenProperties DEF OutInv, TellingInv, AnswerTyped, AnswerTypeOK
<1>2. /\ Len(channel') = Len(channel) + 1 /\ Len(channel) \in Nat
      /\ channel'[Len(channel) + 1] = batch[i]
      /\ \A m \in 1..Len(channel) : channel'[m] = channel[m]
  BY <1>1, AppendProperties, LenProperties
<1>3. NothingLost'
  BY DEF NothingLost, Calling
<1>4. ASSUME NEW x
      PROVE  /\ OnChannel(x) => \E m \in 1..Len(channel') : InText(x, channel'[m])
             /\ InText(x, batch[i]) => \E m \in 1..Len(channel') : InText(x, channel'[m])
  <2>1. \A m \in 1..Len(channel) : m \in 1..Len(channel')
    BY <1>2
  <2>2. Len(channel) + 1 \in 1..Len(channel')
    BY <1>2
  <2> QED BY <1>2, <2>1, <2>2 DEF OnChannel
<1>5. PartsOut'
  <2> SUFFICES ASSUME outcome = "none", provider # "claude"
               PROVE  /\ \A k \in 1..Len(parts) :
                           \/ \E m \in 1..Len(channel') : InText(parts[k], channel'[m])
                           \/ stage = "showing" /\ \E c \in (i + 1)..Len(batch) : InText(parts[k], batch[c])
                      /\ stage # "showing" /\ ~sent => parts = << >>
    BY DEF PartsOut, OnChannel, OutInv
  <2>1. stage # "showing" /\ ~sent => parts = << >>
    BY DEF OutInv, PartsOut
  <2>2. i = place
    <3>1. stage \in {"showing", "noticing"} /\ ~Editing
      BY DEF OutInv, TellingInv, OutcomeKnown, Ended, Calling, Editing
    <3> QED BY <1>1, <3>1 DEF Up
  <2>3. ASSUME NEW k \in 1..Len(parts)
        PROVE  \/ \E m \in 1..Len(channel') : InText(parts[k], channel'[m])
               \/ stage = "showing" /\ \E c \in (i + 1)..Len(batch) : InText(parts[k], batch[c])
    <3>1. CASE OnChannel(parts[k])
      BY <1>4, <3>1
    <3>2. CASE stage = "showing" /\ \E c \in place..Len(batch) : InText(parts[k], batch[c])
      <4>1. PICK c \in place..Len(batch) : InText(parts[k], batch[c])
        BY <3>2
      <4>2. c = i \/ c \in (i + 1)..Len(batch)
        BY <1>1, <2>2
      <4> QED BY <1>4, <3>2, <4>1, <4>2
    <3> QED BY <2>3, <3>1, <3>2 DEF OutInv, PartsOut
  <2> QED BY <2>1, <2>3
<1> QED BY <1>2, <1>3, <1>5

\* Discord's answers keep it.
LEMMA OutCall ==
  ASSUME OutInv, Call
  PROVE  PartsOut' /\ AnswerOut' /\ PostedApart' /\ NothingLost'
<1> USE DEF responder, wrapper
<1>0. /\ AnswerTyped /\ messages \in Seq(1..Len(channel)) /\ channel \in Seq(Text)
      /\ Len(channel) \in Nat /\ Len(messages) \in Nat /\ Len(batch) \in Nat /\ place \in Nat \ {0}
      /\ \A j \in 1..Len(messages) : messages[j] \in 1..Len(channel)
  BY ElementOfSeq, LenProperties, SMTT(30) DEF OutInv, TellingInv, AnswerTyped, AnswerTypeOK
<1>1. ASSUME NEW i \in 1..Len(batch), Sent(i)
      PROVE  PartsOut' /\ AnswerOut' /\ PostedApart' /\ NothingLost'
  <2>1. /\ Up(i) /\ stage \in Calling /\ place' = i + 1
        /\ channel' = Append(channel, batch[i])
        /\ UNCHANGED <<provider, stage, parts, streamed, outcome, sent, batch>>
    BY <1>1 DEF Sent, Calling
  <2>2. /\ PartsOut' /\ NothingLost'
        /\ Len(channel') = Len(channel) + 1 /\ channel'[Len(channel) + 1] = batch[i]
        /\ \A m \in 1..Len(channel) : channel'[m] = channel[m]
    BY <2>1, AppendOut
  <2>3. CASE ~Editing
    <3>1. UNCHANGED messages /\ stage # "syncing"
      BY <1>1, <2>3 DEF Sent, Editing
    <3> QED
      BY <2>1, <2>2, <3>1 DEF OutInv, AnswerOut, PostedApart
  <2>4. CASE Editing
    <3>1. messages' = Append(messages, Len(channel) + 1) /\ i > Len(messages)
      BY <1>1, <2>4 DEF Sent
    <3>2. /\ Len(messages') = Len(messages) + 1 /\ messages'[Len(messages) + 1] = Len(channel) + 1
          /\ \A j \in 1..Len(messages) : messages'[j] = messages[j]
      <4>1. messages \in Seq(Nat) /\ Len(channel) + 1 \in Nat
        BY <1>0, SeqMonotonic
      <4> QED BY <3>1, <4>1, AppendProperties
    <3>3. PostedApart'
      <4> SUFFICES ASSUME NEW j \in 1..Len(messages'), NEW k \in 1..Len(messages'), messages'[j] = messages'[k]
                   PROVE  j = k
        BY DEF PostedApart
      <4>1. j \in 1..Len(messages) \/ j = Len(messages) + 1
        BY <1>0, <3>2
      <4>2. k \in 1..Len(messages) \/ k = Len(messages) + 1
        BY <1>0, <3>2
      <4>3. Len(channel) + 1 \notin 1..Len(channel)
        BY <1>0
      <4> QED
        BY <1>0, <3>2, <4>1, <4>2, <4>3, SMTT(30) DEF OutInv, PostedApart
    <3>4. ASSUME outcome = "answer", stage = "syncing", NEW c \in 1..(place' - 1)
          PROVE  c <= Len(messages') /\ channel'[messages'[c]] = batch[c]
      <4>1. i = place
        BY <1>0, <2>1, <3>4, PlaceOfCall
      <4>2. \A d \in 1..(place - 1) : d <= Len(messages) /\ channel[messages[d]] = batch[d]
        BY <3>4 DEF OutInv, AnswerOut
      <4>3. Len(messages) = i - 1
        <5>1. CASE place = 1
          BY <1>0, <3>1, <4>1, <5>1
        <5>2. CASE place # 1
          <6>1. place - 1 \in 1..(place - 1)
            BY <1>0, <5>2
          <6> QED BY <1>0, <3>1, <4>1, <4>2, <6>1
        <5> QED BY <5>1, <5>2
      <4>4. CASE c \in 1..(place - 1)
        <5>1. c \in 1..Len(messages) /\ channel[messages[c]] = batch[c]
          BY <1>0, <4>2, <4>4
        <5>2. messages'[c] = messages[c] /\ messages[c] \in 1..Len(channel)
          BY <1>0, <3>2, <5>1
        <5>3. c <= Len(messages')
          BY <1>0, <3>2, <5>1
        <5> QED BY <2>2, <5>1, <5>2, <5>3
      <4>5. CASE c \notin 1..(place - 1)
        <5>1. c = i /\ c = Len(messages) + 1
          BY <1>0, <2>1, <4>1, <4>3, <4>5
        <5> QED BY <1>0, <2>2, <3>2, <5>1
      <4> QED BY <4>4, <4>5
    <3>5. AnswerOut'
      BY <2>1, <3>4 DEF OutInv, AnswerOut
    <3> QED BY <2>2, <3>3, <3>5
  <2> QED BY <2>3, <2>4
<1>2. ASSUME NEW i \in 1..Len(batch), Edited(i)
      PROVE  PartsOut' /\ AnswerOut' /\ PostedApart' /\ NothingLost'
  <2>1. /\ Up(i) /\ Editing /\ place' = i + 1 /\ i \in 1..Len(messages)
        /\ channel' = [channel EXCEPT ![messages[i]] = batch[i]]
        /\ UNCHANGED <<provider, stage, parts, streamed, outcome, sent, batch, messages>>
    BY <1>0, <1>2 DEF Edited
  <2>2. stage \in {"showing", "syncing"} /\ (stage = "showing" => provider = "claude")
    BY <2>1 DEF Editing
  <2>3. PartsOut' /\ NothingLost' /\ PostedApart'
    BY <2>1, <2>2 DEF OutInv, TellingInv, OutcomeKnown, Ended, PartsOut, NothingLost, PostedApart
  <2>4. \A m \in 1..Len(channel) : channel'[m] = IF m = messages[i] THEN batch[i] ELSE channel[m]
    BY <1>0, <2>1
  <2>5. ASSUME outcome = "answer", stage = "syncing", NEW c \in 1..(place' - 1)
        PROVE  c <= Len(messages) /\ channel'[messages[c]] = batch[c]
    <3>1. i = place
      BY <1>0, <2>1, <2>5, PlaceOfCall
    <3>2. CASE c = i
      BY <1>0, <2>1, <2>4, <3>2
    <3>3. CASE c # i
      <4>1. c \in 1..(place - 1)
        BY <1>0, <2>1, <3>1, <3>3
      <4>2. c \in 1..Len(messages) /\ channel[messages[c]] = batch[c]
        BY <1>0, <2>5, <4>1 DEF OutInv, AnswerOut
      <4>3. messages[c] # messages[i]
        BY <2>1, <3>3, <4>2 DEF OutInv, PostedApart
      <4> QED BY <1>0, <2>4, <4>2, <4>3
    <3> QED BY <3>2, <3>3
  <2>6. AnswerOut'
    BY <2>1, <2>5 DEF OutInv, AnswerOut
  <2> QED BY <2>3, <2>6
<1>3. ASSUME NEW i \in 1..Len(batch), EditRefused(i)
      PROVE  PartsOut' /\ AnswerOut' /\ PostedApart' /\ NothingLost'
  <2>1. /\ Up(i) /\ Editing /\ place' = i + 1 /\ i \in 1..Len(messages) /\ stage \in Calling
        /\ channel' = Append(channel, batch[i])
        /\ messages' = [messages EXCEPT ![i] = Len(channel) + 1]
        /\ UNCHANGED <<provider, stage, parts, streamed, outcome, sent, batch>>
    BY <1>0, <1>3 DEF EditRefused, Editing, Calling
  <2>2. /\ PartsOut' /\ NothingLost'
        /\ Len(channel') = Len(channel) + 1 /\ channel'[Len(channel) + 1] = batch[i]
        /\ \A m \in 1..Len(channel) : channel'[m] = channel[m]
    BY <2>1, AppendOut
  <2>3. /\ Len(messages') = Len(messages)
        /\ \A j \in 1..Len(messages) : messages'[j] = IF j = i THEN Len(channel) + 1 ELSE messages[j]
    <3>1. messages \in Seq(Nat) /\ Len(channel) + 1 \in Nat
      BY <1>0, SeqMonotonic
    <3> QED BY <2>1, <3>1, ExceptSeq
  <2>4. Len(channel) + 1 \notin 1..Len(channel)
    BY <1>0
  <2>5. PostedApart'
    BY <1>0, <2>3, <2>4 DEF OutInv, PostedApart
  <2>6. ASSUME outcome = "answer", stage = "syncing", NEW c \in 1..(place' - 1)
        PROVE  c <= Len(messages') /\ channel'[messages'[c]] = batch[c]
    <3>1. i = place
      BY <1>0, <2>1, <2>6, PlaceOfCall
    <3>2. CASE c = i
      BY <1>0, <2>1, <2>2, <2>3, <3>2
    <3>3. CASE c # i
      <4>1. c \in 1..(place - 1)
        BY <1>0, <2>1, <3>1, <3>3
      <4>2. c \in 1..Len(messages) /\ channel[messages[c]] = batch[c]
        BY <1>0, <2>6, <4>1 DEF OutInv, AnswerOut
      <4> QED BY <1>0, <2>2, <2>3, <3>3, <4>2
    <3> QED BY <3>2, <3>3
  <2>7. AnswerOut'
    BY <2>1, <2>6 DEF OutInv, AnswerOut
  <2> QED BY <2>2, <2>5, <2>7
<1>4. ASSUME NEW i \in 1..Len(batch), SendRefused(i)
      PROVE  PartsOut' /\ AnswerOut' /\ PostedApart' /\ NothingLost'
  <2>1. UNCHANGED <<provider, parts, messages, channel, sent>>
    BY <1>4 DEF SendRefused
  <2>2. CASE stage \in {"showing", "noticing"}
    <3>1. Finish("error")
      BY <1>4, <2>2 DEF SendRefused
    <3> QED BY <2>1, <3>1, FinishOut
  <2>3. CASE stage \notin {"showing", "noticing"}
    <3>1. stage' = "raised" /\ UNCHANGED <<outcome, streamed, batch, place>> /\ stage \in Ended
      BY <1>4, <2>3 DEF SendRefused, Ended
    <3> QED
      BY <2>1, <3>1 DEF OutInv, TellingInv, OutcomeKnown, PartsOut, AnswerOut, PostedApart, NothingLost
  <2> QED BY <2>2, <2>3
<1>5. CASE Shown
  <2>1. /\ UNCHANGED <<provider, parts, outcome, streamed, messages, channel>>
        /\ stage' = (IF stage \in {"showing", "noticing"} THEN "streaming" ELSE "done")
        /\ stage \in Calling
        /\ sent' = (sent \/ Editing \/ stage = "showing")
    BY <1>5 DEF Shown, Calling
  <2>2. PostedApart'
    BY <2>1 DEF OutInv, PostedApart
  <2>3. CASE stage \in {"showing", "noticing"}
    <3>1. outcome = "none" /\ stage' = "streaming"
      BY <2>1, <2>3 DEF OutInv, TellingInv, OutcomeKnown, Ended, AnswerTyped, AnswerTypeOK
    <3>2. PartsOut'
      <4> SUFFICES ASSUME provider # "claude"
                   PROVE  /\ \A k \in 1..Len(parts) : OnChannel(parts[k])
                          /\ ~sent' => parts = << >>
        BY <2>1, <3>1 DEF OutInv, PartsOut, OnChannel
      <4>1. ~Editing
        BY <2>3 DEF Editing
      <4>2. place..Len(batch) = {}
        BY <1>5, <4>1 DEF Shown
      <4>3. \A k \in 1..Len(parts) : OnChannel(parts[k])
        BY <3>1, <4>2 DEF OutInv, PartsOut
      <4>4. ~sent' => ~sent /\ stage # "showing"
        BY <2>1
      <4> QED BY <3>1, <4>3, <4>4 DEF OutInv, PartsOut
    <3> QED
      BY <2>1, <2>2, <3>1, <3>2 DEF AnswerOut, NothingLost
  <2>4. CASE stage \notin {"showing", "noticing"}
    <3>1. stage' = "done" /\ stage \in {"closing", "syncing"} /\ outcome # "none"
      BY <2>1, <2>4 DEF Calling, OutInv, TellingInv, OutcomeKnown, Ended
    <3>2. PartsOut' /\ AnswerOut'
      BY <2>1, <3>1 DEF PartsOut, AnswerOut
    <3>3. NothingLost'
      <4> SUFFICES ASSUME outcome = "answer", NEW k \in 1..Len(parts)
                   PROVE  OnChannel(parts[k])
        BY <2>1 DEF NothingLost, OnChannel, InText
      <4>1. parts \in Text
        BY <1>0 DEF AnswerTyped
      <4>2. stage = "syncing"
        <5>1. parts # << >>
          BY <4>1, EmptySeq, LenProperties DEF Text
        <5> QED BY <3>1, <5>1 DEF OutInv, AnswerOut
      <4>3. place = Len(batch) + 1 /\ batch = Chunks(parts)
        BY <1>0, <1>5, <4>2, AllOut DEF OutInv, AnswerOut
      <4>4. PICK c \in 1..Len(batch) : InText(parts[k], batch[c])
        BY <4>1, <4>3, ChunksCover DEF Text
      <4>5. c \in 1..(place - 1)
        BY <1>0, <4>3
      <4>6. c \in 1..Len(messages) /\ channel[messages[c]] = batch[c]
        BY <1>0, <4>2, <4>5 DEF OutInv, AnswerOut
      <4> QED BY <1>0, <4>4, <4>6 DEF OnChannel
    <3> QED BY <2>2, <3>2, <3>3
  <2> QED BY <2>3, <2>4
<1> QED
  BY <1>1, <1>2, <1>3, <1>4, <1>5 DEF Call

\* It is inductive.
LEMMA OutStep ==
  ASSUME OutInv, [AnswerNext]_answerVars
  PROVE  OutInv'
<1>1. TellingInv'
  BY TellingStep DEF OutInv
<1>2. CASE Provide
  BY <1>1, <1>2, OutProvide DEF OutInv
<1>3. CASE Call
  BY <1>1, <1>3, OutCall DEF OutInv
<1>4. CASE StreamClosed
  <2>1. UNCHANGED <<provider, stage, parts, outcome, responder, batch, place, channel>>
    BY <1>4 DEF StreamClosed
  <2> QED
    BY <1>1, <2>1 DEF OutInv, PartsOut, AnswerOut, PostedApart, NothingLost, OnChannel, responder
<1>5. CASE UNCHANGED answerVars
  BY <1>1, <1>5 DEF OutInv, PartsOut, AnswerOut, PostedApart, NothingLost, OnChannel, answerVars,
                    wrapper, responder
<1> QED
  BY <1>2, <1>3, <1>4, <1>5 DEF AnswerNext

\* It holds in every state.
LEMMA OutAlways == AnswerSpec => []OutInv
<1>1. AnswerInit => OutInv
  BY OutInit
<1>2. OutInv /\ [AnswerNext]_answerVars => OutInv'
  BY OutStep
<1> QED
  BY <1>1, <1>2, PTL DEF AnswerSpec

\* Every token of an answered turn is in the channel at its end, whatever
\* pieces it came in, however it was cut and edited, and whichever edits failed.
THEOREM NothingIsLost == AnswerSpec => []NothingLost
<1>1. OutInv => NothingLost
  BY DEF OutInv
<1> QED
  BY <1>1, OutAlways, PTL

-----------------------------------------------------------------------------
(***************************************************************************)
(* Texts that begin others, and how a list of messages reads.              *)
(***************************************************************************)

\* What the first k sequences join to; one text begins another; the chunks of
\* a text that grew are the chunks there were, but for the last of them.
Upto(ss, k) == IF k = 0 THEN << >> ELSE Joined(ss)[k]
Begins(s, t) == \E r \in Text : t = s \o r
Under(ps, ss) ==
  /\ Len(ps) <= Len(ss)
  /\ \A c \in 1..Len(ps) : Begins(ps[c], ss[c]) /\ (c < Len(ps) => ps[c] = ss[c])

\* The join of the first texts, from none to all.
LEMMA UptoFacts ==
  ASSUME NEW ss \in Seq(Text)
  PROVE  /\ Upto(ss, 0) = << >>
         /\ \A k \in 0..Len(ss) : Upto(ss, k) \in Text
         /\ \A k \in Nat : k + 1 <= Len(ss) => Upto(ss, k + 1) = Upto(ss, k) \o ss[k+1]
         /\ FlattenSeq(ss) = Upto(ss, Len(ss))
<1>1. Len(ss) \in Nat /\ \A i \in 1..Len(ss) : ss[i] \in Text
  BY LenProperties, ElementOfSeq
<1>2. ASSUME NEW k \in 0..Len(ss)
      PROVE  Upto(ss, k) \in Text
  <2>1. CASE k = 0
    BY <2>1, EmptySeq DEF Upto, Text
  <2>2. CASE k # 0
    <3>1. k \in 1..Len(ss)
      BY <1>1, <1>2, <2>2
    <3>2. Joined(ss)[k] \in Text
      BY <3>1, JoinedType DEF Text
    <3> QED BY <2>2, <3>2 DEF Upto
  <2> QED BY <2>1, <2>2
<1>3. ASSUME NEW k \in Nat, k + 1 <= Len(ss)
      PROVE  Upto(ss, k + 1) = Upto(ss, k) \o ss[k+1]
  <2>0. k + 1 # 0 /\ Upto(ss, k + 1) = Joined(ss)[k+1]
    BY DEF Upto
  <2>1. CASE k = 0
    <3>1. k + 1 = 1 /\ Len(ss) # 0
      BY <1>1, <1>3, <2>1
    <3>2. Joined(ss)[1] = ss[1]
      BY <3>1, JoinedIs DEF Text
    <3>3. ss[1] \in Text
      BY <1>1, <1>3, <3>1
    <3>4. << >> \o ss[1] = ss[1]
      BY <3>3, ConcatEmptySeq DEF Text
    <3> QED BY <2>0, <2>1, <3>1, <3>2, <3>4 DEF Upto
  <2>2. CASE k # 0
    <3>1. k \in Nat \ {0}
      BY <2>2
    <3>2. Joined(ss)[k+1] = Joined(ss)[k] \o ss[k+1]
      BY <1>3, <3>1, JoinedIs DEF Text
    <3> QED BY <2>0, <2>2, <3>2 DEF Upto
  <2> QED BY <2>1, <2>2
<1>4. FlattenSeq(ss) = Upto(ss, Len(ss))
  BY FlattenIsJoined DEF Upto, Text
<1> QED
  BY <1>2, <1>3, <1>4 DEF Upto

\* It depends on these texts only.
LEMMA UptoSame ==
  ASSUME NEW ss \in Seq(Text), NEW tt \in Seq(Text), NEW n \in Nat, n <= Len(ss), n <= Len(tt),
         \A i \in 1..n : ss[i] = tt[i]
  PROVE  Upto(ss, n) = Upto(tt, n)
<1> DEFINE E == {k \in Nat : k <= n => Upto(ss, k) = Upto(tt, k)}
<1>1. 0 \in E
  BY DEF Upto
<1>2. ASSUME NEW k \in Nat, k \in E
      PROVE  k + 1 \in E
  <2> SUFFICES ASSUME k + 1 <= n PROVE Upto(ss, k + 1) = Upto(tt, k + 1)
    OBVIOUS
  <2>1. Upto(ss, k) = Upto(tt, k) /\ ss[k+1] = tt[k+1]
    BY <1>2
  <2>2. Len(ss) \in Nat /\ Len(tt) \in Nat
    BY LenProperties
  <2>3. k + 1 <= Len(ss) /\ k + 1 <= Len(tt)
    BY <2>2
  <2> QED BY <2>1, <2>3, UptoFacts
<1>3. Nat \subseteq E
  BY <1>1, <1>2, Induction
<1>4. n \in E
  BY <1>3
<1> QED BY <1>4

\* Joining is associative.
LEMMA TextAssociates ==
  ASSUME NEW s \in Text, NEW t \in Text, NEW u \in Text
  PROVE  (s \o t) \o u = s \o (t \o u)
<1> DEFINE P == Nat \X Nat
<1>1. s \in Seq(P) /\ t \in Seq(P) /\ u \in Seq(P)
  BY DEF Text
<1> HIDE DEF P
<1> QED BY <1>1, SMT

\* To begin with a text is a partial order, and joining keeps it.
LEMMA BeginsFacts ==
  /\ \A s \in Text : Begins(s, s) /\ Begins(<< >>, s)
  /\ \A s, t, u \in Text : Begins(s, t) /\ Begins(t, u) => Begins(s, u)
  /\ \A s, t \in Text : Begins(s, s \o t)
  /\ \A s, t, u \in Text : Begins(t, u) => Begins(s \o t, s \o u)
<1>1. << >> \in Text
  BY EmptySeq DEF Text
<1>2. ASSUME NEW s \in Text
      PROVE  Begins(s, s) /\ Begins(<< >>, s)
  <2>1. s \o << >> = s /\ << >> \o s = s
    BY ConcatEmptySeq DEF Text
  <2> QED BY <1>1, <2>1, Zenon DEF Begins
<1>3. ASSUME NEW s \in Text, NEW t \in Text, NEW u \in Text, Begins(s, t), Begins(t, u)
      PROVE  Begins(s, u)
  <2>1. PICK q \in Text : t = s \o q
    BY <1>3 DEF Begins
  <2>2. PICK r \in Text : u = t \o r
    BY <1>3 DEF Begins
  <2>3. q \o r \in Text
    BY ConcatProperties, Zenon DEF Text
  <2>4. (s \o q) \o r = s \o (q \o r)
    BY TextAssociates, SMTT(30)
  <2>5. u = s \o (q \o r)
    BY <2>1, <2>2, <2>4
  <2> QED BY <2>3, <2>5, Zenon DEF Begins
<1>4. \A s, t \in Text : Begins(s, s \o t)
  BY Zenon DEF Begins
<1>5. ASSUME NEW s \in Text, NEW t \in Text, NEW u \in Text, Begins(t, u)
      PROVE  Begins(s \o t, s \o u)
  <2>1. PICK r \in Text : u = t \o r
    BY <1>5 DEF Begins
  <2>2. (s \o t) \o r = s \o (t \o r)
    BY TextAssociates, SMTT(30)
  <2>3. s \o u = (s \o t) \o r
    BY <2>1, <2>2
  <2> QED BY <2>3, Zenon DEF Begins
<1> QED BY <1>2, <1>3, <1>4, <1>5

\* In the words of the library.
LEMMA BeginsIsPrefix ==
  ASSUME NEW s \in Text, NEW t \in Text, Begins(s, t)
  PROVE  IsPrefix(s, t)
<1>1. PICK r \in Text : t = s \o r
  BY DEF Begins
<1>2. /\ Len(t) = Len(s) + Len(r) /\ Len(s) \in Nat /\ Len(r) \in Nat
      /\ \A i \in 1..Len(s) : t[i] = s[i]
  BY <1>1, ConcatProperties, LenProperties DEF Text
<1>3. SubSeq(s, 1, Len(s)) = SubSeq(t, 1, Len(s))
  BY <1>2
<1> QED BY <1>2, <1>3 DEF IsPrefix

\* A joined text ends with what was joined last.
LEMMA EndIsSuffix ==
  ASSUME NEW s \in Text, NEW o \in Text
  PROVE  IsSuffix(s, o \o s)
<1> DEFINE t == o \o s
           n == Len(s)
           k == Len(o)
<1>1. /\ t \in Text /\ n \in Nat /\ k \in Nat /\ Len(t) = k + n
      /\ \A i \in 1..(k + n) : t[i] = IF i <= k THEN o[i] ELSE s[i - k]
  BY ConcatProperties, LenProperties DEF Text
<1> HIDE DEF t
<1>2. /\ Reverse(s) = [i \in 1..n |-> s[(n - i) + 1]]
      /\ Reverse(t) = [i \in 1..(k + n) |-> t[((k + n) - i) + 1]]
  BY <1>1 DEF Reverse
<1>3. Reverse(s) \in Text /\ Reverse(t) \in Text
  <2>1. \A i \in 1..n : s[(n - i) + 1] \in Nat \X Nat
    BY <1>1, ElementOfSeq, SMTT(30) DEF Text
  <2>2. \A i \in 1..(k + n) : t[((k + n) - i) + 1] \in Nat \X Nat
    <3>1. \A i \in 1..(k + n) : ((k + n) - i) + 1 \in 1..Len(t)
      BY <1>1
    <3> QED BY <1>1, <3>1, ElementOfSeq DEF Text
  <2>3. Reverse(s) \in [1..n -> Nat \X Nat] /\ Reverse(t) \in [1..(k + n) -> Nat \X Nat]
    BY <1>2, <2>1, <2>2
  <2>4. \A m \in Nat : \A f \in [1..m -> Nat \X Nat] : f \in Seq(Nat \X Nat)
    OBVIOUS
  <2>5. n \in Nat /\ k + n \in Nat
    BY <1>1
  <2> HIDE DEF n, k
  <2> QED BY <2>3, <2>4, <2>5, Zenon DEF Text
<1>4. Len(Reverse(s)) = n /\ Len(Reverse(t)) = k + n
  BY <1>1, <1>2, <1>3
<1>5. \A i \in 1..n : Reverse(t)[i] = Reverse(s)[i]
  <2> SUFFICES ASSUME NEW i \in 1..n PROVE Reverse(t)[i] = Reverse(s)[i]
    OBVIOUS
  <2>1. Reverse(t)[i] = t[((k + n) - i) + 1] /\ Reverse(s)[i] = s[(n - i) + 1]
    BY <1>1, <1>2
  <2>2. ((k + n) - i) + 1 \in 1..(k + n) /\ ~(((k + n) - i) + 1 <= k) /\ (((k + n) - i) + 1) - k = (n - i) + 1
    BY <1>1
  <2> QED BY <1>1, <2>1, <2>2
<1> DEFINE p == Reverse(s)
           q == Reverse(t)
<1>6. Len(p) = n /\ Len(q) = k + n /\ \A i \in 1..n : q[i] = p[i]
  BY <1>4, <1>5
<1> HIDE DEF p, q, n, k
<1>7. n <= k + n
  BY <1>1 DEF n, k
<1>8. SubSeq(p, 1, n) = SubSeq(q, 1, n)
  BY <1>1, <1>6
<1>9. IsPrefix(p, q)
  BY <1>6, <1>7, <1>8 DEF IsPrefix
<1> QED
  BY <1>9 DEF IsSuffix, p, q, t

\* Fewer texts are the beginning of more.
LEMMA UptoBegins ==
  ASSUME NEW ss \in Seq(Text), NEW k \in Nat, NEW n \in Nat, k <= n, n <= Len(ss)
  PROVE  Begins(Upto(ss, k), Upto(ss, n))
<1> DEFINE E == {d \in Nat : k + d <= n => Begins(Upto(ss, k), Upto(ss, k + d))}
<1>0. Len(ss) \in Nat /\ \A i \in 1..Len(ss) : ss[i] \in Text
  BY LenProperties, ElementOfSeq
<1>1. 0 \in E
  <2>1. Upto(ss, k) \in Text /\ k + 0 = k
    BY <1>0, UptoFacts
  <2> QED BY <2>1, BeginsFacts
<1>2. ASSUME NEW d \in Nat, d \in E
      PROVE  d + 1 \in E
  <2> SUFFICES ASSUME k + (d + 1) <= n PROVE Begins(Upto(ss, k), Upto(ss, k + (d + 1)))
    OBVIOUS
  <2> DEFINE j == k + d
  <2>1. j \in Nat /\ j + 1 = k + (d + 1) /\ j + 1 <= Len(ss) /\ j \in 0..Len(ss) /\ k \in 0..Len(ss)
        /\ j + 1 \in 0..Len(ss) /\ j <= n
    BY <1>0
  <2>2. Begins(Upto(ss, k), Upto(ss, j))
    BY <1>2, <2>1
  <2> HIDE DEF j
  <2>3. Upto(ss, j + 1) = Upto(ss, j) \o ss[j+1]
    BY <2>1, UptoFacts
  <2>4. Upto(ss, k) \in Text /\ Upto(ss, j) \in Text /\ Upto(ss, j + 1) \in Text /\ ss[j+1] \in Text
    BY <1>0, <2>1, UptoFacts
  <2>5. Begins(Upto(ss, j), Upto(ss, j + 1))
    <3>1. Begins(Upto(ss, j), Upto(ss, j) \o ss[j+1])
      BY <2>4, BeginsFacts, Zenon
    <3> QED BY <2>3, <3>1
  <2>6. Begins(Upto(ss, k), Upto(ss, j + 1))
    BY <2>2, <2>4, <2>5, BeginsFacts
  <2> QED BY <2>1, <2>6
<1>3. Nat \subseteq E
  BY <1>1, <1>2, Induction
<1>4. n - k \in E /\ k + (n - k) = n
  BY <1>3
<1> QED BY <1>4

\* What is shown of chunks reads as the beginning of their text.
LEMMA UnderReads ==
  ASSUME NEW ps \in Seq(Text), NEW ss \in Seq(Text), Under(ps, ss)
  PROVE  Begins(FlattenSeq(ps), FlattenSeq(ss))
<1> DEFINE m == Len(ps)
           n == Len(ss)
<1>1. m \in Nat /\ n \in Nat /\ m <= n
  BY LenProperties DEF Under
<1>2. FlattenSeq(ps) = Upto(ps, m) /\ FlattenSeq(ss) = Upto(ss, n)
  BY UptoFacts
<1>3. Upto(ps, m) \in Text /\ Upto(ss, m) \in Text /\ Upto(ss, n) \in Text
  BY <1>1, UptoFacts
<1>4. Begins(Upto(ss, m), Upto(ss, n))
  BY <1>1, UptoBegins
<1>5. Begins(Upto(ps, m), Upto(ss, m))
  <2>1. CASE m = 0
    BY <1>3, <2>1, BeginsFacts DEF Upto
  <2>2. CASE m # 0
    <3> DEFINE k == m - 1
    <3>1. k \in Nat /\ k + 1 = m /\ k <= Len(ps) /\ k <= Len(ss) /\ k + 1 <= Len(ps) /\ k + 1 <= Len(ss)
      BY <1>1, <2>2
    <3> HIDE DEF k
    <3>2. \A i \in 1..k : ps[i] = ss[i]
      <4>1. \A i \in 1..k : i \in 1..m /\ i < m
        BY <3>1
      <4> QED BY <4>1 DEF Under
    <3>3. Upto(ps, k) = Upto(ss, k)
      BY <3>1, <3>2, UptoSame
    <3>4. Upto(ps, m) = Upto(ps, k) \o ps[m] /\ Upto(ss, m) = Upto(ss, k) \o ss[m]
      <4>1. Upto(ps, k + 1) = Upto(ps, k) \o ps[k+1]
        BY <3>1, UptoFacts
      <4>2. Upto(ss, k + 1) = Upto(ss, k) \o ss[k+1]
        BY <3>1, UptoFacts
      <4> QED BY <3>1, <4>1, <4>2
    <3>5. Begins(ps[m], ss[m])
      BY <1>1, <2>2 DEF Under
    <3>6. Upto(ss, k) \in Text /\ ps[m] \in Text /\ ss[m] \in Text
      <4>1. m \in 1..Len(ps) /\ m \in 1..Len(ss) /\ k \in 0..Len(ss)
        BY <1>1, <2>2, <3>1
      <4> QED BY <4>1, ElementOfSeq, UptoFacts
    <3> QED
      BY <3>3, <3>4, <3>5, <3>6, BeginsFacts
  <2> QED BY <2>1, <2>2
<1> QED
  BY <1>2, <1>3, <1>4, <1>5, BeginsFacts

\* A list that begins with another's texts reads so.
LEMMA HeadReads ==
  ASSUME NEW ss \in Seq(Text), NEW ps \in Seq(Text), Len(ss) <= Len(ps),
         \A c \in 1..Len(ss) : ps[c] = ss[c]
  PROVE  /\ Begins(FlattenSeq(ss), FlattenSeq(ps))
         /\ Len(ps) = Len(ss) => ps = ss
<1>1. Len(ss) \in Nat /\ Len(ps) \in Nat
  BY LenProperties
<1>2. Upto(ss, Len(ss)) = Upto(ps, Len(ss))
  BY <1>1, UptoSame
<1>3. Begins(Upto(ps, Len(ss)), Upto(ps, Len(ps)))
  BY <1>1, UptoBegins
<1>4. FlattenSeq(ss) = Upto(ss, Len(ss)) /\ FlattenSeq(ps) = Upto(ps, Len(ps))
  BY UptoFacts
<1>5. Len(ps) = Len(ss) => ps = ss
  BY SeqEqual
<1> QED
  BY <1>2, <1>3, <1>4, <1>5

\* A text that grows: only its last chunk changes, and grows.
LEMMA ChunksGrow ==
  ASSUME NEW s \in Text, NEW t \in Text, NEW ps \in Seq(Text), Under(ps, Chunks(s))
  PROVE  Under(ps, Chunks(s \o t))
<1> DEFINE u == s \o t
           n == Len(s)
           w == Len(u)
           cs == Chunks(s)
           cu == Chunks(u)
<1>1. u \in Text /\ n \in Nat /\ w \in Nat /\ n <= w /\ \A i \in 1..n : u[i] = s[i]
  BY ConcatProperties, LenProperties DEF Text
<1> HIDE DEF u
<1>2. /\ cs \in Seq(Text) /\ cu \in Seq(Text)
      /\ \A i \in 1..Len(cs) : cs[i] = SubSeq(s, (i - 1) * ChunkSize + 1, EndOf(n, i))
      /\ \A i \in 1..Len(cu) : cu[i] = SubSeq(u, (i - 1) * ChunkSize + 1, EndOf(w, i))
  BY <1>1, ChunksAre DEF Text
<1>3. /\ Len(cs) \in Nat /\ EndOf(n, Len(cs)) = n
      /\ \A i \in 1..Len(cs) : /\ (i - 1) * ChunkSize \in 0..(n - 1)
                               /\ EndOf(n, i) \in ((i - 1) * ChunkSize + 1)..n
                               /\ EndOf(n, i - 1) = (i - 1) * ChunkSize
  BY <1>1, <1>2, ChunkCount, ChunksAre DEF Text
<1>4. /\ Len(cu) \in Nat /\ EndOf(w, Len(cu)) = w
      /\ \A i \in 1..Len(cu) : /\ (i - 1) * ChunkSize \in 0..(w - 1)
                               /\ EndOf(w, i) \in ((i - 1) * ChunkSize + 1)..w
                               /\ EndOf(w, i - 1) = (i - 1) * ChunkSize
  BY <1>1, <1>2, ChunkCount, ChunksAre DEF Text
<1>c. ChunkSize \in Nat \ {0}
  BY AnswerAssumption
<1> HIDE DEF cs, cu
<1>5. Len(cs) <= Len(cu)
  <2> SUFFICES ASSUME Len(cu) + 1 <= Len(cs) PROVE FALSE
    BY <1>3, <1>4
  <2>1. Len(cu) + 1 \in 1..Len(cs) /\ (Len(cu) + 1) - 1 = Len(cu)
    BY <1>3, <1>4
  <2>2. Len(cu) * ChunkSize \in 0..(n - 1)
    BY <1>3, <2>1
  <2>3. w <= Len(cu) * ChunkSize
    <3> DEFINE z == Len(cu) * ChunkSize
    <3>1. (IF z <= w THEN z ELSE w) = w /\ z \in Nat
      BY <1>4, <2>2 DEF EndOf
    <3> HIDE DEF z
    <3>2. w <= z
      BY <1>1, <3>1
    <3> QED BY <3>2 DEF z
  <2> QED
    <3> DEFINE z == Len(cu) * ChunkSize
    <3> HIDE DEF z
    <3>1. z \in 0..(n - 1) /\ w <= z
      BY <2>2, <2>3 DEF z
    <3> QED BY <1>1, <3>1
<1>6. ASSUME NEW i \in 1..Len(cs)
      PROVE  Begins(cs[i], cu[i]) /\ (i < Len(cs) => cs[i] = cu[i])
  <2> DEFINE a == (i - 1) * ChunkSize
             b == EndOf(n, i)
             d == EndOf(w, i)
             z == i * ChunkSize
  <2>1. i \in 1..Len(cu) /\ a \in 0..(n-1) /\ b \in (a + 1)..n /\ d \in (a + 1)..w
    BY <1>3, <1>4, <1>5, <1>6, SMTT(30)
  <2>2. cs[i] = SubSeq(s, a + 1, b) /\ cu[i] = SubSeq(u, a + 1, d)
    BY <1>2, <2>1
  <2>3. b = (IF z <= n THEN z ELSE n) /\ d = (IF z <= w THEN z ELSE w) /\ z \in Nat
    BY <1>3, <1>c DEF EndOf
  <2>4. i < Len(cs) => z = b
    <3> SUFFICES ASSUME i < Len(cs) PROVE z = b
      OBVIOUS
    <3>1. i + 1 \in 1..Len(cs) /\ (i + 1) - 1 = i
      BY <1>3
    <3> QED BY <1>3, <3>1
  <2> HIDE DEF a, b, d, z
  <2>5. b <= d /\ (i < Len(cs) => b = d) /\ a + 1 \in 1..w /\ b \in 1..n /\ a + 1 <= b /\ d \in b..w
    BY <1>1, <2>1, <2>3, <2>4
  <2>6. SubSeq(u, a + 1, b) = SubSeq(s, a + 1, b)
    <3>1. a \in Nat /\ b \in Nat /\ \A j \in (a + 1)..b : u[j] = s[j]
      BY <1>1, <2>1, <2>5
    <3>2. \A k \in 1..((b - (a + 1)) + 1) : u[(k + (a + 1)) - 1] = s[(k + (a + 1)) - 1]
      BY <3>1
    <3> QED BY <3>1, <3>2
  <2>7. SubSeq(u, a + 1, b) \o SubSeq(u, b + 1, d) = SubSeq(u, a + 1, d)
    <3>1. a + 1 \in 1..(Len(u) + 1) /\ b \in ((a + 1) - 1)..Len(u) /\ d \in b..Len(u)
      BY <1>1, <2>1, <2>5
    <3> QED BY <1>1, <3>1, ConcatAdjacentSubSeq DEF Text
  <2>8. SubSeq(u, b + 1, d) \in Text
    <3>1. \A j \in 1..Len(u) : u[j] \in Nat \X Nat
      BY <1>1, ElementOfSeq DEF Text
    <3>2. \A j \in (b + 1)..d : u[j] \in Nat \X Nat
      BY <1>1, <2>5, <3>1
    <3>3. b + 1 \in Int /\ d \in Int
      BY <1>1, <2>5
    <3> QED BY <3>2, <3>3, SubSeqProperties DEF Text
  <2>9. Begins(cs[i], cu[i])
    BY <2>2, <2>6, <2>7, <2>8, Zenon DEF Begins
  <2>10. i < Len(cs) => cs[i] = cu[i]
    BY <2>2, <2>5, <2>6
  <2> QED BY <2>9, <2>10
<1>7. Under(ps, cu)
  <2>1. Len(ps) \in Nat /\ Len(ps) <= Len(cs)
    BY LenProperties DEF Under, cs
  <2> SUFFICES ASSUME NEW c \in 1..Len(ps)
               PROVE  Begins(ps[c], cu[c]) /\ (c < Len(ps) => ps[c] = cu[c])
    BY <1>3, <1>4, <1>5, <2>1 DEF Under
  <2>2. Begins(ps[c], cs[c]) /\ (c < Len(ps) => ps[c] = cs[c])
    BY DEF Under, cs
  <2>3. c \in 1..Len(cs) /\ c \in 1..Len(cu) /\ (c < Len(ps) => c < Len(cs))
    BY <1>3, <1>4, <1>5, <2>1, SMTT(30)
  <2>4. ps[c] \in Text /\ cs[c] \in Text /\ cu[c] \in Text
    BY <1>2, <2>3, ElementOfSeq
  <2> QED
    BY <1>6, <2>2, <2>3, <2>4, BeginsFacts
<1> QED
  BY <1>7 DEF cu, u

\* Messages that read as nothing between those of an answer change nothing.
LEMMA SkipReads ==
  ASSUME NEW hs \in Seq(Text), NEW ps \in Seq(Text), NEW ms \in Seq(1..Len(hs)),
         Len(ms) = Len(ps),
         \A i, j \in 1..Len(ms) : i < j => ms[i] < ms[j],
         \A j \in 1..Len(ms) : ps[j] = hs[ms[j]],
         \A m \in 1..Len(hs) : (\A j \in 1..Len(ms) : ms[j] # m) => hs[m] = << >>
  PROVE  FlattenSeq(hs) = FlattenSeq(ps)
<1> DEFINE n == Len(hs)
           l == Len(ps)
<1>1. /\ n \in Nat /\ l \in Nat
      /\ \A j \in 1..l : ms[j] \in 1..n
      /\ \A j \in 1..l : ps[j] \in Text
      /\ \A j \in 1..n : hs[j] \in Text
  BY LenProperties, ElementOfSeq
<1>2. /\ Upto(hs, 0) = << >> /\ Upto(ps, 0) = << >>
      /\ \A k \in 0..n : Upto(hs, k) \in Text
      /\ \A k \in Nat : k + 1 <= n => Upto(hs, k + 1) = Upto(hs, k) \o hs[k+1]
      /\ \A k \in Nat : k + 1 <= l => Upto(ps, k + 1) = Upto(ps, k) \o ps[k+1]
      /\ FlattenSeq(hs) = Upto(hs, n) /\ FlattenSeq(ps) = Upto(ps, l)
  BY UptoFacts
<1>3. /\ \A i, j \in 1..l : i < j => ms[i] < ms[j]
      /\ \A j \in 1..l : ps[j] = hs[ms[j]]
      /\ \A m \in 1..n : (\A j \in 1..l : ms[j] # m) => hs[m] = << >>
  OBVIOUS
<1> HIDE DEF n, l
<1> DEFINE Upon(c, k) == /\ \A j \in 1..c : ms[j] <= k
                         /\ \A j \in (c + 1)..l : ms[j] > k
                         /\ Upto(hs, k) = Upto(ps, c)
           E == {k \in Nat : k <= n => \E c \in 0..l : Upon(c, k)}
<1> HIDE DEF Upon
<1>4. 0 \in E
  <2>1. Upon(0, 0)
    BY <1>1, <1>2 DEF Upon
  <2>2. 0 \in 0..l
    BY <1>1
  <2>3. \E c \in 0..l : Upon(c, 0)
    BY <2>1, <2>2, Zenon
  <2> QED BY <2>3
<1>5. ASSUME NEW k \in Nat, k \in E
      PROVE  k + 1 \in E
  <2> SUFFICES ASSUME k + 1 <= n PROVE \E c \in 0..l : Upon(c, k + 1)
    OBVIOUS
  <2>1. PICK c \in 0..l : Upon(c, k)
    BY <1>1, <1>5
  <2>2. /\ \A j \in 1..c : ms[j] <= k
        /\ \A j \in (c + 1)..l : ms[j] > k
        /\ Upto(hs, k) = Upto(ps, c)
    BY <2>1 DEF Upon
  <2>3. CASE c < l /\ ms[c+1] = k + 1
    <3>1. \A j \in 1..(c + 1) : ms[j] <= k + 1
      <4>1. \A j \in 1..(c + 1) : j \in 1..c \/ j = c + 1
        BY <1>1
      <4>2. \A j \in 1..c : ms[j] \in Nat
        BY <1>1
      <4> QED BY <2>2, <2>3, <4>1, <4>2, SMTT(30)
    <3>2. \A j \in ((c + 1) + 1)..l : ms[j] > k + 1
      <4> SUFFICES ASSUME NEW j \in ((c + 1) + 1)..l PROVE ms[j] > k + 1
        OBVIOUS
      <4>1. c + 1 \in 1..l /\ j \in 1..l /\ c + 1 < j
        BY <1>1, <2>3
      <4>2. ms[c+1] < ms[j] /\ ms[j] \in Nat
        BY <1>1, <1>3, <4>1
      <4> QED BY <2>3, <4>2
    <3>3. Upto(hs, k + 1) = Upto(ps, c + 1)
      <4>1. c + 1 \in 1..l /\ c \in Nat /\ c + 1 <= l
        BY <1>1, <2>3
      <4>2. ps[c+1] = hs[k+1]
        BY <1>3, <2>3, <4>1
      <4> QED BY <1>2, <2>2, <4>1, <4>2
    <3>4. c + 1 \in 0..l
      BY <1>1, <2>3
    <3>5. Upon(c + 1, k + 1)
      BY <3>1, <3>2, <3>3 DEF Upon
    <3> QED BY <3>4, <3>5
  <2>4. CASE ~(c < l /\ ms[c+1] = k + 1)
    <3>1. \A j \in (c + 1)..l : ms[j] > k + 1
      <4> SUFFICES ASSUME NEW j \in (c + 1)..l PROVE ms[j] > k + 1
        OBVIOUS
      <4>1. c + 1 \in 1..l /\ j \in 1..l /\ c < l /\ c + 1 \in (c + 1)..l
        BY <1>1
      <4>2. ms[c+1] > k /\ ms[c+1] # k + 1 /\ ms[c+1] \in Nat /\ ms[j] \in Nat
        BY <1>1, <2>2, <2>4, <4>1, SMTT(30)
      <4>3. CASE j = c + 1
        BY <4>2, <4>3
      <4>4. CASE j # c + 1
        <5>1. c + 1 < j
          BY <4>4
        <5>2. ms[c+1] < ms[j]
          BY <1>3, <4>1, <5>1
        <5> QED BY <4>2, <5>2
      <4> QED BY <4>3, <4>4
    <3>2. \A j \in 1..c : ms[j] <= k /\ ms[j] \in Nat
      BY <1>1, <2>2
    <3>3. \A j \in 1..l : ms[j] # k + 1
      <4>1. \A j \in 1..l : j \in 1..c \/ j \in (c + 1)..l
        BY <1>1
      <4>2. \A j \in 1..l : ms[j] \in Nat
        BY <1>1
      <4> QED BY <3>1, <3>2, <4>1, <4>2
    <3>4. k + 1 \in 1..n /\ hs[k+1] = << >> /\ k \in 0..n
      BY <1>1, <1>3, <3>3
    <3>5. Upto(hs, k + 1) = Upto(ps, c)
      <4>1. Upto(hs, k) \o << >> = Upto(hs, k)
        BY <1>2, <3>4, ConcatEmptySeq DEF Text
      <4> QED BY <1>2, <2>2, <3>4, <4>1
    <3>6. Upon(c, k + 1)
      BY <3>1, <3>2, <3>5 DEF Upon
    <3> QED BY <3>6
  <2> QED BY <2>3, <2>4
<1>6. Nat \subseteq E
  <2> HIDE DEF E
  <2> QED BY <1>4, <1>5, Induction
<1>7. PICK c \in 0..l : Upon(c, n)
  <2>1. n \in E /\ n <= n
    BY <1>1, <1>6
  <2> QED BY <2>1
<1>8. c = l
  <2> SUFFICES ASSUME c # l PROVE FALSE
    OBVIOUS
  <2>1. c + 1 \in (c + 1)..l /\ c + 1 \in 1..l
    BY <1>1
  <2>2. ms[c+1] > n /\ ms[c+1] \in 1..n
    BY <1>1, <1>7, <2>1 DEF Upon
  <2> QED BY <1>1, <2>2
<1> QED
  BY <1>2, <1>7, <1>8 DEF Upon

-----------------------------------------------------------------------------
(***************************************************************************)
(* The channel reads as the answer does.                                   *)
(***************************************************************************)

\* What processes put out; no process is number 0, so the texts of the program
\* are none of it.
Said == (Nat \ {0}) \X Nat

SaidOnly ==
  /\ outcome # "error" => parts \in Seq(Said) /\ streamed \in Seq(Said)
  /\ stage = "showing" => batch \in Seq(Seq(Said))
  /\ stage = "noticing" => batch = <<Notice>>

\* What the messages of the responder show.
Posted == [j \in 1..Len(messages) |-> channel[messages[j]]]

\* The messages of the responder come in their order, and there is nothing but
\* them and the warning.
InOrder == \A i, j \in 1..Len(messages) : i < j => messages[i] < messages[j]
NothingElse ==
  \A m \in 1..Len(channel) : channel[m] # Notice <=> \E j \in 1..Len(messages) : messages[j] = m

\* With claude: they show the chunks of the text so far, the last of them
\* perhaps less.
ClaudeReads ==
  /\ InOrder
  /\ outcome # "error" /\ stage \notin {"closing", "done", "raised"} => NothingElse
  /\ outcome = "none" => Under(Posted, Chunks(streamed)) /\ (~retried => streamed = parts)
  /\ stage = "showing" =>
       /\ batch = Chunks(streamed)
       /\ \A c \in 1..(place - 1) : c <= Len(messages) /\ Posted[c] = batch[c]
  /\ outcome = "answer" /\ stage = "syncing" /\ ~retried => Len(messages) <= Len(batch) /\ parts # << >>

\* Without: what a first attempt left and the text so far, of which what is
\* being shown may be missing.
Before(o) ==
  /\ ~retried => o = << >>
  /\ stage # "showing" => ReadSoFar = o \o parts
  /\ stage = "showing" =>
       \E b \in Text : ReadSoFar = b \o Upto(batch, place - 1) /\ b \o FlattenSeq(batch) = o \o parts
OtherReads ==
  outcome = "none" =>
    /\ sent /\ ~retried => parts # << >>
    /\ stage = "showing" => parts # << >>
    /\ \E o \in Text : Before(o)

\* Of an answer that is empty its notice is shown.
ClosingReads ==
  outcome = "answer" /\ stage = "closing" =>
    /\ batch = <<Nothing>>
    /\ ~retried => ReadSoFar = IF place = 1 THEN << >> ELSE Nothing

ReadsWell ==
  /\ provider = "claude" => ClaudeReads
  /\ provider # "claude" => OtherReads
  /\ ClosingReads /\ AnswerShown

ReadInv == OutInv /\ SaidOnly /\ (refused = 0 => ReadsWell)

\* Tokens of an answer are neither the notice nor the empty message.
LEMMA SaidFacts ==
  /\ Seq(Said) \subseteq Text
  /\ \A b \in Seq(Said) : b # Notice
  /\ Nothing # Notice
  /\ \A s \in Seq(Said) : Chunks(s) \in Seq(Seq(Said))
<1>1. Seq(Said) \subseteq Text
  <2>1. Said \subseteq Nat \X Nat
    BY DEF Said
  <2> QED BY <2>1, SeqMonotonic DEF Text
<1>2. ASSUME NEW b \in Seq(Said), b = Notice
      PROVE  FALSE
  <2>1. Len(b) = 1 /\ b[1] = <<0, 1>>
    BY <1>2 DEF Notice
  <2>2. b[1] \in Said
    BY <2>1, ElementOfSeq
  <2> QED BY <2>1, <2>2 DEF Said
<1>3. Nothing # Notice
  BY DEF Nothing, Notice
<1> QED
  BY <1>1, <1>2, <1>3, ChunksAre

\* The messages of the answer, as the channel shows them.
LEMMA PostedFacts ==
  ASSUME AnswerTyped
  PROVE  /\ Posted \in Seq(Text) /\ Len(Posted) = Len(messages)
         /\ Len(messages) \in Nat /\ Len(channel) \in Nat
         /\ \A j \in 1..Len(messages) : /\ messages[j] \in 1..Len(channel)
                                        /\ Posted[j] = channel[messages[j]]
<1>1. /\ Len(messages) \in Nat /\ Len(channel) \in Nat
      /\ \A j \in 1..Len(messages) : messages[j] \in 1..Len(channel)
      /\ \A m \in 1..Len(channel) : channel[m] \in Text
  BY LenProperties, ElementOfSeq DEF AnswerTyped, AnswerTypeOK
<1>2. Posted \in [1..Len(messages) -> Text]
  BY <1>1 DEF Posted
<1>3. Posted \in Seq(Text) /\ Len(Posted) = Len(messages)
  BY <1>1, <1>2
<1> QED BY <1>1, <1>3 DEF Posted

\* The channel without notices.
LEMMA HeardFacts ==
  ASSUME AnswerTyped
  PROVE  /\ Heard \in Seq(Text) /\ Len(Heard) = Len(channel) /\ ReadSoFar \in Text
         /\ \A m \in 1..Len(channel) : Heard[m] = IF channel[m] = Notice THEN << >> ELSE channel[m]
<1>1. /\ Len(channel) \in Nat /\ \A m \in 1..Len(channel) : channel[m] \in Text
  BY LenProperties, ElementOfSeq DEF AnswerTyped
<1>2. << >> \in Text
  BY EmptySeq DEF Text
<1>3. Heard \in [1..Len(channel) -> Text]
  BY <1>1, <1>2 DEF Heard
<1>4. Heard \in Seq(Text) /\ Len(Heard) = Len(channel)
  BY <1>1, <1>3
<1>5. ReadSoFar \in Text
  BY <1>4, FlattenType DEF ReadSoFar, Text
<1> QED BY <1>1, <1>4, <1>5 DEF Heard

\* A new message is read after the others.
LEMMA ReadAppend ==
  ASSUME AnswerTyped, NEW b \in Text, channel' = Append(channel, b)
  PROVE  ReadSoFar' = IF b = Notice THEN ReadSoFar ELSE ReadSoFar \o b
<1> DEFINE h == IF b = Notice THEN << >> ELSE b
           n == Len(channel)
<1>1. /\ n \in Nat /\ Len(channel') = n + 1 /\ channel'[n+1] = b
      /\ \A m \in 1..n : channel'[m] = channel[m]
  BY AppendProperties, LenProperties DEF AnswerTyped
<1>2. h \in Text
  BY EmptySeq DEF Text
<1>3. Heard \in Seq(Text) /\ Len(Heard) = n /\ ReadSoFar \in Text
  BY HeardFacts
<1>4. Heard' = Append(Heard, h)
  <2> DEFINE g == Append(Heard, h)
  <2>1. Heard' = [m \in 1..(n + 1) |-> IF channel'[m] = Notice THEN << >> ELSE channel'[m]]
    BY <1>1 DEF Heard
  <2>2. /\ g \in Seq(Text) /\ Len(g) = n + 1 /\ g[n+1] = h
        /\ \A m \in 1..n : g[m] = Heard[m]
    BY <1>2, <1>3, AppendProperties
  <2> HIDE DEF g
  <2>3. \A m \in 1..(n + 1) : g[m] = IF channel'[m] = Notice THEN << >> ELSE channel'[m]
    <3> SUFFICES ASSUME NEW m \in 1..(n + 1)
                 PROVE  g[m] = IF channel'[m] = Notice THEN << >> ELSE channel'[m]
      OBVIOUS
    <3>1. CASE m = n + 1
      BY <1>1, <2>2, <3>1
    <3>2. CASE m # n + 1
      <4>1. m \in 1..n
        BY <1>1, <3>2
      <4> QED BY <1>1, <2>2, <4>1, HeardFacts
    <3> QED BY <3>1, <3>2
  <2>4. g = [m \in 1..(n + 1) |-> g[m]]
    BY <2>2
  <2>5. g = [m \in 1..(n + 1) |-> IF channel'[m] = Notice THEN << >> ELSE channel'[m]]
    BY <2>3, <2>4
  <2> QED BY <2>1, <2>5 DEF g
<1>5. FlattenSeq(Append(Heard, h)) = FlattenSeq(Heard) \o h
  BY <1>2, <1>3, FlattenAppend DEF Text
<1>6. ReadSoFar \o << >> = ReadSoFar
  BY <1>3, ConcatEmptySeq DEF Text
<1> QED
  BY <1>4, <1>5, <1>6 DEF ReadSoFar

\* The channel reads as the messages of the responder do.
LEMMA ReadsAsPosted ==
  ASSUME AnswerTyped, InOrder, NothingElse
  PROVE  ReadSoFar = FlattenSeq(Posted)
<1>1. /\ Heard \in Seq(Text) /\ Len(Heard) = Len(channel)
      /\ \A m \in 1..Len(channel) : Heard[m] = IF channel[m] = Notice THEN << >> ELSE channel[m]
  BY HeardFacts
<1>2. /\ Posted \in Seq(Text) /\ Len(Posted) = Len(messages)
      /\ \A j \in 1..Len(messages) : messages[j] \in 1..Len(channel) /\ Posted[j] = channel[messages[j]]
  BY PostedFacts
<1>3. messages \in Seq(1..Len(Heard))
  BY <1>1 DEF AnswerTyped, AnswerTypeOK
<1>4. \A i, j \in 1..Len(messages) : i < j => messages[i] < messages[j]
  BY DEF InOrder
<1>5. \A j \in 1..Len(messages) : Posted[j] = Heard[messages[j]]
  BY <1>1, <1>2 DEF NothingElse
<1>6. \A m \in 1..Len(Heard) : (\A j \in 1..Len(messages) : messages[j] # m) => Heard[m] = << >>
  BY <1>1 DEF NothingElse
<1>7. FlattenSeq(Heard) = FlattenSeq(Posted)
  <2> HIDE DEF Heard, Posted
  <2> QED BY <1>1, <1>2, <1>3, <1>4, <1>5, <1>6, SkipReads
<1> QED
  BY <1>7 DEF ReadSoFar

\* A chunk is posted anew, or edited.
LEMMA PostNew ==
  ASSUME AnswerTyped, InOrder, NEW b \in Text,
         channel' = Append(channel, b), messages' = Append(messages, Len(channel) + 1)
  PROVE  /\ InOrder'
         /\ NothingElse /\ b # Notice => NothingElse'
         /\ Len(messages') = Len(messages) + 1
         /\ \A c \in 1..Len(messages) : Posted'[c] = Posted[c]
         /\ Posted'[Len(messages) + 1] = b
<1> DEFINE n == Len(channel)
           l == Len(messages)
<1>1. /\ n \in Nat /\ l \in Nat /\ \A j \in 1..l : messages[j] \in 1..n /\ Posted[j] = channel[messages[j]]
  BY PostedFacts
<1>2. /\ Len(channel') = n + 1 /\ channel'[n+1] = b
      /\ \A m \in 1..n : channel'[m] = channel[m]
  BY AppendProperties DEF AnswerTyped
<1>3. /\ Len(messages') = l + 1 /\ messages'[l+1] = n + 1
      /\ \A j \in 1..l : messages'[j] = messages[j]
  <2>1. messages \in Seq(Nat) /\ n + 1 \in Nat
    BY <1>1, SeqMonotonic DEF AnswerTyped, AnswerTypeOK
  <2> QED BY <2>1, AppendProperties
<1>4. \A j \in 1..(l + 1) : Posted'[j] = channel'[messages'[j]]
  BY <1>3 DEF Posted
<1> HIDE DEF n, l
<1>5. \A j \in 1..(l + 1) : j \in 1..l \/ j = l + 1
  BY <1>1
<1>6. InOrder'
  <2> SUFFICES ASSUME NEW i \in 1..(l + 1), NEW j \in 1..(l + 1), i < j
               PROVE  messages'[i] < messages'[j]
    BY <1>3 DEF InOrder
  <2>1. i \in 1..l
    BY <1>1
  <2>2. CASE j \in 1..l
    BY <1>3, <2>1, <2>2 DEF InOrder, l
  <2>3. CASE j = l + 1
    BY <1>1, <1>3, <2>1, <2>3
  <2> QED BY <1>5, <2>2, <2>3
<1>7. ASSUME NothingElse, b # Notice
      PROVE  NothingElse'
  <2> SUFFICES ASSUME NEW m \in 1..(n + 1)
               PROVE  channel'[m] # Notice <=> \E j \in 1..(l + 1) : messages'[j] = m
    BY <1>2, <1>3 DEF NothingElse
  <2>1. CASE m = n + 1
    <3>1. l + 1 \in 1..(l + 1)
      BY <1>1
    <3> QED BY <1>2, <1>3, <1>7, <2>1, <3>1
  <2>2. CASE m # n + 1
    <3>1. m \in 1..n
      BY <1>1, <2>2
    <3>2. channel[m] # Notice <=> \E j \in 1..l : messages[j] = m
      BY <1>7, <3>1 DEF NothingElse, n, l
    <3>3. \A j \in 1..l : j \in 1..(l + 1)
      BY <1>1
    <3> QED BY <1>2, <1>3, <1>5, <2>2, <3>1, <3>2, <3>3
  <2> QED BY <2>1, <2>2
<1>8. \A c \in 1..l : Posted'[c] = Posted[c]
  <2>1. \A c \in 1..l : c \in 1..(l + 1)
    BY <1>1
  <2> QED BY <1>1, <1>2, <1>3, <1>4, <2>1
<1>9. Posted'[l+1] = b
  <2>1. l + 1 \in 1..(l + 1)
    BY <1>1
  <2> QED BY <1>2, <1>3, <1>4, <2>1
<1> QED
  BY <1>3, <1>6, <1>7, <1>8, <1>9 DEF l

\* An edit changes the text of one message and nothing in their order.
LEMMA PostEdit ==
  ASSUME AnswerTyped, InOrder, PostedApart, NEW b \in Text, NEW i \in 1..Len(messages),
         channel' = [channel EXCEPT ![messages[i]] = b], messages' = messages
  PROVE  /\ InOrder'
         /\ NothingElse /\ b # Notice => NothingElse'
         /\ \A c \in 1..Len(messages) : Posted'[c] = IF c = i THEN b ELSE Posted[c]
<1> DEFINE n == Len(channel)
           l == Len(messages)
<1>1. /\ n \in Nat /\ l \in Nat /\ \A j \in 1..l : messages[j] \in 1..n /\ Posted[j] = channel[messages[j]]
  BY PostedFacts
<1>2. /\ Len(channel') = n
      /\ \A m \in 1..n : channel'[m] = IF m = messages[i] THEN b ELSE channel[m]
  BY <1>1, ExceptSeq DEF AnswerTyped
<1>3. InOrder'
  BY DEF InOrder
<1>4. NothingElse /\ b # Notice => NothingElse'
  BY <1>2 DEF NothingElse
<1>5. \A c \in 1..l : Posted'[c] = channel'[messages[c]]
  BY DEF Posted
<1>6. \A c \in 1..l : messages[c] = messages[i] => c = i
  BY DEF PostedApart
<1> QED
  BY <1>1, <1>2, <1>3, <1>4, <1>5, <1>6

\* The invariant under ReadInOrder holds at first.
LEMMA ReadInit ==
  ASSUME AnswerInit
  PROVE  ReadInv
<1>1. OutInv /\ AnswerTyped
  BY OutInit DEF OutInv, TellingInv
<1>2. Len(<< >>) = 0 /\ << >> \in Text /\ << >> \in Seq(Said)
  BY EmptySeq DEF Text
<1>3. SaidOnly
  BY <1>2 DEF AnswerInit, SaidOnly
<1>4. ClaudeReads
  <2>1. InOrder /\ NothingElse
    BY <1>2 DEF AnswerInit, InOrder, NothingElse
  <2>2. Posted \in Seq(Text) /\ Len(Posted) = 0
    BY <1>1, <1>2, PostedFacts DEF AnswerInit
  <2>3. Chunks(streamed) \in Seq(Text)
    BY <1>1, ChunksAre DEF AnswerTyped, Text
  <2>4. Len(Posted) <= Len(Chunks(streamed)) /\ 1..Len(Posted) = {}
    BY <2>2, <2>3, LenProperties
  <2>5. Under(Posted, Chunks(streamed))
    BY <2>4 DEF Under
  <2>6. stage = "idle" /\ outcome = "none" /\ streamed = parts
    BY DEF AnswerInit
  <2> QED BY <2>1, <2>5, <2>6 DEF ClaudeReads
<1>5. OtherReads
  <2>1. ReadSoFar = << >>
    <3>1. Heard \in Seq(Text) /\ Len(Heard) = 0
      BY <1>1, <1>2, HeardFacts DEF AnswerInit
    <3>2. Heard = << >>
      BY <3>1, EmptySeq
    <3> QED BY <3>2, FlattenEmpty DEF ReadSoFar
  <2>2. << >> \o parts = << >>
    BY <1>2, ConcatEmptySeq DEF AnswerInit, Text
  <2>3. Before(<< >>)
    BY <2>1, <2>2 DEF Before, AnswerInit
  <2>4. \E o \in Text : Before(o)
    BY <1>2, <2>3
  <2> QED BY <2>4 DEF OtherReads, AnswerInit
<1> QED
  BY <1>1, <1>3, <1>4, <1>5 DEF ReadInv, ReadsWell, ClosingReads, AnswerShown, AnswerInit

\* A step that brings and shows no part of the answer.
LEMMA QuietReads ==
  ASSUME ReadInv, stage \notin {"showing"} \cup Ended, stage' \in {"streaming", "resetting", "noticing"},
         stage' = "noticing" => batch' = <<Notice>>,
         UNCHANGED <<provider, parts, streamed, outcome, messages, sent, channel, retried, refused>>
  PROVE  SaidOnly' /\ (refused' = 0 => ReadsWell')
<1>1. outcome = "none" /\ AnswerTyped
  BY DEF ReadInv, OutInv, TellingInv, OutcomeKnown, AnswerTyped, AnswerTypeOK
<1>2. SaidOnly'
  BY DEF ReadInv, SaidOnly
<1>3. ASSUME refused = 0
      PROVE  ReadsWell'
  <2>1. ReadsWell
    BY <1>3 DEF ReadInv
  <2>2. Posted' = Posted /\ ReadSoFar' = ReadSoFar
    BY DEF Posted, ReadSoFar, Heard
  <2>3. (InOrder' <=> InOrder) /\ (NothingElse' <=> NothingElse)
    BY DEF InOrder, NothingElse
  <2>4. ASSUME provider = "claude" PROVE ClaudeReads'
    <3>1. ClaudeReads
      BY <2>1, <2>4 DEF ReadsWell
    <3>2. stage \notin {"closing", "syncing", "done", "raised"}
      BY DEF Ended
    <3> HIDE DEF Posted
    <3> QED BY <1>1, <2>2, <2>3, <3>1, <3>2 DEF ClaudeReads
  <2>5. ASSUME provider # "claude" PROVE OtherReads'
    <3>1. OtherReads
      BY <2>1, <2>5 DEF ReadsWell
    <3>2. PICK o \in Text : Before(o)
      BY <1>1, <3>1 DEF OtherReads
    <3>3. (~retried' => o = << >>) /\ ReadSoFar' = o \o parts' /\ stage' # "showing"
      BY <2>2, <3>2 DEF Before
    <3>4. sent' /\ ~retried' => parts' # << >>
      BY <1>1, <3>1 DEF OtherReads
    <3>5. \E p \in Text : /\ ~retried' => p = << >>
                          /\ stage' # "showing" => ReadSoFar' = p \o parts'
                          /\ stage' = "showing" => \E b \in Text :
                               /\ ReadSoFar' = b \o Upto(batch', place' - 1)
                               /\ b \o FlattenSeq(batch') = p \o parts'
      BY <3>3
    <3> QED BY <3>3, <3>4, <3>5 DEF OtherReads, Before
  <2> QED BY <1>1, <2>4, <2>5 DEF ReadsWell, ClosingReads, AnswerShown
<1> QED BY <1>2, <1>3

\* New tokens, shown or kept for later.
LEMMA StreamTextReads ==
  ASSUME ReadInv, stage = "streaming", run \in children, NEW n \in PieceSizes, StreamText(n),
         UNCHANGED <<provider, run, outcome, messages, sent, channel, retried, refused>>
  PROVE  SaidOnly' /\ (refused' = 0 => ReadsWell')
<1>1. /\ outcome = "none" /\ outcome' = "none" /\ AnswerTyped
      /\ parts \in Seq(Said) /\ streamed \in Seq(Said)
  BY DEF ReadInv, OutInv, TellingInv, OutcomeKnown, AnswerTyped, AnswerTypeOK, Ended, SaidOnly
<1>2. /\ n \in Nat \ {0} /\ Tokens(n) \in Seq(Said) /\ Len(Tokens(n)) = n
  <2>1. n \in Nat \ {0} /\ run \in Nat /\ children \subseteq 1..run /\ made \in Nat
    BY <1>1, AnswerAssumption DEF AnswerTyped, AnswerTypeOK
  <2>2. run \in Nat \ {0}
    BY <2>1
  <2>3. Tokens(n) \in [1..n -> Said]
    BY <2>1, <2>2 DEF Tokens, Said
  <2> QED BY <2>1, <2>3
<1> DEFINE t == Tokens(n)
<1>3. /\ parts' = parts \o t
      /\ IF provider # "claude"
           THEN batch' = Chunks(t) /\ place' = 1 /\ stage' = "showing" /\ UNCHANGED streamed
           ELSE /\ streamed' = streamed \o t
                /\ \/ batch' = Chunks(streamed') /\ place' = 1 /\ stage' = "showing"
                   \/ UNCHANGED <<stage, batch, place>>
  BY DEF StreamText, Show
<1>4. /\ parts \in Text /\ streamed \in Text /\ t \in Text /\ parts' \in Seq(Said)
      /\ Len(parts') = Len(parts) + n /\ Len(parts) \in Nat
  BY <1>1, <1>2, <1>3, SaidFacts, ConcatProperties, LenProperties
<1> HIDE DEF t
<1>5. SaidOnly'
  <2>1. streamed \o t \in Seq(Said)
    BY <1>1, <1>2, ConcatProperties DEF t
  <2>2. streamed' \in Seq(Said)
    BY <1>1, <1>3, <2>1
  <2>3. Chunks(t) \in Seq(Seq(Said)) /\ Chunks(streamed') \in Seq(Seq(Said))
    BY <1>2, <2>2, SaidFacts DEF t
  <2> QED BY <1>3, <1>4, <2>2, <2>3 DEF SaidOnly
<1>6. ASSUME refused = 0
      PROVE  ReadsWell'
  <2>1. ReadsWell
    BY <1>6 DEF ReadInv
  <2>2. Posted' = Posted /\ ReadSoFar' = ReadSoFar
    BY DEF Posted, ReadSoFar, Heard
  <2>3. (InOrder' <=> InOrder) /\ (NothingElse' <=> NothingElse)
    BY DEF InOrder, NothingElse
  <2>4. ASSUME provider = "claude" PROVE ClaudeReads'
    <3>1. InOrder /\ NothingElse /\ Under(Posted, Chunks(streamed)) /\ (~retried => streamed = parts)
      BY <1>1, <2>1, <2>4 DEF ReadsWell, ClaudeReads
    <3>2. streamed' = streamed \o t
      BY <1>3, <2>4
    <3>3. Under(Posted, Chunks(streamed \o t))
      BY <1>1, <1>4, <3>1, PostedFacts, ChunksGrow
    <3>4. ~retried => streamed' = parts'
      BY <1>3, <3>1, <3>2
    <3>5. stage' = "showing" => batch' = Chunks(streamed') /\ 1..(place' - 1) = {}
      BY <1>3, <2>4
    <3> HIDE DEF Posted
    <3>6. Under(Posted', Chunks(streamed'))
      BY <2>2, <3>2, <3>3
    <3> QED BY <1>1, <2>3, <3>1, <3>4, <3>5, <3>6 DEF ClaudeReads
  <2>5. ASSUME provider # "claude" PROVE OtherReads'
    <3>1. PICK o \in Text : Before(o)
      BY <1>1, <2>1, <2>5 DEF ReadsWell, OtherReads
    <3>2. (~retried => o = << >>) /\ ReadSoFar = o \o parts
      BY <3>1 DEF Before
    <3>3. batch' = Chunks(t) /\ place' = 1 /\ stage' = "showing"
      BY <1>3, <2>5
    <3>4. parts' # << >>
      BY <1>2, <1>4
    <3>5. ReadSoFar \in Text /\ ReadSoFar = ReadSoFar \o Upto(batch', 0)
      <4>1. ReadSoFar \in Text
        BY <1>1, HeardFacts
      <4>2. ReadSoFar \o << >> = ReadSoFar
        BY <4>1, ConcatEmptySeq DEF Text
      <4> QED BY <4>1, <4>2 DEF Upto
    <3>6. FlattenSeq(Chunks(t)) = t
      BY <1>4, ChunksJoin DEF Text
    <3>7. (o \o parts) \o t = o \o (parts \o t)
      BY <1>4, TextAssociates
    <3>8. ReadSoFar \o FlattenSeq(batch') = o \o parts'
      BY <1>3, <3>2, <3>3, <3>6, <3>7
    <3>9. place' - 1 = 0
      BY <3>3
    <3>10. \E b \in Text : /\ ReadSoFar' = b \o Upto(batch', place' - 1)
                           /\ b \o FlattenSeq(batch') = o \o parts'
      BY <2>2, <3>5, <3>8, <3>9
    <3>11. \E p \in Text : /\ ~retried' => p = << >>
                           /\ stage' # "showing" => ReadSoFar' = p \o parts'
                           /\ stage' = "showing" => \E b \in Text :
                                /\ ReadSoFar' = b \o Upto(batch', place' - 1)
                                /\ b \o FlattenSeq(batch') = p \o parts'
      BY <3>2, <3>3, <3>10
    <3> QED BY <3>4, <3>11 DEF OtherReads, Before
  <2> QED BY <1>1, <2>4, <2>5 DEF ReadsWell, ClosingReads, AnswerShown
<1> QED BY <1>5, <1>6

\* The end of the provider's turn.
LEMMA FinishReads ==
  ASSUME ReadInv, NEW o \in {"answer", "error"}, Finish(o), stage = "streaming" \/ o = "error",
         UNCHANGED <<provider, parts, messages, sent, channel, retried>>,
         o = "answer" => UNCHANGED refused, refused' = 0 => refused = 0
  PROVE  SaidOnly' /\ (refused' = 0 => ReadsWell')
<1>1. outcome' = o /\ stage' \in {"closing", "syncing", "done"} /\ AnswerTyped
  BY FinishTypes DEF ReadInv, OutInv, TellingInv
<1>2. Posted' = Posted /\ ReadSoFar' = ReadSoFar
  BY DEF Posted, ReadSoFar, Heard
<1>3. (InOrder' <=> InOrder) /\ (NothingElse' <=> NothingElse)
  BY DEF InOrder, NothingElse
<1>4. CASE o = "error"
  <2>1. SaidOnly'
    BY <1>1, <1>4 DEF SaidOnly
  <2>2. ASSUME refused' = 0 PROVE ReadsWell'
    <3>1. provider = "claude" => InOrder
      BY <2>2 DEF ReadInv, ReadsWell, ClaudeReads
    <3>2. provider = "claude" => ClaudeReads'
      BY <1>1, <1>3, <1>4, <3>1 DEF ClaudeReads
    <3>3. OtherReads' /\ ClosingReads' /\ AnswerShown'
      BY <1>1, <1>4 DEF OtherReads, ClosingReads, AnswerShown
    <3> QED BY <3>2, <3>3 DEF ReadsWell
  <2> QED BY <2>1, <2>2
<1>5. CASE o = "answer"
  <2>1. /\ parts \in Text /\ streamed \in Text /\ outcome = "none" /\ stage = "streaming"
        /\ parts \in Seq(Said) /\ streamed \in Seq(Said)
    BY <1>1, <1>5 DEF ReadInv, OutInv, TellingInv, OutcomeKnown, Ended, AnswerTyped, SaidOnly
  <2>2. /\ FlattenSeq(Chunks(parts)) = parts /\ (Chunks(parts) = << >> <=> parts = << >>)
        /\ Chunks(parts) \in Seq(Text)
    BY <2>1, ChunksJoin, ChunksAre DEF Text
  <2>3. SaidOnly'
    <3>1. streamed' = streamed \/ streamed' = parts
      BY <1>5, <2>2 DEF Finish
    <3> QED BY <1>1, <2>1, <3>1 DEF SaidOnly
  <2>4. ASSUME refused' = 0 PROVE ReadsWell'
    <3>1. ReadsWell
      BY <2>4 DEF ReadInv
    <3>2. CASE provider = "claude" /\ streamed # << >>
      <4>1. batch' = Chunks(parts) /\ place' = 1 /\ stage' = "syncing"
        BY <1>5, <2>2, <3>2 DEF Finish, Show
      <4>2. InOrder /\ NothingElse /\ Under(Posted, Chunks(streamed)) /\ (~retried => streamed = parts)
        BY <2>1, <3>1, <3>2 DEF ReadsWell, ClaudeReads
      <4>3. ~retried => Len(messages') <= Len(batch') /\ parts' # << >>
        BY <1>1, <3>2, <4>1, <4>2, PostedFacts DEF Under
      <4>4. ClaudeReads'
        BY <1>1, <1>3, <1>5, <4>1, <4>2, <4>3 DEF ClaudeReads
      <4> QED BY <3>2, <4>1, <4>4 DEF ReadsWell, ClosingReads, AnswerShown
    <3>3. CASE provider = "claude" /\ streamed = << >>
      <4>1. parts = << >>
        <5>1. Len(parts) <= Len(streamed) /\ Len(streamed) = 0
          BY <2>1, <3>3 DEF ReadInv, OutInv, PartsOut
        <5> QED BY <2>1, <5>1, EmptySeq, LenProperties DEF Text
      <4>2. batch' = <<Nothing>> /\ place' = 1 /\ stage' = "closing"
        BY <1>5, <2>2, <3>3, <4>1 DEF Finish, Show
      <4>3. InOrder /\ NothingElse /\ Under(Posted, Chunks(parts))
        BY <2>1, <3>1, <3>3, <4>1 DEF ReadsWell, ClaudeReads
      <4>4. ReadSoFar = << >>
        <5>1. Posted \in Seq(Text) /\ Len(Posted) \in Nat
          BY <1>1, PostedFacts
        <5>2. Chunks(parts) = << >> /\ Len(<< >>) = 0
          BY <2>2, <4>1
        <5>3. Len(Posted) = 0
          BY <4>3, <5>1, <5>2 DEF Under
        <5>4. Posted = << >>
          BY <5>1, <5>3, EmptySeq
        <5> QED BY <1>1, <4>3, <5>4, ReadsAsPosted, FlattenEmpty
      <4>5. ClaudeReads'
        BY <1>1, <1>3, <1>5, <4>2, <4>3 DEF ClaudeReads
      <4>6. ClosingReads'
        BY <1>2, <4>2, <4>4 DEF ClosingReads
      <4> QED BY <3>3, <4>2, <4>5, <4>6 DEF ReadsWell, AnswerShown
    <3>4. CASE provider # "claude"
      <4>1. OtherReads
        BY <3>1, <3>4 DEF ReadsWell
      <4>2. PICK p \in Text : Before(p)
        BY <2>1, <4>1 DEF OtherReads
      <4>3. (~retried => p = << >>) /\ ReadSoFar = p \o parts
        BY <2>1, <4>2 DEF Before
      <4>4. << >> \o parts = parts
        BY <2>1, ConcatEmptySeq DEF Text
      <4>5. OtherReads'
        BY <1>1, <1>5 DEF OtherReads
      <4>6. CASE sent
        <5>1. stage' = "done"
          BY <3>4, <4>6 DEF Finish
        <5>2. ~retried => parts # << >> /\ ReadSoFar = parts
          BY <2>1, <4>1, <4>3, <4>4, <4>6 DEF OtherReads
        <5>3. IsSuffix(parts, ReadSoFar)
          BY <2>1, <4>3, EndIsSuffix
        <5>4. AnswerShown'
          BY <1>2, <3>4, <5>2, <5>3 DEF AnswerShown
        <5> QED BY <3>4, <4>5, <5>1, <5>4 DEF ReadsWell, ClosingReads
      <4>7. CASE ~sent
        <5>1. parts = << >>
          BY <2>1, <3>4, <4>7 DEF ReadInv, OutInv, PartsOut
        <5>2. batch' = <<Nothing>> /\ place' = 1 /\ stage' = "closing"
          BY <1>5, <2>2, <3>4, <4>7, <5>1 DEF Finish, Show
        <5>3. ~retried => ReadSoFar = << >>
          BY <4>3, <4>4, <5>1
        <5>4. ClosingReads'
          BY <1>2, <5>2, <5>3 DEF ClosingReads
        <5> QED BY <3>4, <4>5, <5>2, <5>4 DEF ReadsWell, AnswerShown
      <4> QED BY <4>6, <4>7
    <3> QED BY <3>2, <3>3, <3>4
  <2> QED BY <2>3, <2>4
<1> QED BY <1>4, <1>5

\* The second attempt begins with no part of the answer.
LEMMA ResetReads ==
  ASSUME ReadInv, Reset
  PROVE  SaidOnly' /\ (refused' = 0 => ReadsWell')
<1>1. /\ outcome = "none" /\ AnswerTyped /\ parts \in Text /\ stage = "resetting"
      /\ retried' = TRUE /\ parts' = << >> /\ stage' = "streaming"
      /\ UNCHANGED <<provider, outcome, streamed, messages, sent, channel, refused>>
  BY DEF ReadInv, OutInv, TellingInv, OutcomeKnown, AnswerTyped, AnswerTypeOK, Ended, Reset, Launch,
         responder
<1>2. SaidOnly'
  BY <1>1, EmptySeq DEF ReadInv, SaidOnly
<1>3. ASSUME refused = 0
      PROVE  ReadsWell'
  <2>1. ReadsWell
    BY <1>3 DEF ReadInv
  <2>2. Posted' = Posted /\ ReadSoFar' = ReadSoFar
    BY <1>1 DEF Posted, ReadSoFar, Heard
  <2>3. (InOrder' <=> InOrder) /\ (NothingElse' <=> NothingElse)
    BY <1>1 DEF InOrder, NothingElse
  <2>4. ASSUME provider = "claude" PROVE ClaudeReads'
    <3>1. ClaudeReads
      BY <2>1, <2>4 DEF ReadsWell
    <3> HIDE DEF Posted
    <3> QED BY <1>1, <2>2, <2>3, <3>1 DEF ClaudeReads
  <2>5. ASSUME provider # "claude" PROVE OtherReads'
    <3>1. ReadSoFar \in Text
      BY <1>1, HeardFacts
    <3>2. ReadSoFar \o << >> = ReadSoFar
      BY <3>1, ConcatEmptySeq DEF Text
    <3>3. ReadSoFar' = ReadSoFar \o parts'
      BY <1>1, <2>2, <3>2
    <3>4. \E p \in Text : /\ ~retried' => p = << >>
                          /\ stage' # "showing" => ReadSoFar' = p \o parts'
                          /\ stage' = "showing" => \E b \in Text :
                               /\ ReadSoFar' = b \o Upto(batch', place' - 1)
                               /\ b \o FlattenSeq(batch') = p \o parts'
      BY <1>1, <3>1, <3>3
    <3> QED BY <1>1, <3>4 DEF OtherReads, Before
  <2> QED BY <1>1, <2>4, <2>5 DEF ReadsWell, ClosingReads, AnswerShown
<1> QED BY <1>1, <1>2, <1>3

\* The provider's steps keep it.
LEMMA ReadProvide ==
  ASSUME ReadInv, Provide
  PROVE  SaidOnly' /\ (refused' = 0 => ReadsWell')
<1> USE DEF responder, wrapper
<1>1. CASE Begin
  BY <1>1, QuietReads DEF Begin, Launch, Ended
<1>2. CASE BeginFails
  BY <1>2, FinishReads DEF BeginFails
<1>3. CASE \E n \in PieceSizes : Piece(n)
  <2>1. PICK n \in PieceSizes : Piece(n)
    BY <1>3
  <2> QED BY <2>1, StreamTextReads DEF Piece
<1>4. CASE Exits
  <2>1. CASE UNCHANGED <<stage, made, parts, streamed, batch, place>>
    BY <1>4, <2>1, QuietReads DEF Exits, Ended
  <2>2. CASE \E n \in PieceSizes : made = 0 /\ n <= MaxTokens /\ StreamText(n)
    <3>1. PICK n \in PieceSizes : StreamText(n)
      BY <2>2
    <3> QED BY <1>4, <3>1, StreamTextReads DEF Exits
  <2> QED BY <1>4, <2>1, <2>2 DEF Exits
<1>5. CASE StreamRead
  <2>1. PICK o \in {"answer", "error"} : Finish(o)
    BY <1>5 DEF StreamRead
  <2> QED BY <1>5, <2>1, FinishReads DEF StreamRead
<1>6. CASE Warns
  BY <1>6, QuietReads DEF Warns, Show, Ended
<1>7. CASE SecondAttempt
  BY <1>7, QuietReads DEF SecondAttempt, Ended
<1>8. CASE Lost
  <2>1. CASE retried
    BY <1>8, <2>1, FinishReads DEF Lost
  <2>2. CASE ~retried
    BY <1>8, <2>2, QuietReads DEF Lost, Ended
  <2> QED BY <2>1, <2>2
<1>9. CASE Fails
  BY <1>9, FinishReads DEF Fails
<1>10. CASE Reset
  BY <1>10, ResetReads
<1>11. CASE ResetFails
  BY <1>11, FinishReads DEF ResetFails
<1> QED
  BY <1>1, <1>2, <1>3, <1>4, <1>5, <1>6, <1>7, <1>8, <1>9, <1>10, <1>11 DEF Provide

\* Which chunks of a text that is edited are shown already.
LEMMA ShownBefore ==
  ASSUME ReadInv, ReadsWell, provider = "claude", NEW i \in 1..Len(batch), Up(i),
         stage \in {"showing", "syncing"}, outcome \in {"none", "answer"}
  PROVE  \A c \in 1..(i - 1) : c <= Len(messages) /\ Posted[c] = batch[c]
<1>1. /\ AnswerTyped /\ ClaudeReads /\ AnswerOut
      /\ place \in Nat \ {0} /\ Len(messages) \in Nat
      /\ \A j \in 1..Len(messages) : Posted[j] = channel[messages[j]]
  BY PostedFacts DEF ReadInv, OutInv, TellingInv, AnswerTyped, AnswerTypeOK, ReadsWell
<1>2. outcome = "answer" <=> stage = "syncing"
  BY DEF ReadInv, OutInv, TellingInv, OutcomeKnown, Ended
<1>3. \A c \in 1..(place - 1) : c <= Len(messages) /\ Posted[c] = batch[c]
  <2>1. CASE stage = "showing"
    BY <1>1, <2>1 DEF ClaudeReads
  <2>2. CASE stage = "syncing"
    <3>1. \A c \in 1..(place - 1) : c <= Len(messages) /\ channel[messages[c]] = batch[c]
      BY <1>1, <1>2, <2>2 DEF AnswerOut
    <3>2. \A c \in 1..(place - 1) : c \in 1..Len(messages)
      BY <1>1, <3>1
    <3> QED BY <1>1, <3>1, <3>2
  <2> QED BY <2>1, <2>2
<1>4. \A c \in place..(i - 1) : c <= Len(messages) /\ Posted[c] = batch[c]
  <2> SUFFICES ASSUME NEW c \in place..(i - 1)
               PROVE  c <= Len(messages) /\ Posted[c] = batch[c]
    OBVIOUS
  <2>1. c <= Len(messages) /\ channel[messages[c]] = batch[c]
    BY DEF Up, Settled
  <2>2. c \in 1..Len(messages)
    BY <1>1, <2>1
  <2> QED BY <1>1, <2>1, <2>2
<1>5. \A c \in 1..(i - 1) : c \in 1..(place - 1) \/ c \in place..(i - 1)
  BY <1>1
<1> QED BY <1>3, <1>4, <1>5

\* A message that was sent continues what was read.
LEMMA SentReads ==
  ASSUME ReadInv, refused = 0, NEW i \in 1..Len(batch), Sent(i)
  PROVE  ReadsWell'
<1>1. /\ AnswerTyped /\ ReadsWell /\ AnswerOut /\ SaidOnly
      /\ (outcome = "none" <=> stage \in {"showing", "noticing"})
      /\ outcome \in {"none", "answer", "error"}
      /\ stage \in Calling /\ Up(i) /\ place' = i + 1
      /\ channel' = Append(channel, batch[i])
      /\ messages' = (IF Editing THEN Append(messages, Len(channel) + 1) ELSE messages)
      /\ Editing => i > Len(messages)
      /\ UNCHANGED <<provider, stage, parts, outcome, streamed, retried, sent, batch, refused>>
  BY DEF ReadInv, OutInv, TellingInv, OutcomeKnown, Ended, AnswerTyped, AnswerTypeOK, Sent, Calling,
         wrapper
<1>2. /\ batch[i] \in Text /\ batch \in Seq(Text) /\ Len(batch) \in Nat
      /\ Len(messages) \in Nat /\ Len(channel) \in Nat /\ i \in Nat \ {0}
      /\ Posted \in Seq(Text) /\ Len(Posted) = Len(messages)
      /\ parts \in Text /\ ReadSoFar \in Text
  BY <1>1, ElementOfSeq, LenProperties, PostedFacts, HeardFacts DEF AnswerTyped
<1>3. ReadSoFar' = IF batch[i] = Notice THEN ReadSoFar ELSE ReadSoFar \o batch[i]
  BY <1>1, <1>2, ReadAppend
<1>4. stage = "noticing" => batch[i] = Notice
  <2>1. stage = "noticing" => Len(batch) = 1 /\ batch[1] = Notice
    BY <1>1 DEF SaidOnly
  <2>2. stage = "noticing" => i = 1
    BY <2>1, SMTT(30)
  <2> QED BY <2>1, <2>2
<1>5. stage = "showing" => batch[i] # Notice
  BY <1>1, SaidFacts, ElementOfSeq DEF SaidOnly
<1>6. outcome = "answer" /\ stage = "syncing" => batch[i] # Notice
  <2> SUFFICES ASSUME outcome = "answer", stage = "syncing" PROVE batch[i] # Notice
    OBVIOUS
  <2>1. batch = Chunks(parts) /\ parts \in Seq(Said)
    BY <1>1 DEF AnswerOut, SaidOnly
  <2>2. Chunks(parts) \in Seq(Seq(Said))
    BY <2>1, SaidFacts
  <2> QED BY <2>1, <2>2, SaidFacts, ElementOfSeq
<1>7. ClosingReads'
  <2> SUFFICES ASSUME outcome = "answer", stage = "closing"
               PROVE  batch = <<Nothing>> /\ (~retried => ReadSoFar' = IF place' = 1 THEN << >> ELSE Nothing)
    BY <1>1 DEF ClosingReads
  <2>1. batch = <<Nothing>> /\ (~retried => ReadSoFar = IF place = 1 THEN << >> ELSE Nothing)
    BY <1>1 DEF ReadsWell, ClosingReads
  <2>2. i = 1 /\ batch[i] = Nothing /\ place = 1
    <3>1. Len(batch) = 1 /\ batch[1] = Nothing
      BY <2>1
    <3>2. place \in 1..Len(batch)
      BY <1>1, PlaceOfCall
    <3> QED BY <3>1, <3>2
  <2>3. << >> \o Nothing = Nothing
    BY OwnTexts, ConcatEmptySeq DEF Text
  <2>4. ~retried => ReadSoFar' = Nothing
    <3>1. batch[i] # Notice
      BY <2>2, SaidFacts
    <3> QED BY <1>3, <2>1, <2>2, <2>3, <3>1
  <2>5. place' # 1
    BY <1>1, <2>2
  <2> QED BY <2>1, <2>4, <2>5
<1>8. AnswerShown'
  BY <1>1 DEF AnswerShown, Calling
<1>9. ASSUME provider # "claude" PROVE OtherReads'
  <2> SUFFICES ASSUME outcome = "none" PROVE OtherReads'
    BY <1>1 DEF OtherReads
  <2>1. OtherReads /\ ~Editing
    BY <1>1, <1>9 DEF ReadsWell, Editing
  <2>2. PICK o \in Text : Before(o)
    BY <2>1 DEF OtherReads
  <2>3. (sent' /\ ~retried' => parts' # << >>) /\ (stage' = "showing" => parts' # << >>)
    BY <1>1, <2>1 DEF OtherReads
  <2>4. \E p \in Text : /\ ~retried' => p = << >>
                        /\ stage' # "showing" => ReadSoFar' = p \o parts'
                        /\ stage' = "showing" => \E b \in Text :
                             /\ ReadSoFar' = b \o Upto(batch', place' - 1)
                             /\ b \o FlattenSeq(batch') = p \o parts'
    <3>1. CASE stage = "noticing"
      <4>1. ReadSoFar' = o \o parts' /\ (~retried' => o = << >>)
        BY <1>1, <1>3, <1>4, <2>2, <3>1 DEF Before
      <4> QED BY <1>1, <3>1, <4>1
    <3>2. CASE stage = "showing"
      <4>1. PICK b \in Text : ReadSoFar = b \o Upto(batch, place - 1) /\ b \o FlattenSeq(batch) = o \o parts
        BY <2>2, <3>2 DEF Before
      <4>2. i = place
        <5>1. place \in Nat
          BY <1>1 DEF AnswerTyped, AnswerTypeOK
        <5> QED BY <1>1, <1>2, <2>1, <5>1, SMTT(30) DEF Up
      <4> DEFINE k == place - 1
      <4>3. k \in Nat /\ k + 1 = i /\ k + 1 <= Len(batch) /\ k \in 0..Len(batch) /\ place' - 1 = k + 1
        BY <1>1, <1>2, <4>2
      <4> HIDE DEF k
      <4>4. Upto(batch, k + 1) = Upto(batch, k) \o batch[i] /\ Upto(batch, k) \in Text
        BY <1>2, <4>3, UptoFacts
      <4>5. (b \o Upto(batch, k)) \o batch[i] = b \o (Upto(batch, k) \o batch[i])
        <5>1. batch[i] \in Text
          BY <1>2
        <5> QED BY <4>1, <4>4, <5>1, TextAssociates, Zenon
      <4>6. ReadSoFar' = b \o Upto(batch', place' - 1)
        BY <1>1, <1>3, <1>5, <3>2, <4>1, <4>3, <4>4, <4>5 DEF k
      <4>7. b \o FlattenSeq(batch') = o \o parts' /\ (~retried' => o = << >>)
        BY <1>1, <2>2, <4>1 DEF Before
      <4> QED BY <1>1, <3>2, <4>6, <4>7
    <3> QED BY <1>1, <3>1, <3>2
  <2> QED BY <2>3, <2>4 DEF OtherReads, Before
<1>10. ASSUME provider = "claude" PROVE ClaudeReads'
  <2>1. ClaudeReads /\ InOrder
    BY <1>1, <1>10 DEF ReadsWell, ClaudeReads
  <2>2. CASE ~Editing
    <3>1. messages' = messages /\ stage \in {"noticing", "closing"}
      BY <1>1, <1>10, <2>2 DEF Editing, Calling
    <3>2. InOrder'
      BY <2>1, <3>1 DEF InOrder
    <3>3. CASE stage = "closing"
      BY <1>1, <3>2, <3>3 DEF ClaudeReads
    <3>4. CASE stage = "noticing"
      <4>1. NothingElse /\ Under(Posted, Chunks(streamed)) /\ (~retried => streamed = parts)
        BY <1>1, <2>1, <3>4 DEF ClaudeReads
      <4>2. /\ Len(channel') = Len(channel) + 1 /\ channel'[Len(channel) + 1] = Notice
            /\ \A m \in 1..Len(channel) : channel'[m] = channel[m]
        BY <1>1, <1>2, <1>4, <3>4, AppendProperties DEF AnswerTyped
      <4>3. \A j \in 1..Len(messages) : messages[j] \in 1..Len(channel)
        BY <1>1, PostedFacts
      <4>4. Posted' = Posted
        BY <3>1, <4>2, <4>3 DEF Posted
      <4>5. NothingElse'
        <5> SUFFICES ASSUME NEW m \in 1..(Len(channel) + 1)
                     PROVE  channel'[m] # Notice <=> \E j \in 1..Len(messages) : messages[j] = m
          BY <3>1, <4>2 DEF NothingElse
        <5>1. CASE m = Len(channel) + 1
          BY <1>2, <4>2, <4>3, <5>1
        <5>2. CASE m # Len(channel) + 1
          <6>1. m \in 1..Len(channel)
            BY <1>2, <5>2
          <6> QED BY <4>1, <4>2, <6>1 DEF NothingElse
        <5> QED BY <5>1, <5>2
      <4> HIDE DEF Posted
      <4> QED BY <1>1, <3>2, <3>4, <4>1, <4>4, <4>5 DEF ClaudeReads
    <3> QED BY <3>1, <3>3, <3>4
  <2>3. CASE Editing
    <3>1. /\ InOrder'
          /\ NothingElse /\ batch[i] # Notice => NothingElse'
          /\ Len(messages') = Len(messages) + 1
          /\ \A c \in 1..Len(messages) : Posted'[c] = Posted[c]
          /\ Posted'[Len(messages) + 1] = batch[i]
      BY <1>1, <1>2, <2>1, <2>3, PostNew
    <3>2. CASE outcome = "error"
      <4>1. stage \notin {"showing", "noticing"}
        BY <1>1, <3>2
      <4> QED BY <1>1, <3>1, <3>2, <4>1 DEF ClaudeReads
    <3>3. CASE outcome # "error"
      <4>1. stage \in {"showing", "syncing"} /\ outcome \in {"none", "answer"}
        BY <1>1, <2>3, <3>3 DEF Editing
      <4>2. \A c \in 1..(i - 1) : c <= Len(messages) /\ Posted[c] = batch[c]
        BY <1>1, <1>10, <4>1, ShownBefore
      <4>3. Len(messages) = i - 1 /\ Len(messages') = i
        <5>1. CASE i = 1
          BY <1>1, <1>2, <2>3, <3>1, <5>1
        <5>2. CASE i # 1
          <6>1. i - 1 \in 1..(i - 1)
            BY <1>2, <5>2
          <6> QED BY <1>1, <1>2, <2>3, <3>1, <4>2, <6>1
        <5> QED BY <5>1, <5>2
      <4>4. \A c \in 1..i : Posted'[c] = batch[c]
        <5> SUFFICES ASSUME NEW c \in 1..i PROVE Posted'[c] = batch[c]
          OBVIOUS
        <5>1. CASE c = i
          BY <1>2, <3>1, <4>3, <5>1
        <5>2. CASE c # i
          <6>1. c \in 1..(i - 1)
            BY <1>2, <5>2
          <6> QED BY <3>1, <4>2, <4>3, <6>1
        <5> QED BY <5>1, <5>2
      <4>5. Len(Posted') = i
        <5>1. Posted' = [j \in 1..i |-> channel'[messages'[j]]]
          BY <4>3 DEF Posted
        <5> QED BY <1>2, <5>1
      <4>6. NothingElse'
        <5>1. NothingElse
          BY <2>1, <3>3, <4>1 DEF ClaudeReads
        <5>2. batch[i] # Notice
          BY <1>1, <1>5, <1>6, <4>1
        <5> QED BY <3>1, <5>1, <5>2
      <4> HIDE DEF Posted
      <4>7. CASE stage = "showing"
        <5>1. batch = Chunks(streamed) /\ (~retried => streamed = parts) /\ outcome = "none"
          BY <1>1, <2>1, <4>7 DEF ClaudeReads
        <5>2. Under(Posted', batch)
          <6>1. \A c \in 1..i : c \in 1..Len(batch) /\ batch[c] \in Text
            BY <1>2, ElementOfSeq
          <6>2. \A c \in 1..i : Begins(Posted'[c], batch[c])
            BY <4>4, <6>1, BeginsFacts
          <6> QED BY <1>2, <4>4, <4>5, <6>2 DEF Under
        <5>3. \A c \in 1..(place' - 1) : c <= Len(messages') /\ Posted'[c] = batch'[c]
          BY <1>1, <1>2, <4>3, <4>4
        <5> QED BY <1>1, <3>1, <4>6, <4>7, <5>1, <5>2, <5>3 DEF ClaudeReads
      <4>8. CASE stage = "syncing"
        <5>1. outcome = "answer"
          BY <1>1, <4>1, <4>8
        <5>2. ~retried => parts # << >>
          BY <2>1, <4>8, <5>1 DEF ClaudeReads
        <5>3. Len(messages') <= Len(batch')
          BY <1>1, <1>2, <4>3
        <5> QED BY <1>1, <3>1, <4>6, <4>8, <5>1, <5>2, <5>3 DEF ClaudeReads
      <4> QED BY <4>1, <4>7, <4>8
    <3> QED BY <3>2, <3>3
  <2> QED BY <2>2, <2>3
<1> QED
  BY <1>1, <1>7, <1>8, <1>9, <1>10 DEF ReadsWell

\* A message that was edited reads further.
LEMMA EditedReads ==
  ASSUME ReadInv, refused = 0, NEW i \in 1..Len(batch), Edited(i)
  PROVE  ReadsWell'
<1>1. /\ AnswerTyped /\ ReadsWell /\ AnswerOut /\ SaidOnly /\ PostedApart
      /\ (outcome = "none" <=> stage \in {"showing", "noticing"})
      /\ outcome \in {"none", "answer", "error"}
      /\ stage \in {"showing", "syncing"} /\ (stage = "showing" => provider = "claude")
      /\ Up(i) /\ place' = i + 1 /\ i <= Len(messages)
      /\ channel' = [channel EXCEPT ![messages[i]] = batch[i]]
      /\ UNCHANGED <<provider, stage, parts, outcome, streamed, messages, retried, batch, refused>>
  BY DEF ReadInv, OutInv, TellingInv, OutcomeKnown, Ended, AnswerTyped, AnswerTypeOK, Edited, Editing,
         wrapper, responder
<1>2. /\ batch[i] \in Text /\ Len(batch) \in Nat /\ i \in 1..Len(messages) /\ Len(messages) \in Nat
      /\ Posted \in Seq(Text) /\ Len(Posted) = Len(messages)
  BY <1>1, ElementOfSeq, LenProperties, PostedFacts DEF AnswerTyped
<1>3. batch[i] # Notice \/ outcome = "error"
  <2>1. CASE stage = "showing"
    BY <1>1, <2>1, SaidFacts, ElementOfSeq DEF SaidOnly
  <2>2. CASE outcome = "answer" /\ stage = "syncing"
    <3>1. batch = Chunks(parts) /\ parts \in Seq(Said)
      BY <1>1, <2>2 DEF AnswerOut, SaidOnly
    <3>2. Chunks(parts) \in Seq(Seq(Said))
      BY <3>1, SaidFacts
    <3> QED BY <3>1, <3>2, SaidFacts, ElementOfSeq
  <2> QED BY <1>1, <2>1, <2>2
<1>4. ClosingReads' /\ AnswerShown'
  BY <1>1 DEF ClosingReads, AnswerShown
<1>5. provider # "claude" => OtherReads'
  BY <1>1 DEF OtherReads
<1>6. ASSUME provider = "claude" PROVE ClaudeReads'
  <2>1. ClaudeReads /\ InOrder
    BY <1>1, <1>6 DEF ReadsWell, ClaudeReads
  <2>2. /\ InOrder'
        /\ NothingElse /\ batch[i] # Notice => NothingElse'
        /\ \A c \in 1..Len(messages) : Posted'[c] = IF c = i THEN batch[i] ELSE Posted[c]
    BY <1>1, <1>2, <2>1, PostEdit
  <2>3. CASE outcome = "error"
    BY <1>1, <2>2, <2>3 DEF ClaudeReads
  <2>4. CASE outcome # "error"
    <3>1. NothingElse'
      <4>1. NothingElse
        BY <1>1, <2>1, <2>4 DEF ClaudeReads
      <4> QED BY <1>3, <2>2, <2>4, <4>1
    <3>2. CASE stage = "syncing"
      BY <1>1, <2>1, <2>2, <3>1, <3>2 DEF ClaudeReads
    <3>3. CASE stage = "showing"
      <4>1. /\ batch = Chunks(streamed) /\ (~retried => streamed = parts) /\ outcome = "none"
            /\ Under(Posted, batch)
        BY <1>1, <2>1, <3>3 DEF ClaudeReads
      <4>2. \A c \in 1..(i - 1) : c <= Len(messages) /\ Posted[c] = batch[c]
        BY <1>1, <1>6, <3>3, <4>1, ShownBefore
      <4>3. \A c \in 1..(place' - 1) : c <= Len(messages) /\ Posted'[c] = batch[c]
        <5> SUFFICES ASSUME NEW c \in 1..i PROVE c <= Len(messages) /\ Posted'[c] = batch[c]
          BY <1>1, <1>2
        <5>1. c \in 1..Len(messages)
          BY <1>2
        <5>2. CASE c = i
          BY <1>2, <2>2, <5>1, <5>2
        <5>3. CASE c # i
          <6>1. c \in 1..(i - 1)
            BY <1>2, <5>3
          <6> QED BY <2>2, <4>2, <5>1, <5>3, <6>1
        <5> QED BY <5>2, <5>3
      <4>4. Len(Posted') = Len(messages)
        <5>1. Posted' = [j \in 1..Len(messages) |-> channel'[messages[j]]]
          BY <1>1 DEF Posted
        <5> QED BY <1>2, <5>1
      <4> HIDE DEF Posted
      <4>5. Under(Posted', batch)
        <5>1. Begins(batch[i], batch[i])
          BY <1>2, BeginsFacts
        <5>2. \A c \in 1..Len(messages) : /\ Begins(Posted'[c], batch[c])
                                          /\ c < Len(messages) => Posted'[c] = batch[c]
          BY <1>2, <2>2, <4>1, <5>1 DEF Under
        <5> QED BY <1>2, <4>1, <4>4, <5>2 DEF Under
      <4> QED BY <1>1, <2>2, <3>1, <3>3, <4>1, <4>3, <4>5 DEF ClaudeReads
    <3> QED BY <1>1, <3>2, <3>3
  <2> QED BY <2>3, <2>4
<1> QED
  BY <1>1, <1>4, <1>5, <1>6 DEF ReadsWell

\* Once a batch is shown, all that was told is read.
LEMMA ShownReads ==
  ASSUME ReadInv, refused = 0, Shown
  PROVE  ReadsWell'
<1>1. /\ AnswerTyped /\ ReadsWell /\ AnswerOut
      /\ (outcome = "none" <=> stage \in {"showing", "noticing"})
      /\ outcome \in {"none", "answer", "error"} /\ stage \in Calling
      /\ stage' = (IF stage \in {"showing", "noticing"} THEN "streaming" ELSE "done")
      /\ sent' = (sent \/ Editing \/ stage = "showing")
      /\ UNCHANGED <<provider, parts, outcome, streamed, messages, retried, channel, refused>>
  BY DEF ReadInv, OutInv, TellingInv, OutcomeKnown, Ended, AnswerTyped, AnswerTypeOK, Shown, Calling,
         wrapper
<1>2. Posted' = Posted /\ ReadSoFar' = ReadSoFar
  BY <1>1 DEF Posted, ReadSoFar, Heard
<1>3. (InOrder' <=> InOrder) /\ (NothingElse' <=> NothingElse)
  BY <1>1 DEF InOrder, NothingElse
<1>4. /\ Len(batch) \in Nat /\ place \in Nat /\ Len(messages) \in Nat
      /\ Posted \in Seq(Text) /\ Len(Posted) = Len(messages)
      /\ batch \in Seq(Text) /\ parts \in Text
      /\ \A j \in 1..Len(messages) : Posted[j] = channel[messages[j]]
  BY <1>1, LenProperties, PostedFacts DEF AnswerTyped, AnswerTypeOK
<1>5. CASE stage \in {"showing", "noticing"}
  <2>1. outcome = "none" /\ stage' = "streaming"
    BY <1>1, <1>5
  <2>2. ASSUME provider = "claude" PROVE ClaudeReads'
    <3>1. InOrder /\ NothingElse /\ Under(Posted, Chunks(streamed)) /\ (~retried => streamed = parts)
      BY <1>1, <1>5, <2>1, <2>2 DEF ReadsWell, ClaudeReads
    <3> HIDE DEF Posted
    <3> QED BY <1>1, <1>2, <1>3, <2>1, <3>1 DEF ClaudeReads
  <2>3. ASSUME provider # "claude" PROVE OtherReads'
    <3>1. OtherReads /\ ~Editing
      BY <1>1, <1>5, <2>3 DEF ReadsWell, Editing
    <3>2. PICK o \in Text : Before(o)
      BY <2>1, <3>1 DEF OtherReads
    <3>3. ReadSoFar = o \o parts
      <4>1. CASE stage # "showing"
        BY <3>2, <4>1 DEF Before
      <4>2. CASE stage = "showing"
        <5>1. PICK b \in Text : ReadSoFar = b \o Upto(batch, place - 1) /\ b \o FlattenSeq(batch) = o \o parts
          BY <3>2, <4>2 DEF Before
        <5>2. place - 1 = Len(batch)
          <6>1. place \in 1..(Len(batch) + 1)
            BY <1>1 DEF AnswerTyped, AnswerTypeOK
          <6>2. place..Len(batch) = {}
            BY <3>1 DEF Shown
          <6>3. ~(place <= Len(batch))
            BY <1>4, <6>2
          <6> QED BY <1>4, <6>1, <6>3
        <5>3. Upto(batch, Len(batch)) = FlattenSeq(batch)
          BY <1>4, UptoFacts
        <5> QED BY <5>1, <5>2, <5>3
      <4> QED BY <4>1, <4>2
    <3>4. ~retried => o = << >>
      BY <3>2 DEF Before
    <3>5. sent' /\ ~retried' => parts' # << >>
      BY <1>1, <2>1, <3>1 DEF OtherReads
    <3>6. \E p \in Text : /\ ~retried' => p = << >>
                          /\ stage' # "showing" => ReadSoFar' = p \o parts'
                          /\ stage' = "showing" => \E b \in Text :
                               /\ ReadSoFar' = b \o Upto(batch', place' - 1)
                               /\ b \o FlattenSeq(batch') = p \o parts'
      BY <1>1, <1>2, <2>1, <3>3, <3>4
    <3> QED BY <2>1, <3>5, <3>6 DEF OtherReads, Before
  <2> QED BY <1>1, <2>1, <2>2, <2>3 DEF ReadsWell, ClosingReads, AnswerShown
<1>6. CASE stage \notin {"showing", "noticing"}
  <2>1. stage' = "done" /\ outcome \in {"answer", "error"} /\ stage \in {"closing", "syncing"}
    BY <1>1, <1>6 DEF Calling
  <2>2. ASSUME provider = "claude" PROVE ClaudeReads'
    <3>1. InOrder'
      BY <1>1, <1>3, <2>2 DEF ReadsWell, ClaudeReads
    <3> QED BY <1>1, <2>1, <3>1 DEF ClaudeReads
  <2>3. OtherReads' /\ ClosingReads'
    BY <1>1, <2>1 DEF OtherReads, ClosingReads
  <2>4. AnswerShown'
    <3> SUFFICES ASSUME outcome = "answer"
                 PROVE  IF parts = << >> THEN ~retried => ReadSoFar = Nothing
                        ELSE IF ~retried THEN ReadSoFar = parts
                        ELSE IF provider = "claude" THEN IsPrefix(parts, ReadSoFar)
                        ELSE IsSuffix(parts, ReadSoFar)
      BY <1>1, <1>2 DEF AnswerShown
    <3>0. place = Len(batch) + 1
      BY <1>1, <1>6, AllOut
    <3>1. CASE stage = "closing"
      <4>1. parts = << >> /\ batch = <<Nothing>> /\ (~retried => ReadSoFar = IF place = 1 THEN << >> ELSE Nothing)
        BY <1>1, <3>1 DEF AnswerOut, ReadsWell, ClosingReads
      <4>2. place # 1
        BY <3>0, <4>1
      <4> QED BY <4>1, <4>2
    <3>2. CASE stage = "syncing"
      <4>1. /\ provider = "claude" /\ batch = Chunks(parts)
            /\ \A c \in 1..(place - 1) : c <= Len(messages) /\ channel[messages[c]] = batch[c]
        BY <1>1, <3>2 DEF AnswerOut
      <4>2. InOrder /\ NothingElse /\ (~retried => Len(messages) <= Len(batch) /\ parts # << >>)
        BY <1>1, <3>2, <4>1 DEF ReadsWell, ClaudeReads
      <4>3. \A c \in 1..Len(batch) : c <= Len(messages) /\ Posted[c] = batch[c]
        <5>1. \A c \in 1..Len(batch) : c \in 1..(place - 1)
          BY <1>4, <3>0
        <5>2. \A c \in 1..Len(batch) : c \in 1..Len(messages)
          BY <1>4, <4>1, <5>1
        <5> QED BY <1>4, <4>1, <5>1, <5>2
      <4>4. Len(batch) <= Len(Posted)
        <5>1. CASE Len(batch) = 0
          BY <1>4, <5>1
        <5>2. CASE Len(batch) # 0
          <6>1. Len(batch) \in 1..Len(batch)
            BY <1>4, <5>2
          <6> QED BY <1>4, <4>3, <6>1
        <5> QED BY <5>1, <5>2
      <4>5. Begins(FlattenSeq(batch), FlattenSeq(Posted)) /\ (Len(Posted) = Len(batch) => Posted = batch)
        <5> HIDE DEF Posted
        <5> QED BY <1>4, <4>3, <4>4, HeadReads
      <4>6. FlattenSeq(batch) = parts
        BY <1>4, <4>1, ChunksJoin DEF Text
      <4>7. ReadSoFar = FlattenSeq(Posted) /\ ReadSoFar \in Text
        BY <1>1, <4>2, ReadsAsPosted, HeardFacts
      <4>8. IsPrefix(parts, ReadSoFar)
        BY <1>4, <4>5, <4>6, <4>7, BeginsIsPrefix
      <4>9. ~retried => ReadSoFar = parts /\ parts # << >>
        BY <1>4, <4>2, <4>4, <4>5, <4>6, <4>7
      <4> QED BY <4>1, <4>8, <4>9
    <3> QED BY <2>1, <3>1, <3>2
  <2> QED BY <1>1, <2>2, <2>3, <2>4 DEF ReadsWell
<1> QED BY <1>5, <1>6

\* Discord's answers keep it.
LEMMA ReadCall ==
  ASSUME ReadInv, Call
  PROVE  SaidOnly' /\ (refused' = 0 => ReadsWell')
<1> USE DEF responder, wrapper
<1>1. ASSUME NEW i \in 1..Len(batch), Sent(i)
      PROVE  SaidOnly' /\ (refused' = 0 => ReadsWell')
  <2>1. SaidOnly'
    BY <1>1 DEF ReadInv, SaidOnly, Sent
  <2>2. refused' = refused
    BY <1>1 DEF Sent
  <2> QED BY <1>1, <2>1, <2>2, SentReads
<1>2. ASSUME NEW i \in 1..Len(batch), Edited(i)
      PROVE  SaidOnly' /\ (refused' = 0 => ReadsWell')
  <2>1. SaidOnly'
    BY <1>2 DEF ReadInv, SaidOnly, Edited
  <2>2. refused' = refused
    BY <1>2 DEF Edited
  <2> QED BY <1>2, <2>1, <2>2, EditedReads
<1>3. ASSUME NEW i \in 1..Len(batch), EditRefused(i)
      PROVE  SaidOnly' /\ (refused' = 0 => ReadsWell')
  <2>1. SaidOnly'
    BY <1>3 DEF ReadInv, SaidOnly, EditRefused
  <2>2. refused' # 0
    BY <1>3 DEF EditRefused, ReadInv, OutInv, TellingInv, AnswerTyped, AnswerTypeOK
  <2> QED BY <2>1, <2>2
<1>4. ASSUME NEW i \in 1..Len(batch), SendRefused(i)
      PROVE  SaidOnly' /\ (refused' = 0 => ReadsWell')
  <2>1. refused' # 0
    BY <1>4 DEF SendRefused, ReadInv, OutInv, TellingInv, AnswerTyped, AnswerTypeOK
  <2>2. CASE stage \in {"showing", "noticing"}
    <3>1. Finish("error")
      BY <1>4, <2>2 DEF SendRefused
    <3>2. UNCHANGED <<provider, parts, messages, sent, channel, retried>>
      BY <1>4 DEF SendRefused
    <3> QED BY <2>1, <3>1, <3>2, FinishReads
  <2>3. CASE stage \notin {"showing", "noticing"}
    <3>1. SaidOnly'
      BY <1>4, <2>3 DEF SendRefused, ReadInv, SaidOnly
    <3> QED BY <2>1, <3>1
  <2> QED BY <2>2, <2>3
<1>5. CASE Shown
  <2>1. SaidOnly'
    BY <1>5 DEF ReadInv, SaidOnly, Shown
  <2>2. refused' = refused
    BY <1>5 DEF Shown
  <2> QED BY <1>5, <2>1, <2>2, ShownReads
<1> QED
  BY <1>1, <1>2, <1>3, <1>4, <1>5 DEF Call

\* A step that changes neither the channel nor what there is to show keeps it.
LEMMA ReadUnchanged ==
  ASSUME ReadInv, UNCHANGED <<provider, stage, retried, parts, outcome, responder, batch, place, channel, refused>>
  PROVE  SaidOnly' /\ (refused' = 0 => ReadsWell')
<1> USE DEF responder
<1>1. SaidOnly'
  BY DEF ReadInv, SaidOnly
<1>2. Posted' = Posted /\ ReadSoFar' = ReadSoFar
  BY DEF Posted, ReadSoFar, Heard
<1>3. (InOrder' <=> InOrder) /\ (NothingElse' <=> NothingElse)
  BY DEF InOrder, NothingElse
<1>4. ASSUME refused = 0 PROVE ReadsWell'
  <2>1. ReadsWell
    BY <1>4 DEF ReadInv
  <2>2. ClaudeReads => ClaudeReads'
    <3> HIDE DEF Posted
    <3> QED BY <1>2, <1>3 DEF ClaudeReads
  <2>3. OtherReads => OtherReads'
    <3> HIDE DEF ReadSoFar
    <3>1. \A o : Before(o) => /\ ~retried' => o = << >>
                              /\ stage' # "showing" => ReadSoFar' = o \o parts'
                              /\ stage' = "showing" => \E b \in Text :
                                   /\ ReadSoFar' = b \o Upto(batch', place' - 1)
                                   /\ b \o FlattenSeq(batch') = o \o parts'
      BY <1>2 DEF Before
    <3> QED BY <3>1 DEF OtherReads, Before
  <2>4. ClosingReads' /\ AnswerShown'
    BY <1>2, <2>1 DEF ReadsWell, ClosingReads, AnswerShown
  <2> QED BY <2>1, <2>2, <2>3, <2>4 DEF ReadsWell
<1> QED BY <1>1, <1>4

\* It is inductive.
LEMMA ReadStep ==
  ASSUME ReadInv, [AnswerNext]_answerVars
  PROVE  ReadInv'
<1>1. OutInv'
  BY OutStep DEF ReadInv
<1>2. CASE Provide
  BY <1>1, <1>2, ReadProvide DEF ReadInv
<1>3. CASE Call
  BY <1>1, <1>3, ReadCall DEF ReadInv
<1>4. CASE StreamClosed
  <2>1. UNCHANGED <<provider, stage, retried, parts, outcome, responder, batch, place, channel, refused>>
    BY <1>4 DEF StreamClosed
  <2> QED BY <1>1, <2>1, ReadUnchanged DEF ReadInv
<1>5. CASE UNCHANGED answerVars
  <2>1. UNCHANGED <<provider, stage, retried, parts, outcome, responder, batch, place, channel, refused>>
    BY <1>5 DEF answerVars, wrapper
  <2> QED BY <1>1, <2>1, ReadUnchanged DEF ReadInv
<1> QED
  BY <1>2, <1>3, <1>4, <1>5 DEF AnswerNext

\* It holds in every state.
LEMMA ReadAlways == AnswerSpec => []ReadInv
<1>1. AnswerInit => ReadInv
  BY ReadInit
<1>2. ReadInv /\ [AnswerNext]_answerVars => ReadInv'
  BY ReadStep
<1> QED
  BY <1>1, <1>2, PTL DEF AnswerSpec

\* A turn that was answered leaves exactly the answer in the channel, whatever
\* pieces it came in and whenever they were shown: every chunk once and in
\* order, if Discord took every call and the turn was not retried.
THEOREM AnswerIsShown == AnswerSpec => []AnswerShown
<1>1. ReadInv => AnswerShown
  BY DEF ReadInv, ReadsWell, AnswerShown
<1> QED
  BY <1>1, ReadAlways, PTL

\* While an answer streams, what the channel reads is its beginning, after
\* every single call.
THEOREM StreamsInOrder == AnswerSpec => []ReadInOrder
<1>1. ASSUME ReadInv
      PROVE  ReadInOrder
  <2> SUFFICES ASSUME outcome = "none", refused = 0, ~retried
               PROVE  IsPrefix(ReadSoFar, parts)
    BY DEF ReadInOrder
  <2>1. AnswerTyped /\ ReadsWell /\ stage \notin Ended /\ parts \in Text /\ streamed \in Text
    BY <1>1 DEF ReadInv, OutInv, TellingInv, OutcomeKnown, AnswerTyped
  <2>2. ReadSoFar \in Text
    BY <2>1, HeardFacts
  <2>3. Begins(ReadSoFar, parts)
    <3>1. CASE provider = "claude"
      <4>1. InOrder /\ NothingElse /\ Under(Posted, Chunks(parts))
        BY <2>1, <3>1 DEF ReadsWell, ClaudeReads, Ended
      <4>2. Posted \in Seq(Text) /\ Chunks(parts) \in Seq(Text) /\ FlattenSeq(Chunks(parts)) = parts
        BY <2>1, PostedFacts, ChunksAre, ChunksJoin DEF Text
      <4>3. Begins(FlattenSeq(Posted), FlattenSeq(Chunks(parts)))
        BY <4>1, <4>2, UnderReads
      <4> QED BY <2>1, <4>1, <4>2, <4>3, ReadsAsPosted
    <3>2. CASE provider # "claude"
      <4>1. PICK o \in Text : Before(o)
        BY <2>1, <3>2 DEF ReadsWell, OtherReads
      <4>2. o = << >> /\ << >> \o parts = parts
        BY <2>1, <4>1, ConcatEmptySeq DEF Before, Text
      <4>3. CASE stage # "showing"
        <5>1. ReadSoFar = parts
          BY <4>1, <4>2, <4>3 DEF Before
        <5> QED BY <2>1, <5>1, BeginsFacts
      <4>4. CASE stage = "showing"
        <5>1. PICK b \in Text : ReadSoFar = b \o Upto(batch, place - 1) /\ b \o FlattenSeq(batch) = o \o parts
          BY <4>1, <4>4 DEF Before
        <5> DEFINE k == place - 1
        <5>2. batch \in Seq(Text) /\ Len(batch) \in Nat /\ k \in Nat /\ k <= Len(batch) /\ k \in 0..Len(batch)
          BY <2>1, LenProperties DEF AnswerTyped, AnswerTypeOK
        <5>3. ReadSoFar = b \o Upto(batch, k)
          BY <5>1
        <5> HIDE DEF k
        <5>4. Upto(batch, k) \in Text /\ FlattenSeq(batch) = Upto(batch, Len(batch)) /\ FlattenSeq(batch) \in Text
          BY <5>2, UptoFacts, FlattenType DEF Text
        <5>5. Begins(Upto(batch, k), FlattenSeq(batch))
          BY <5>2, <5>4, UptoBegins
        <5>6. Begins(b \o Upto(batch, k), b \o FlattenSeq(batch))
          BY <5>4, <5>5, BeginsFacts
        <5> QED BY <4>2, <5>1, <5>3, <5>6
      <4> QED BY <4>3, <4>4
    <3> QED BY <3>1, <3>2
  <2> QED BY <2>1, <2>2, <2>3, BeginsIsPrefix
<1>2. ReadInv => ReadInOrder
  BY <1>1
<1> QED
  BY <1>2, ReadAlways, PTL
=============================================================================
