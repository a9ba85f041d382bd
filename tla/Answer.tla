------------------------------- MODULE Answer -------------------------------
(***************************************************************************)
(* gateway/discord.py on_message with its stream responder, over the       *)
(* stream of one provider: what a Discord user gets to see of one message, *)
(* from providers/claude.py, codex.py and the one-shot runner of           *)
(* subprocess_cli.py (gemini) through services/streaming.py.  An action is *)
(* what runs between two awaits: an output of the child process, a Discord *)
(* call, the end of a retry's reset.                                       *)
(*                                                                         *)
(* A text is a sequence of tokens; the i-th token the r-th process of the  *)
(* turn puts out is <<r, i>>.  chunk_text cuts it every ChunkSize tokens.  *)
(* on_message sends what is left at the end with another limit than it     *)
(* streams with; that matters only for a text nothing was streamed of,     *)
(* which is an error's, and here one chunk.                                *)
(***************************************************************************)
EXTENDS Naturals, FiniteSets, SequencesExt

CONSTANTS
  Providers,     \* of "claude", "codex", "gemini"
  ChunkSize,     \* _STREAM_EDIT_LIMIT
  SoftFlush,     \* _STREAM_FLUSH_CHARS
  ForceFlush,    \* _STREAM_FORCE_FLUSH_CHARS
  PieceSizes,    \* tokens a process may yield at a time
  MaxTokens,     \* bound: tokens a process yields
  MaxRefusals    \* bound: Discord calls that fail

ASSUME AnswerAssumption ==
  /\ Providers \subseteq {"claude", "codex", "gemini"}
  /\ ChunkSize \in Nat \ {0} /\ SoftFlush \in Nat /\ ForceFlush \in Nat
  /\ PieceSizes \subseteq Nat \ {0}
  /\ MaxTokens \in Nat /\ MaxRefusals \in Nat

VARIABLES
  provider,
  stage,
  \* the wrapper and its child processes
  run,                  \* processes started for this message
  made,                 \* tokens the current one has put out
  children,             \* those running
  resumes,              \* _has_history (codex)
  retried,              \* is this the second collect_stream?
  parts,                \* parts of collect_stream, joined
  outcome,              \* "none", "answer" or "error"
  \* the responder
  streamed, rendered,   \* _text, _rendered_length
  messages,             \* _messages: their places in the channel
  sent,                 \* _sent_response
  noticed,              \* _last_progress is set
  \* what it is showing
  batch, place,         \* the chunks, and the next one
  \* Discord
  channel,              \* contents of the bot's messages, in order
  refused               \* calls that failed

wrapper == <<run, made, children, resumes, retried>>
responder == <<streamed, rendered, messages, sent, noticed>>
answerVars ==
  <<provider, stage, wrapper, parts, outcome, responder, batch, place, channel, refused>>

\* The texts of the program itself; no process is number 0.
Notice == <<<<0, 1>>>>    \* the warning that an answer takes long
Failed == <<<<0, 2>>>>    \* the text of an error, or the timeout's notice
Nothing == <<<<0, 3>>>>   \* the text for an empty answer

AnswerInit ==
  /\ provider \in Providers
  /\ stage = "idle"
  /\ run = 0 /\ made = 0 /\ children = {} /\ retried = FALSE
  /\ resumes \in IF provider = "codex" THEN BOOLEAN ELSE {FALSE}
  /\ parts = <<>> /\ outcome = "none"
  /\ streamed = <<>> /\ rendered = 0 /\ messages = <<>> /\ sent = FALSE /\ noticed = FALSE
  /\ batch = <<>> /\ place = 1
  /\ channel = <<>> /\ refused = 0

-----------------------------------------------------------------------------
\* chunk_text, apart from its care for code fences.
Chunks(s) ==
  [i \in 1..((Len(s) + ChunkSize - 1) \div ChunkSize) |->
     SubSeq(s, (i - 1) * ChunkSize + 1,
            IF i * ChunkSize <= Len(s) THEN i * ChunkSize ELSE Len(s))]

\* The next n tokens of the current process.
Tokens(n) == [i \in 1..n |-> <<run, made + i>>]

\* The responder, or _send_channel_chunks, begins to show chunks.
Show(chunks, label) ==
  /\ batch' = chunks /\ place' = 1
  /\ stage' = label

\* A mutant: what has been sent already counts as the answer for claude too.
FinishOnceSent(o) ==
  LET chunks == IF o = "error" THEN <<Failed>> ELSE Chunks(parts) IN
  /\ outcome' = o
  /\ UNCHANGED streamed
  /\ IF sent THEN stage' = "done" /\ UNCHANGED <<batch, place>>
     ELSE Show(IF chunks = <<>> THEN <<Nothing>> ELSE chunks, "closing")

\* handle_user_message returned or raised: finalize() brings what was streamed
\* to the final text, or tells that nothing was streamed, and then the final
\* chunks are sent.
Finish(o) ==
  LET chunks == IF o = "error" THEN <<Failed>> ELSE Chunks(parts) IN
  /\ outcome' = o
  /\ IF provider = "claude" /\ streamed # <<>>
       THEN /\ streamed' = FlattenSeq(chunks)
            /\ Show(Chunks(FlattenSeq(chunks)), "syncing")
     ELSE /\ UNCHANGED streamed
          /\ IF provider # "claude" /\ sent
               THEN stage' = "done" /\ UNCHANGED <<batch, place>>
               ELSE Show(IF chunks = <<>> THEN <<Nothing>> ELSE chunks, "closing")

-----------------------------------------------------------------------------
\* The provider: collect_stream and the processes it reads from.

\* A process is started for the message.
Launch ==
  /\ run' = run + 1 /\ made' = 0
  /\ children' = children \cup {run + 1}
  /\ stage' = "streaming"

Begin ==
  /\ stage = "idle"
  /\ Launch
  /\ UNCHANGED <<provider, resumes, retried, parts, outcome, responder, batch,
                 place, channel, refused>>

\* No wrapper, or no executable.
BeginFails ==
  /\ stage = "idle"
  /\ Finish("error")
  /\ UNCHANGED <<provider, wrapper, parts, rendered, messages, sent, noticed, channel, refused>>

\* Whether n pending tokens are shown depends, between the two limits, on how
\* they end.
ShouldFlush(n) == {b \in BOOLEAN : (b => n >= SoftFlush) /\ (~b => n < ForceFlush)}

\* stream_text of n new tokens.
StreamText(n) ==
  /\ made' = made + n
  /\ parts' = parts \o Tokens(n)
  /\ IF provider # "claude"
       THEN Show(Chunks(Tokens(n)), "showing") /\ UNCHANGED streamed
       ELSE /\ streamed' = streamed \o Tokens(n)
            /\ \E flush \in ShouldFlush(Len(streamed') - rendered) :
                 IF flush THEN Show(Chunks(streamed'), "showing") ELSE UNCHANGED <<
                                                                                   stage,
                                                                                   batch,
                                                                                   place>>

\* A piece of the answer comes while the process runs; gemini's comes at the end.
Piece(n) ==
  /\ stage = "streaming" /\ run \in children /\ provider # "gemini"
  /\ made + n <= MaxTokens
  /\ StreamText(n)
  /\ UNCHANGED <<provider, run, children, resumes, retried, outcome, rendered, messages, sent,
                 noticed, channel, refused>>

\* The process ends well.  When it yielded nothing its result is the one piece.
Exits ==
  /\ stage = "streaming" /\ run \in children
  /\ children' = children \ {run}
  /\ \/ UNCHANGED <<stage, made, parts, streamed, batch, place>>
     \/ \E n \in PieceSizes : made = 0 /\ n <= MaxTokens /\ StreamText(n)
  /\ UNCHANGED <<provider, run, resumes, retried, outcome, rendered, messages, sent, noticed,
                 channel, refused>>

\* The stream has ended.  The turn is saved, which may fail.
StreamRead ==
  /\ stage = "streaming" /\ run \notin children
  /\ \E o \in {"answer", "error"} : Finish(o)
  /\ UNCHANGED <<provider, wrapper, parts, rendered, messages, sent, noticed, channel, refused>>

\* The wrapper warns once that the answer takes long: claude only before its
\* first piece.  The responder does not repeat itself.
Warns ==
  /\ stage = "streaming" /\ run \in children
  /\ provider = "claude" => made = 0
  /\ ~noticed
  /\ Show(<<Notice>>, "noticing")
  /\ UNCHANGED <<provider, wrapper, parts, outcome, responder, channel, refused>>

\* Codex, resuming: the run that lost its stream or its history is made again
\* as a new one.
SecondAttempt ==
  /\ provider = "codex" /\ resumes
  /\ stage = "streaming" /\ run \in children
  /\ resumes' = FALSE
  /\ run' = run + 1 /\ made' = 0
  /\ children' = (children \ {run}) \cup {run + 1}
  /\ UNCHANGED <<provider, stage, retried, parts, outcome, responder, batch, place,
                 channel, refused>>

\* A mutant: the process that hangs is left running.
LostLeavesChild ==
  /\ stage = "streaming" /\ run \in children
  /\ IF retried
       THEN Finish("error")
       ELSE stage' = "resetting" /\ UNCHANGED <<outcome, streamed, batch, place>>
  /\ UNCHANGED <<provider, wrapper, parts, rendered, messages, sent, noticed, channel, refused>>

\* The deadline passes, or the session turns out to be stale: the process is
\* dead, and the first time the turn is tried again on a new session.
Lost ==
  /\ stage = "streaming" /\ run \in children
  /\ children' = children \ {run}
  /\ IF retried
       THEN Finish("error")
       ELSE stage' = "resetting" /\ UNCHANGED <<outcome, streamed, batch, place>>
  /\ UNCHANGED <<provider, run, made, resumes, retried, parts, rendered, messages, sent, noticed,
                 channel, refused>>

\* The process fails otherwise.
Fails ==
  /\ stage = "streaming" /\ run \in children
  /\ children' = children \ {run}
  /\ Finish("error")
  /\ UNCHANGED <<provider, run, made, resumes, retried, parts, rendered, messages, sent, noticed,
                 channel, refused>>

\* reset_session_for_retry made a wrapper without history: collect_stream again.
Reset ==
  /\ stage = "resetting"
  /\ Launch
  /\ resumes' = FALSE /\ retried' = TRUE
  /\ parts' = <<>>
  /\ UNCHANGED <<provider, outcome, responder, batch, place, channel, refused>>

ResetFails ==
  /\ stage = "resetting"
  /\ Finish("error")
  /\ UNCHANGED <<provider, wrapper, parts, rendered, messages, sent, noticed, channel, refused>>

-----------------------------------------------------------------------------
\* Discord: one call per action.

Editing == stage = "syncing" \/ (stage = "showing" /\ provider = "claude")

\* A mutant: a chunk that has a message is taken to be shown.
SettledOncePosted(i) == stage = "showing" /\ i <= Len(messages)

\* _sync_messages passes over a chunk whose message shows it, unless forced.
\* (It may edit it all the same: the message object keeps its first content.)
Settled(i) == stage = "showing" /\ i <= Len(messages) /\ channel[messages[i]] = batch[i]

\* The chunk the next call is for.
Up(i) == i \in place..Len(batch) /\ \A j \in place..(i - 1) : Editing /\ Settled(j)

\* A chunk is sent as a new message.
Sent(i) ==
  /\ stage \in {"showing", "noticing", "closing", "syncing"} /\ Up(i)
  /\ Editing => i > Len(messages)
  /\ channel' = Append(channel, batch[i])
  /\ messages' = IF Editing THEN Append(messages, Len(channel) + 1) ELSE messages
  /\ place' = i + 1
  /\ UNCHANGED <<provider, stage, wrapper, parts, outcome, streamed, rendered, sent,
                 noticed, batch, refused>>

Edited(i) ==
  /\ Editing /\ Up(i) /\ i <= Len(messages)
  /\ channel' = [channel EXCEPT ![messages[i]] = batch[i]]
  /\ place' = i + 1
  /\ UNCHANGED <<provider, stage, wrapper, parts, outcome, responder, batch, refused>>

\* A mutant: a chunk whose edit failed is given up.
EditRefusedIgnored(i) ==
  /\ Editing /\ Up(i) /\ i <= Len(messages)
  /\ refused < MaxRefusals
  /\ refused' = refused + 1
  /\ place' = i + 1
  /\ UNCHANGED <<provider, stage, wrapper, parts, outcome, responder, batch, channel>>

\* An edit fails and the chunk is sent as a replacement.
EditRefused(i) ==
  /\ Editing /\ Up(i) /\ i <= Len(messages)
  /\ refused < MaxRefusals
  /\ refused' = refused + 1
  /\ channel' = Append(channel, batch[i])
  /\ messages' = [messages EXCEPT ![i] = Len(channel) + 1]
  /\ place' = i + 1
  /\ UNCHANGED <<provider, stage, wrapper, parts, outcome, streamed, rendered, sent,
                 noticed, batch>>

\* A send fails, of a chunk or of a replacement.  While the provider streams
\* that fails the turn: a wrapper that was warning kills its process, but one
\* that had yielded a piece is left where it is, with its process.  At the
\* end it leaves on_message.
SendRefused(i) ==
  /\ stage \in {"showing", "noticing", "closing", "syncing"} /\ Up(i)
  /\ refused' = refused + (IF Editing /\ i <= Len(messages) THEN 2 ELSE 1)
  /\ refused' <= MaxRefusals
  /\ children' = IF stage = "noticing" THEN children \ {run} ELSE children
  /\ IF stage \in {"showing", "noticing"}
       THEN Finish("error")
       ELSE stage' = "raised" /\ UNCHANGED <<outcome, streamed, batch, place>>
  /\ UNCHANGED <<provider, run, made, resumes, retried, parts, rendered, messages, sent, noticed,
                 channel>>

\* A mutant: the place in the chunks is not reset.
ShownKeepsPlace ==
  /\ stage \in {"showing", "noticing", "closing", "syncing"}
  /\ \A j \in place..Len(batch) : Editing /\ Settled(j)
  /\ stage' = IF stage \in {"showing", "noticing"} THEN "streaming" ELSE "done"
  /\ rendered' = IF Editing THEN Len(streamed) ELSE rendered
  /\ sent' = (sent \/ Editing \/ stage = "showing")
  /\ noticed' = (noticed \/ stage = "noticing")
  /\ batch' = <<>>
  /\ UNCHANGED <<provider, wrapper, parts, outcome, streamed, messages, place, channel, refused>>

\* All chunks are out.
Shown ==
  /\ stage \in {"showing", "noticing", "closing", "syncing"}
  /\ \A j \in place..Len(batch) : Editing /\ Settled(j)
  /\ stage' = IF stage \in {"showing", "noticing"} THEN "streaming" ELSE "done"
  /\ rendered' = IF Editing THEN Len(streamed) ELSE rendered
  /\ sent' = (sent \/ Editing \/ stage = "showing")
  /\ noticed' = (noticed \/ stage = "noticing")
  /\ batch' = <<>> /\ place' = 1
  /\ UNCHANGED <<provider, wrapper, parts, outcome, streamed, messages, channel, refused>>

\* A mutant: the stream catches Exception, so that closing it kills nothing.
ClosedLeavesChild ==
  /\ stage \notin {"streaming", "showing", "noticing"}
  /\ children # {}
  /\ UNCHANGED answerVars

\* A stream that was given up is closed, and its process killed.
StreamClosed ==
  /\ stage \notin {"streaming", "showing", "noticing"}
  /\ children # {}
  /\ children' = {}
  /\ UNCHANGED <<provider, stage, run, made, resumes, retried, parts, outcome,
                 responder, batch, place, channel, refused>>

-----------------------------------------------------------------------------
Provide ==
  \/ Begin \/ BeginFails
  \/ \E n \in PieceSizes : Piece(n)
  \/ Exits \/ StreamRead \/ Warns \/ SecondAttempt \/ Lost \/ Fails
  \/ Reset \/ ResetFails

Call ==
  \/ \E i \in 1..Len(batch) : Sent(i) \/ Edited(i) \/ EditRefused(i) \/ SendRefused(i)
  \/ Shown

AnswerNext == Provide \/ Call \/ StreamClosed

AnswerSpec == AnswerInit /\ [][AnswerNext]_answerVars

\* A process puts something out, ends or meets its deadline; Discord answers;
\* Python closes the generators nobody holds.
AnswerFairSpec == AnswerSpec /\ WF_answerVars(Provide \/ Call) /\ WF_answerVars(StreamClosed)

-----------------------------------------------------------------------------
AnswerTypeOK ==
  /\ provider \in Providers
  /\ stage \in {"idle", "streaming", "showing", "noticing", "resetting", "closing", "syncing",
             "done", "raised"}
  /\ run \in Nat /\ made \in 0..MaxTokens /\ children \subseteq 1..run
  /\ resumes \in BOOLEAN /\ retried \in BOOLEAN
  /\ outcome \in {"none", "answer", "error"}
  /\ rendered \in Nat /\ sent \in BOOLEAN /\ noticed \in BOOLEAN
  /\ messages \in Seq(1..Len(channel))
  /\ place \in 1..(Len(batch) + 1)
  /\ refused \in 0..MaxRefusals

\* What the user reads, without the warning.
Heard == [m \in 1..Len(channel) |-> IF channel[m] = Notice THEN <<>> ELSE channel[m]]
ReadSoFar == FlattenSeq(Heard)

\* A turn that was answered leaves exactly the answer in the channel, every
\* chunk once and in order, if Discord took every call.  After a retry the text
\* of the first attempt may stay, before the answer or, with claude, after it;
\* and when nothing came the second time that text may be all there is.
AnswerShown ==
  stage = "done" /\ outcome = "answer" /\ refused = 0 =>
    IF parts = <<>> THEN ~retried => ReadSoFar = Nothing
    ELSE IF ~retried THEN ReadSoFar = parts
    ELSE IF provider = "claude" THEN IsPrefix(parts, ReadSoFar)
    ELSE IsSuffix(parts, ReadSoFar)

\* While an answer streams, what the user reads is its beginning.
ReadInOrder ==
  outcome = "none" /\ refused = 0 /\ ~retried => IsPrefix(ReadSoFar, parts)

\* An answered turn shows all of the answer, also when edits failed.
NothingLost ==
  stage = "done" /\ outcome = "answer" =>
    \A i \in 1..Len(parts) : \E m \in 1..Len(channel) : \E j \in 1..Len(channel[m]) :
      channel[m][j] = parts[i]

\* A turn that failed before anything of it was shown whole, or with claude at
\* any time, tells so, whatever Discord refused before.
FailureShown ==
  stage = "done" /\ outcome = "error" /\ (provider = "claude" \/ ~sent) =>
    \E m \in 1..Len(channel) : channel[m] = Failed

\* docs/plans.md:892: "CLI 오류 시 사용자에게 명확한 에러 메시지 제공".  A message
\* that failed says so.
ErrorsShown ==
  stage = "done" /\ outcome = "error" => \E m \in 1..Len(channel) : channel[m] = Failed

\* A turn talks to one process at a time: it is retried only when the one
\* before is dead.
OneProcess == Cardinality(children) <= 1

\* Every message is done with, and none of its processes outlives it for long.
EveryMessageEnds ==
  stage = "streaming" ~> stage \in {"done", "raised"} /\ children = {}
=============================================================================
