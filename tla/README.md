# A verification of ai-agent-messaging in TLA+

The program is a bot server: Discord messages and slash commands go to
command-line AI providers (claude, codex, gemini), one conversation per agent
and channel, with session records that survive restarts, a memory of what was
said, and scheduled jobs. It is one Python process and, except for short file
and database work in threads, one asyncio event loop. Its difficulty is not
parallel code but the many places where a handler awaits and finds another
world when it goes on. The modules here model those places.

Paths below are relative to the package, `src/src/`, unless they start with
`docs/` or `tests/`.

## Inventory

| Part | State | Operations | Talks to |
|---|---|---|---|
| `runtime/provider_runtime.py` ProviderRuntime | five dictionaries by (agent, session key): wrappers, configs, restart counts, locks, last activity; the watchdog task | ensure_wrapper, session_lock, stop_session, options_for, _try_restart, the watchdog's two passes, shutdown | wrappers (start, stop, is_alive), session records |
| `runtime/session_store.py`, `session_manager.py` | `_cache`, `_loaded`, `_lock`, sessions.json | get, upsert, delete, delete_where, delete_where_sync | worker threads, the file |
| `services/conversation.py`, `command.py`, `streaming.py` | none of their own; the session lock while a turn runs | handle_user_message, handle_cli_command, handle_new_session, one retry on a fresh session | ProviderRuntime, records, memory |
| `jobs/scheduler.py`, `runtime.py`, `store.py`, `registry.py`, `cron.py` | the loop task, a lock per job, the tables job_runs and artifacts | run_pending, run_job, start_run, write_artifact, finish_run | tools, SQLite in threads |
| `providers/subprocess_cli.py`, `claude.py`, `codex.py`, `gemini.py`, `base.py` | provider_session_id, history flag, model, child process, deadlines | start, stop, send_user_message, send_native_command | child processes |
| `gateway/discord.py` | the text and messages of a streamed answer, per answer | stream_text, send_progress, finalize, interaction handlers | the discord library, services |
| `runtime/interactions.py` | requests waiting for a choice | create, consume, clear | command service |
| `runtime/transport.py`, `delivery.py` | none; the table of senders | chunk_text, register, send | gateway, services, jobs |
| `memory/writer.py`, `frontmatter.py`, `metadata.py` | Markdown files of a day and of a job, a lock | append_message, write_job_run | services, jobs |
| `memory/snapshot.py`, `resume_context.py` | one snapshot per session | write, build | services; resume_context has no caller |
| `core/subagents.py` | a temporary workspace per run | run | wrappers |
| `application/app.py` | the running parts | start, stop, run_job, build_app | all |
| `config`, `skills`, loaders, `observability`, `setup` | read once | load | files |

What makes each part correct, and where it is hard:

* **ProviderRuntime.** A wrapper belongs to one session. Nothing is locked: the
  check, the start and the registration of a wrapper are separated by awaits,
  the watchdog and handlers restart the same key, /new and the idle cleanup
  remove entries in use. Restarts must end, dead wrappers must not stay.
* **SessionStore.** Readers see a map that is on disk, an acknowledged write
  survives a crash, a failure leaves the lock free.
* **Conversation and commands.** Turns of a session exclude each other, a
  conversation goes on until /new, /new really starts afresh, the record says
  what the wrapper does, every turn ends.
* **Jobs.** One run per job and minute whatever fails; runs of a job exclude
  each other; success means all of it was done; no minute is missed while the
  scheduler is free; the loop never stops the process.
* **Providers.** One answer per turn, shown once; deadlines that fire; children
  that end with their wrapper.
* **Gateway, transport.** What the channel shows at the end is the answer, in
  order, in pieces Discord accepts.
* **Menus.** A ticket is good for one switch of its agent and session, however
  often and by whomever its menu is picked in.
* **Memory.** Nothing appended is lost or overwritten, by another turn, a full
  file, a summary that breaks the header, or a crash.
* **Subagents.** A workspace belongs to one task, is whole while its CLI works
  and gone when it is over.

`PROJECT.json` lists every part with its status, and every hazard with its line.

## Modules

| Module | Models | Stands |
|---|---|---|
| `DurableMap`, `SessionStore` (+ `SessionStoreProofs`) | the session records; the abstract map they implement | alone |
| `ProviderRuntime` (+ `ProviderRuntimeProofs`) | the registry of wrappers, its handlers and watchdog | alone |
| `Conversation` (+ `ConversationProofs`) | turns and commands over the registry | extends ProviderRuntime |
| `Jobs` (+ `JobsProofs`) | scheduler, runs, run store | alone |
| `Cron` (+ `PartsProofs`) | in which minutes and slots a job runs | in MCParts |
| `Answer` (+ `AnswerProofs`) | one message from Discord's side | in MCParts |
| `ChunkText` (+ `TextProofs`) | chunk_text | in MCParts |
| `JsonStream` (+ `TextProofs`) | codex's stdout taken apart | in MCParts |
| `Texts` (+ `SequenceLemmas`) | what is kept of a text: shared by the two above | used by them |
| `CodexThreads` (+ `PartsProofs`) | which codex thread a channel's message goes to | in MCParts |
| `Processes` (+ `PartsProofs`) | how a turn gets rid of its CLI and the CLI's helper | in MCParts |
| `Memory` (+ `PartsProofs`) | the Markdown memory | in MCParts |
| `Interactions` (+ `PartsProofs`) | the menus of /model and their tickets | in MCParts |
| `Subagents` (+ `PartsProofs`) | tasks handed to subagents and their workspaces | in MCParts |

`Jobs` shares only the event loop with the rest. The modules in `MCParts` share
no state with each other in the program either; `MCParts` checks them in one run,
in which a behaviour is one of a single module and the others stay where they
begin. That this composition is, for each of them, a behaviour of its own
specification is proved (PartsAreThemselves), so what is proved of a module alone
holds of the run. What one of them needs of another is written where it is used: Answer
needs of the registry only that a retry gets a new wrapper, and of Processes that a
stream's end is its CLI's; Subagents needs of Processes that a turn which ends has
ended its CLI, as all do but a codex turn cancelled while it drains; Interactions
leaves to Conversation what a switch does.

Each has an `MC` module with the values TLC uses where names in the `.cfg` do
not suffice. Operators named after a defect (`BuildShared`, `AcquireAnyway`...)
are variants of the definition that follows them, used to test that a property
can fail; no specification uses them.

**What an action is.** Coroutines of one event loop run uninterrupted between
awaits that suspend. An action is such a stretch: from the point where an await
comes back to the next one, whole. Entering a coroutine does not suspend by
itself, nor does taking a free `asyncio.Lock`, so a call chain is folded into
the action that begins it.

### SessionStore

`cache`, `loaded`, `lock`, `file` are the code's; `pc`, `op`, `result` say where
each caller is, `thread` and `payload` what its worker thread does. `Request`
and `Acquire` enter the lock, `Loaded`/`LoadFailed` are `_ensure_loaded`,
`Body` the operation's own effect on the map; `TmpWritten`, `Replaced`,
`PersistFailed` are the two halves of `_write_json` and the return to the
handler. `Threadless` is a thread that could not be started or a payload that
cannot be built. `Crash` loses everything but the file; `Start` is
`delete_where_sync`, which build_app runs before any handler. A failed write
leaves the cache ahead of the file, as in the code (session_store.py:36-37,
against docs/architecture.md:275-276), and the properties say so.

`DurableMap` is what callers may rely on: a visible map that changes by whole
operations, a durable map that is some earlier visible map, brought up to date
by `Flush`, and what a crash falls back to.

### ProviderRuntime

The five dictionaries; wrapper objects by number (`built`, `alive`, `sid`,
`hist`), session ids by number (`minted`); `records` is sessions.json as the
abstract map allows: a lookup takes effect when called and is used later.
Handlers carry `key`, the record they have `seen`, the wrapper that is `mine`
and the lock they were given, `myLock`. `ensure_wrapper` is EnsureReuse,
EnsureDead, EnsureMissing, then EnsureStart/EnsureStartFails, then
EnsureUpserted/EnsureUpsertFails; `_try_restart` is TryRestart (up to the
backoff), RestartWakes, RestartStarts/RestartFails/RestartRaises and again; the
watchdog is WatchdogLooks, CheckFine/CheckDead per key, CheckedAll,
CleanActive/CleanIdle per key, CleanedAll; stop_session and the clear are
ResetSession, Cleared/ClearFails. Keys of records are scoped by `Scope`, twice
where the code scopes twice.

### Conversation

Adds the session lock's holders, the provider session a message goes to, what
the provider refuses, and the set of conversations it has. `Proceed` leaves
ensure_wrapper and takes the lock or waits, `Acquire` is the hand-over,
`Answered`, `Refused` (stale), `TimesOut` and `TurnFails` are the outcomes of
the stream, `Retry` is reset_session_for_retry with its stop, clear and ensure,
`Saved` the final upsert. `said`, `old`, `barred`, `last` only remember, for the
properties; no action reads them.

`scenario` is one of the cases of a run: which handlers there are, and what may
happen while one of them is at work: "overlap" (another turn or command of the
channel), "new", "idle" (the idle timeout runs out during a turn), "fault"
(failures and timeouts), "crash" (a wrapper dies), "shutdown". The code excludes
none of them. The runs use the largest cases under which their properties hold,
so this file and the findings can say which meeting breaks which promise:

* "overlap" with "fault" breaks Serialized: the retry pops the lock its own turn
  holds (run retry_lock, a finding).
* "overlap" with "new" breaks Serialized (the lock is popped under a turn,
  command.py:172 and provider_runtime.py:253) and FreshAfterNew (the turn's late
  upsert, conversation.py:138).
* "overlap" with "idle" breaks Serialized: the idle cleanup pops the lock too.
  "crash" in its place does too, because a restarted wrapper keeps its old
  activity time (provider_runtime.py:161) and so counts as idle.
* "overlap" breaks OneConversation and RecordMatches, which are therefore stated
  for handlers that do not meet: two first messages each start a wrapper and the
  second replaces the first (provider_runtime.py:218-232).
* "overlap" breaks Serialized also without failures once a command takes part:
  /stats, /model or the request for its options starts a wrapper and records its
  session, of which the provider knows nothing as long as no message was sent in
  it. When the wrapper is then dropped as idle, the next message resumes that
  session, is refused, and its retry pops the lock. The theorem on Serialized
  therefore asks for messages and /new only.
* sessions.json is keyed by channel, not by agent and channel. Two agents in one
  channel share a record, and then FreshAfterNew, RecordMatches, OneConversation
  and Serialized fail (TLC shows each with two agents); the theorems on them ask
  for one agent in each channel (OneAgentEach), as the runs do.

### Jobs

`clock` is the minute, `due` the minute a pass was called for, `runs` the rows
of job_runs in order, `artifacts` pairs of run and step, `lock` the job locks.
A process is the scheduler or a caller by hand; `run_job` is Enter, Acquire,
Asked (has_run_for_slot), Started (start_run), StepDone/StepRaises per step,
Finished, with StoreRaises for the database. `steady` remembers whether the
process was up and the scheduler free since the minute began: the code promises
a slot nothing more. `hung` is the loop spinning without ever suspending.
`Crash`/`Restart` keep the database only.

### Cron

`ValuesOf`, `CronMatches` and `SlotFor` are `_parse_field`, `matches` and
`slot_for`; a pass comes once or twice a minute. The zone is an offset for each
minute of UTC, which may change. A slot is written with its offset, and so a wall
clock minute that comes twice is two slots: OncePerMinute says that each minute
asked for is run once, which means that a job in the hour before clocks are put
back runs twice that day, and one in the hour that is skipped does not run.
`Asked` says what an expression asks for in arithmetic; both days' fields must
match, where other crons take either.

### Answer

One message: `on_message` and its `_ChannelStreamResponder` over the stream of a
provider. `run`, `made` and `children` are the child processes; `parts` is what
collect_stream has gathered; `text`, `rendered`, `messages`, `sent` the
responder's fields; `batch` and `place` the chunks it is in the middle of showing;
`channel` the bot's messages in Discord. A piece is a few tokens; a token carries
the number of the process it came from, so texts of two attempts differ.
`Piece`, `Exits`, `Lost` (late or stale), `Fails` and `SecondAttempt` (codex run
again without history) are what a process can do; `Reset` is the one retry;
`Sent`, `Edited`, `EditRefused`, `SendRefused` are Discord's answers, one call
each; `Finish` is finalize and the choice of what to send at the end; `StreamClosed` is
the generator of a turn that was given up in the middle of a yield: Python closes
it later, and only then is its process killed.

What holds of a retried turn is weaker, and AnswerShown says how: codex leaves
the first attempt's text before the answer, claude overwrites it but leaves
messages beyond the answer's length, and when the second attempt yields nothing
only the first one's text remains. Against docs/plans.md:890 (the response is
shown as it is) that is a weakness of the code, not of the model.

### ChunkText

chunk_text as its loop: `Chunk` is the call, `AddLine` a line that fits,
`CutChunk` the end of a chunk with its cut, its closing fence and the fence that
reopens the block, `LastChunk` what follows the loop. `Fits` is the odd
measure of transport.py:34-37. A symbol is a character, a newline or a fence
marker, which counts as one character too. The characters of the lines TLC cuts are
all different, so that one moved, lost or repeated shows. NothingCutOut holds of
every text: its characters are there, each once and in order, and no others. What
closes and reopens a code block is put in: the text is still found there in order,
newlines and fences of its own included (`Within`), and without code blocks nothing
else is. At the end chunks that are only newlines are dropped, so from then on this
holds but for newlines. PlainFits (length and end of the loop) is of texts without
code blocks. With code blocks neither the length (run
chunks, a finding) nor the end holds: a line that does not fit behind a reopened
fence is never made shorter (transport.py:41 cuts only when the chunk is empty),
so the loop repeats until memory ends; MaxChunks stops the model there.

### JsonStream, CodexThreads

`JsonStream` is `_JsonStreamBuffer` under `_iter_stream_records`: reads of any
size, lines, objects at the front of a buffer that grew past its limit, the tail.
`TakeLine` and `TakeObject` are one turn of the two loops, `Drain` is either loop,
as a function of the number of turns; a buffer has no more turns than symbols. What
codex writes is given as words with white space between; the reader sees only
symbols. RecordsWhole compares what comes out with the objects that went in.

`CodexThreads` follows thread ids between the database of codex, the wrappers of
two channels and their records. `ThreadOfTurn` and `ThreadOfStats` are the ways
`_latest_thread` ends: the thread itself when it is listed, a match by prompt or
time, or the first row. A wrapper without an id that is asked for /stats takes
the first row, whoever began it. That does no harm by itself, since the id counts
as history only after an answer or from a record; but /model writes it into the
record. So OwnThread holds in the passing run, with /stats or with /model, and is
broken with both (run own_thread, a finding). Only the newest 20 threads are
listed (codex.py:721): in a workspace with more, a wrapper may miss its own thread
and take another, and OwnThread and ThreadKept fail even with one command (TLC
shows it with `Listed` smaller than `MaxThreads`). The passing run and the
theorems keep to workspaces that are listed whole.

### Processes

A CLI, one helper it may have started, their pipes, and the turn that waits for
them, for each of the four ways the code waits: `gemini` (communicate),
`claude` and `codex` (read stdout, then stderr, then the exit), `tool`
(subprocess.run). `deaf` processes ignore SIGTERM; `stuck` is a CLI whose stderr
is full, `closed` the pipes the CLI has closed; `Terminates`, `HalfSecond`,
`Collected` are `_terminate_one_shot_process`. The helper may be "quiet" (holds no pipe), "tied"
(holds pipes, ends after the CLI) or "lasting" (holds pipes as long as it likes).

The deadlines do not reach every wait, and `WaitsOnOthers` lists those they do not:
claude's and codex's for stderr and the exit once stdout has ended, gemini's for its
pipes and codex's for stderr after a timeout. In them a turn may stay for good, with
its session's lock: when a CLI closes its stdout and lives on, and when a helper keeps
the pipes of a CLI that has ended, since nothing is signalled once `returncode` is
set. That is a weakness of the code where docs/plans.md:967 puts "프로세스 타임아웃"
(process timeout) against CLIs that hang. OthersReturn, in the passing run with every
helper and with pipes closed at any time, says that there is no other way: whoever
is deaf, though stderr is full, and whatever pipe is held where nobody waits for it,
a turn ends, or is in one of these waits while its CLI lives or a helper has its pipe.

### Memory

`conversations` and `jobRuns` are the files of a day by number, `holder` the
writer's lock, `target` and `draft` what a worker thread has chosen and read. A
document is a body and whether its summary ends in dashes, which makes the next
reader find the end of the header too early (`BodyOf`): the rest of the header
becomes text, and nothing said is lost. `log` and `gone` only remember: the entries
whose append has returned, and what was in removed files. Users may remove files: then numbers
come up again (writer.py:103), which EntriesKept allows as far as order goes and
FilesSplit and RunsKept exclude by NoGap.

### Interactions

`tickets` are the requests ever made, `waiting` is `_pending`, `menus` those on a
screen somebody listens to. `AskModel`, `ShowMenu` are cmd_model, `PickModel` the
callback of the menu, `CallModel`/`CallOther` any other caller of
handle_cli_command; `Answering` is `_validate_interaction_payload` up to the
first await. TicketOnce speaks of switches with a ticket; a payload with a model
and no ticket switches too, in the code and here. consume takes the ticket before
it compares, so an answer that does not match burns it; a ticket nobody answers
waits until shutdown.

### Subagents

`folder` holds the files of each root_dir, `task` where each run is. Every step
of the preparation may fail, `RemoveWorkspace` may leave files (ignore_errors),
a crash leaves the workspace for good: nothing looks for it later.

## Runs

| Run | Shows | Bounds |
|---|---|---|
| session_store | type, clean reads, acknowledged means durable, refinement, answers | 2 keys, 2 records (one codex), 2 clients, no bound on operations or crashes |
| provider_runtime | type, isolation, separate channels | 2 channels, 2 messages and a /new, 3 wrappers, 1 restart, 1 crash |
| restart_resume | finding | 1 channel, 2 messages |
| conversation | exclusion, /new, one conversation, record matches | two cases: 4 messages and a /new that overlap with messages only; 4 messages, /new, /model, /stats that do not meet |
| conversation_live | handlers end, crashes are handled | two cases: 2 messages, overlap and faults; 2 requests for the model options, faults, 1 crash, shutdown; 2 restarts, 4 wrappers |
| retry_lock | finding | 3 messages |
| jobs | all job properties | 2 jobs, 2 steps (one conditional), 2 minutes, 1 run by hand, 1 fault, 1 crash |
| parts | the properties of the nine modules of MCParts | below |
| answer_error | finding | codex |
| jobs_hang | finding | the second job malformed |
| own_thread | finding | 2 channels, 3 threads, 3 commands or cleanups |
| chunks | finding | texts of 3 lines, chunks of 6 |

Why these are enough: the registry's races need two handlers and the watchdog
on one key; a third handler adds /new; a second channel is needed only to see
state leak over. One crash and one restart beyond it reach the exhausted
counter. Four messages let one hold the lock, one wait, one arrive and one come
after a /new. Two jobs are needed for one to delay the other, two minutes for a
slot to pass.

In parts: three tokens make an answer of two Discord messages from pieces shorter
and longer than one, two refusals reach an edit whose replacement fails. Lines
are shorter and longer than a chunk of six, and three of them open, fill and
leave open a block. Outputs are all of three items, and longer ones with several
objects a line; a read returns up to three symbols and the buffer holds three, so
that objects are cut anywhere and are longer than the buffer. Two channels, two
threads and two commands let a channel see a thread of the other. Two turns of
two entries with two lines a file fill a file and start the next, one removal
makes a gap. Two handlers, two tickets and two sessions let answers race and
mismatch; two tasks of two personas meet in one. Cron's hours have three minutes,
its days three hours, so that forty minutes cover five days and both months'
ends, with clocks put back or forward.

Deadlock is checked where the program has no end (session_store); elsewhere every
handler runs once and the counters are bounded: the model stops where the program
idles, and the liveness properties say what must not stop.

`MaxWrappers`, `MaxCrashes`, `MaxClock`, `MaxManual`, `MaxFaults`, `MaxTokens`,
`MaxRefusals`, `MaxLines`, `MaxChunks`, `MaxThreads`, `MaxLooks`, `MaxRemovals`,
`MaxTickets`, `MaxRestarts` and `MaxMinute` are bounds; each appears in guards only.
`MaxRestart`, `Limit`, `BufferLimit`, `Listed` and `LineLimit` are the program's
own constants.

## Fairness

Weak fairness of each handler's steps (as a whole: which outcome an await has is
open) and of the watchdog's: timers fire, threads and awaited calls return, the
event loop runs what is ready. In `Jobs` it is weak fairness of each run's and
the scheduler's steps, unless the loop spins: a job's lock is always free again
because runs by hand are bounded, so no order of its waiters is needed. In
`Answer` a process yields, ends or meets its deadline and Discord answers; claude
has a deadline only for silence, so that it ends at all rests on MaxTokens. In
`Processes` the turn goes on when it can and its deadline comes, SIGTERM takes
effect on who is not deaf, and a tied helper ends once its CLI has; nothing makes
a CLI end or close a pipe by itself, or a lasting helper end. EveryMessageEnds of
`Answer` takes for granted that a process which ends its stream ends: the waits of
`WaitsOnOthers` are not in it.
Messages, crashes, failures and the clock are never obliged to happen.

## Proofs

* **SessionStoreProofs**: the inductive invariant adds to the type that whoever
  is past the lock is its holder and its thread does what it waits for
  (LockDiscipline), that the map on its way to the file is the cache
  (PayloadIsCache), and that a process that is down has no memory (DownIsEmpty).
  From it: TypeOK, AckedIsDurable, NoDirtyRead, and the refinement of DurableMap
  step by step.
* **ProviderRuntimeProofs**: Typed adds to the type that ids in records and in
  hands were minted and that the watchdog never finds a record (its key is
  scoped twice: LookupDoubled). Isolated is inductive with it, because a new
  wrapper has a number nobody refers to. ChannelsSeparate is inductive with Typed
  too: `Give` says what a step may hand to a channel, ids that the channel has
  already or that were minted in the step, and every action is shown to give
  nothing else.
* **ConversationProofs**: each action of Conversation is one of the registry, or
  leaves the registry but for one handler (Elsewhere, OwnFrame), so the results
  above carry over: ConvTyped, Isolated, ChannelsSeparate. On top of them:
  * FreshAfterNew rests on OldGone: an id from before a /new is Absent, that is,
    in no record, wrapper or hand of its channel. It stays so because a step gives
    a channel only what it has or what is new, which is `Hands` again; and a /new
    that meets nobody leaves nothing in hand (NewAlone).
  * Serialized rests on Calm. That two handlers have one lock is not enough, since
    the retry of a refused message drops the lock; so Calm says that no message is
    refused: a conversation the provider has is known as such to every wrapper
    that resumes it (Settled), and one a single wrapper is about to begin is in
    nobody else's hands (Private, HistoryTrue, SeenSettled, RecordsSettled).
    Without overlaps it rests on Meetings alone.
  * RecordMatches and OneConversation rest on Lone: while handlers do not meet,
    the record names the wrapper's conversation, also when the wrapper is dropped
    and rebuilt, and a refused message or a /new forgets it in both.

  The hypotheses are cases of `scenario`, inside the box, so that the theorems
  hold for every set of handlers and any number of them; the runs have a scenario
  for each, and the list under Conversation says what breaks without them.
* **SequenceLemmas**: what FlattenSeq, Keep and Found compute, for every input: of the
  empty sequence, of one more element, of two sequences joined; and where two ways
  of cutting one sequence agree. By induction on lengths.
* **AnswerProofs**: begins with lemmas on cutting an answer (Chunks). TellingInv (one child, belonging to the
  current run, and none while the wrapper is reset; an error leaves only its text
  to show) gives OneProcess and FailureShown; OutInv adds where each token is until
  the end: shown, or in the part of the batch that is still to be shown
  (PartsOut), or in the final chunks (AnswerOut), in messages that are all
  different (PostedApart); NothingLost follows. ReadInv adds how the channel reads
  after each call while Discord refuses none: claude's messages are the chunks of
  the text so far with the last of them possibly shorter (ClaudeReads), those of
  the others are what was read before with the current piece (OtherReads).
  AnswerShown and ReadInOrder follow; both are claimed without refusals only.
* **TextProofs**: ChunkText and JsonStream, whose loops must not lose anything.
  * ChunkText: ChunkTyped, then SaidInv: the characters in the chunks, in the one
    being filled and in what is not yet taken are, one after the other, those of the
    text. Fences may be added, characters not; a chunk that is dropped at the end has
    none. PlainInv says of a text without fences that each chunk made so far fits
    and that a symbol is left for every chunk there may still be; PlainFits follows:
    the length, and that the loop ends. Since no fence is open then, nothing is added
    where a chunk ends, and ExactInv is inductive: chunks, current and the rest are
    the text. With code blocks PutInv takes its place: the text is a beginning and
    the rest, and the beginning is found in chunks and current. A step that moves a
    piece from the rest to what is made moves it from one to the other (PutMore);
    what is put in behind it takes nothing back (PutStays). That Found goes on where
    it was is by induction on lengths (FoundMore, FoundStays). The three give
    NothingCutOut.
  * JsonStream: StreamTyped says that what was read and what is unread are the
    output. InkInv follows the symbols that are not white space: those of the
    records, the buffer and what is unread are those of the output, in that order.
    FrameInv follows the objects of an output that is framed: buffer and unread
    text are together an output that is framed again, and its objects after the
    records are all there are (Reads). That a turn of a loop takes
    exactly the first object (FirstTaken) needs that the end of an object is
    determined by its braces, wherever the buffer is cut, and that white space put
    back as spaces changes no object. RecordsWhole follows.
* **PartsProofs**: the other modules of MCParts, and MCParts.
  * Cron: the values a part lists are those it asks for (PartsAsk, with the
    arithmetic of quotients it needs), and two minutes never have the same slot
    (SlotsApart: wall minus offset is the minute). With SlotsKept, that slots are
    those of their minutes, OncePerMinute is inductive.
  * CodexThreads: ThreadsTyped adds that a turn's wrapper is registered. While all
    threads are listed a wrapper with an id finds it (TurnLooks, StatsLooks), so
    Following is inductive: a channel with a saved message has that thread as
    history in its wrapper or its record. For OwnThread, Owned: a thread that
    counts as history is the channel's own, and so is the one in its record.
  * Memory: Chosen says that whoever has the lock has chosen the file and read
    the body that are there now, Filed that what a turn appends next is nowhere
    yet, that no file is without an entry and that numbers have no gap before a
    removal. That a number is always free needs a count: each file has an entry
    the next one is not among (SelectFileTyped). With both, EntriesKept is
    inductive, and FilesSplit and RunsKept are properties of a step.
  * Interactions: a ticket waits, or one handler has it, or one switch was made with
    it, and it never comes back (TicketsInPlace, TicketsApart). TicketOnce alone is
    not inductive: two handlers with one ticket would both switch.
  * Subagents: a task works in the directory of its own name (OwnRoot), which holds
    what the steps before its stage have put there (FilesPrepared), and its CLI runs
    only in between (WholeWhileRunning); WorkspaceOwned follows.
  * Processes: types only, with ProcessTyped, that nothing lives before the CLI is
    started: whoever has a SIGTERM coming lives.
  * MCParts: a step is one of a single component and leaves the variables of the
    others alone (OneAtATime); so PartsSpec implies the specification of each
    component, and PartsTypeOK is the conjunction of nine theorems.
* **JobsProofs**: LockHeld, RunKept, SlotFree (what has_run_for_slot said still
  holds at start_run, since only the holder of the lock inserts) and StepsKept
  give OncePerSlot, RunsExclude and SucceededIsComplete.

Assumptions are the named ASSUMEs of the modules: the special values are
distinct from the others, the bounds are naturals, turns and runs of a day are
finitely many, the numbers in cron expressions have no sign, a scoped key is not a
channel id. TLC evaluates them in every run. Two theorems of CodexThreads assume
`MaxThreads <= Listed` besides.

Induction over numbers and lengths is done on sets, or through the smallest number
that fails (WFMin of the library), where the induction theorems of the library ask
for an operator as parameter.

Only model-checked are the liveness properties, since the prover has no ENABLED:
EveryMessageEnds and OthersReturn (parts), EverySlotRun and PassEnds (jobs), EveryTurnEnds
and CrashHandled (conversation_live), Answered (session_store). Every other invariant and every action
property of a passing run is a theorem, some of them under the hypotheses named above.

No module here declares a recursive operator.

## Not modelled

* `memory/snapshot.py` and `resume_context.py`: the snapshot is overwritten with
  each turn, without a lock, and nothing that runs reads it (resume_context has
  no caller), so no behaviour depends on it. Its text is scoring and wording.
* The persistent and PTY modes of `subprocess_cli.py` (106-430): the factory
  makes no wrapper that uses them.
* The parsing of what claude, codex and gemini print, and of the logs they keep,
  beyond JsonStream and CodexThreads.
* `memory/search.py`: a stateless ranking. `config`, `skills`, loaders, command
  routing: read or parsed once, no state. Logging. The setup scripts, which are
  not part of the running program. The discord library.
* `register_job` during a pass (the jobs are fixed once the application is
  built), zone names that do not exist, the start and close of the Discord
  clients, cancellation of a handler by the gateway.
* No `on_crash` is passed in application/app.py:209-212, so restarts are silent
  (against docs/plans.md:414), which is the model's reading too.

## Plan

1. The start and close of the gateway's clients with the application's shutdown,
   while handlers are at work.
