---------------------------- MODULE CodexThreads ----------------------------
(***************************************************************************)
(* providers/codex.py under the handlers of one agent: which codex thread  *)
(* the messages of a channel go to.  Codex keeps the threads of a          *)
(* workspace in a database of its own; all channels of an agent share the  *)
(* workspace.  After an answer, and for /stats, the wrapper looks for its  *)
(* thread there to learn the model, and takes what it finds for its own    *)
(* (_refresh_resolved_model_from_rollout, _latest_thread).                 *)
(*                                                                         *)
(* The handlers of one channel run one after another, those of different   *)
(* channels in any order; the registry's own races are ProviderRuntime's.  *)
(* Threads are numbered as they are begun; 0 is the empty id.              *)
(***************************************************************************)
EXTENDS Naturals, Sequences, SequencesExt, FiniteSets

CONSTANTS
  Callers,     \* channels of the agent
  Uses,        \* which of the commands "stats" and "model" are used: the cases
  NoThread,    \* no session record
  Listed,      \* rows _latest_thread asks for
  MaxThreads,  \* bound: threads of the workspace
  MaxLooks     \* bound: commands, /new, idle cleanups and restarts

ASSUME ThreadsAssumption ==
  /\ Uses \subseteq SUBSET {"stats", "model"}
  /\ NoThread \notin Nat
  /\ Listed \in Nat \ {0} /\ MaxThreads \in Nat /\ MaxLooks \in Nat

VARIABLES
  use,       \* the commands used
  threads,   \* the database: thread ids, the one updated last in front
  \* the wrappers, one a channel
  live,      \* channels whose wrapper is registered
  id,        \* provider_session_id
  history,   \* those with _has_history
  pending,   \* those with _exact_model_pending_since
  stirred,   \* of these, those since which some thread was updated
  \* sessions.json and the handlers
  record,
  turn,      \* "idle", "running", "answered"
  tries,     \* channels whose message was sent once more
  \* what the properties remember
  owner,     \* the channel that began a thread
  at,        \* the thread a channel's message went to, 0 without a message
  kept,      \* the thread of a channel's last message that was saved, or 0
  looks

database == <<use, threads>>
codexWrappers == <<live, id, history, pending, stirred>>
threadMemory == <<owner, at, kept>>
threadVars == <<database, codexWrappers, record, turn, tries, threadMemory, looks>>

ThreadsInit ==
  /\ use \in Uses
  /\ threads = <<>>
  /\ live = {} /\ history = {} /\ pending = {} /\ stirred = {}
  /\ id = [c \in Callers |-> 0]
  /\ record = [c \in Callers |-> NoThread]
  /\ turn = [c \in Callers |-> "idle"] /\ tries = {}
  /\ owner = <<>>
  /\ at = [c \in Callers |-> 0] /\ kept = [c \in Callers |-> 0]
  /\ looks = 0

-----------------------------------------------------------------------------
\* ensure_wrapper: a wrapper is made from the record.  An id of a record is
\* history, an empty one is not.

Stored(c) == IF record[c] = NoThread THEN 0 ELSE record[c]
IdOf(c) == IF c \in live THEN id[c] ELSE Stored(c)
HistoryOf(c) == IF c \in live THEN c \in history ELSE Stored(c) # 0
PendingOf(c) == c \in live /\ c \in pending

With(S, c, yes) == IF yes THEN S \cup {c} ELSE S \ {c}

\* Codex updates thread t.
Touch(t) ==
  threads' = <<t>> \o IF t \in ToSet(threads)
                     THEN RemoveAt(threads, CHOOSE i \in DOMAIN threads : threads[i] = t)
                     ELSE threads

\* A run of codex for c: it resumes thread t or begins it.  thread.started is
\* the first thing it prints, and the wrapper takes the id from it.
Run(c, t) ==
  /\ Touch(t)
  /\ id' = [id EXCEPT ![c] = t]
  /\ stirred' = pending'
  /\ owner' = IF t > Len(owner) THEN Append(owner, c) ELSE owner
  /\ at' = [at EXCEPT ![c] = t]

NewThread == Len(owner) + 1

\* _build_command: `resume` with an id and history, a new thread otherwise; a
\* thread that is gone, or whose stream breaks off, is given up and the
\* message sent once more without it.
Send(c) ==
  LET t == IdOf(c) IN
  /\ turn[c] = "idle"
  /\ live' = live \cup {c}
  /\ pending' = With(pending, c, PendingOf(c))
  /\ record' = [record EXCEPT ![c] = IF c \in live THEN @ ELSE t]
  /\ \/ /\ HistoryOf(c) /\ t # 0
        /\ history' = history \cup {c} /\ tries' = tries \ {c}
        /\ Run(c, t)
     \/ /\ HistoryOf(c) /\ t # 0 /\ NewThread <= MaxThreads
        /\ history' = history \ {c} /\ tries' = tries \cup {c}
        /\ Run(c, NewThread)
     \/ /\ ~(HistoryOf(c) /\ t # 0) /\ NewThread <= MaxThreads
        /\ history' = With(history, c, HistoryOf(c)) /\ tries' = tries \ {c}
        /\ Run(c, NewThread)
  /\ turn' = [turn EXCEPT ![c] = "running"]
  /\ UNCHANGED <<use, kept, looks>>

-----------------------------------------------------------------------------
\* _latest_thread: the thread t when it is listed.  If not, a message takes the
\* first row that began with the same words (any may), or the first; /stats
\* takes the first row, unless it waits for one that is newer than the last
\* /model.
Rows == SubSeq(threads, 1, IF Listed < Len(threads) THEN Listed ELSE Len(threads))

ThreadOfTurn(t) ==
  IF t \in ToSet(Rows) THEN {t} ELSE ToSet(Rows)

ThreadOfStats(t, waits) ==
  IF t \in ToSet(Rows) THEN {t}
  ELSE IF waits \/ Rows = <<>> THEN {} ELSE {Rows[1]}

\* The wrapper takes thread t for its own; 0, or a rollout that names no model
\* yet, changes nothing.
Adopt(c, before, t) == id' = [id EXCEPT ![c] = IF t = 0 THEN before ELSE t]

\* Codex ends with 0.
AnswerRead(c) ==
  /\ turn[c] = "running"
  /\ \E t \in {0} \cup ThreadOfTurn(id[c]) :
       /\ Adopt(c, id[c], t)
       /\ pending' = With(pending, c, c \in pending /\ t = 0)
  /\ history' = With(history, c, id'[c] # 0)
  /\ turn' = [turn EXCEPT ![c] = "answered"]
  /\ UNCHANGED <<database, live, stirred, record, tries, threadMemory, looks>>

EndTurn(C) ==
  /\ turn' = [c \in Callers |-> IF c \in C THEN "idle" ELSE turn[c]]
  /\ at' = [c \in Callers |-> IF c \in C THEN 0 ELSE at[c]]
  /\ tries' = tries \ C

\* A mutant: the record is written when a wrapper is made, and only then.
SaveNothing(c) ==
  /\ turn[c] = "answered"
  /\ kept' = [kept EXCEPT ![c] = at[c]]
  /\ EndTurn({c})
  /\ UNCHANGED <<database, codexWrappers, record, owner, looks>>

\* The upsert at the end of the turn.
Save(c) ==
  /\ turn[c] = "answered"
  /\ record' = [record EXCEPT ![c] = id[c]]
  /\ kept' = [kept EXCEPT ![c] = at[c]]
  /\ EndTurn({c})
  /\ UNCHANGED <<database, codexWrappers, owner, looks>>

\* Codex fails or the deadline passes, or something after the answer does.
\* What the wrapper has learnt it keeps.
TurnBreaks(c) ==
  /\ turn[c] # "idle"
  /\ EndTurn({c})
  /\ kept' = [kept EXCEPT ![c] = 0]
  /\ UNCHANGED <<database, codexWrappers, record, owner, looks>>

-----------------------------------------------------------------------------
Look == looks < MaxLooks /\ looks' = looks + 1

\* A mutant: what /stats finds is history.
StatsIsHistory(c) ==
  /\ "stats" \in use /\ turn[c] = "idle" /\ Look
  /\ live' = live \cup {c}
  /\ record' = [record EXCEPT ![c] = IF c \in live THEN @ ELSE IdOf(c)]
  /\ \E t \in {0} \cup ThreadOfStats(IdOf(c), PendingOf(c) /\ c \notin stirred) :
       /\ Adopt(c, IdOf(c), t)
       /\ pending' = With(pending, c, PendingOf(c) /\ t = 0)
  /\ history' = With(history, c, id'[c] # 0)
  /\ UNCHANGED <<database, stirred, turn, tries, threadMemory>>

\* /stats.
Stats(c) ==
  /\ "stats" \in use /\ turn[c] = "idle" /\ Look
  /\ live' = live \cup {c}
  /\ history' = With(history, c, HistoryOf(c))
  /\ record' = [record EXCEPT ![c] = IF c \in live THEN @ ELSE IdOf(c)]
  /\ \E t \in {0} \cup ThreadOfStats(IdOf(c), PendingOf(c) /\ c \notin stirred) :
       /\ Adopt(c, IdOf(c), t)
       /\ pending' = With(pending, c, PendingOf(c) /\ t = 0)
  /\ UNCHANGED <<database, stirred, turn, tries, threadMemory>>

\* /model: the exact model is unknown until a thread is seen that was updated
\* later, or up to five seconds before; the id stays, and goes into the record
\* with the model.
Model(c) ==
  /\ "model" \in use /\ turn[c] = "idle" /\ Look
  /\ live' = live \cup {c}
  /\ history' = With(history, c, HistoryOf(c))
  /\ id' = [id EXCEPT ![c] = IdOf(c)]
  /\ record' = [record EXCEPT ![c] = IdOf(c)]
  /\ pending' = pending \cup {c}
  /\ stirred' \in {stirred \ {c}, stirred \cup {c}}
  /\ UNCHANGED <<database, turn, tries, threadMemory>>

\* stop(), then the wrapper is forgotten.
Dismiss(C) ==
  /\ live' = live \ C /\ history' = history \ C
  /\ pending' = pending \ C /\ stirred' = stirred \ C
  /\ id' = [c \in Callers |-> IF c \in C THEN 0 ELSE id[c]]

\* The watchdog finds the channel idle: its record stays.
IdleCleanup(c) ==
  /\ c \in live /\ turn[c] = "idle" /\ Look
  /\ Dismiss({c})
  /\ UNCHANGED <<database, record, turn, tries, threadMemory>>

NewSession(c) ==
  /\ turn[c] = "idle" /\ Look
  /\ Dismiss({c})
  /\ record' = [record EXCEPT ![c] = NoThread]
  /\ kept' = [kept EXCEPT ![c] = 0]
  /\ UNCHANGED <<database, turn, tries, owner, at>>

\* The process ends; build_app deletes the records of codex before anything
\* else.
RestartApp ==
  /\ live # {} /\ Look
  /\ Dismiss(Callers)
  /\ record' = [c \in Callers |-> NoThread]
  /\ kept' = [c \in Callers |-> 0]
  /\ EndTurn(Callers)
  /\ UNCHANGED <<database, owner>>

ThreadsNext ==
  \/ \E c \in Callers :
       \/ Send(c) \/ AnswerRead(c) \/ Save(c) \/ TurnBreaks(c)
       \/ Stats(c) \/ Model(c) \/ IdleCleanup(c) \/ NewSession(c)
  \/ RestartApp

ThreadsSpec == ThreadsInit /\ [][ThreadsNext]_threadVars

-----------------------------------------------------------------------------
ThreadsTypeOK ==
  /\ IsInjective(threads) /\ ToSet(threads) = 1..Len(owner)
  /\ owner \in Seq(Callers) /\ Len(owner) <= MaxThreads
  /\ live \subseteq Callers /\ tries \subseteq Callers
  /\ history \subseteq live /\ pending \subseteq live
  /\ id \in [Callers -> 0..Len(owner)]
  /\ record \in [Callers -> 0..Len(owner) \cup {NoThread}]
  /\ turn \in [Callers -> {"idle", "running", "answered"}]

\* README.md:9: "Discord DM/채널별 대화 세션 유지" (each channel has its own
\* conversation).  Codex never gets a channel's message in a thread another
\* channel began, whichever threads /stats and the answers were seen in.
OwnThread ==
  \A c \in Callers : turn[c] # "idle" => owner[at[c]] = c

\* docs/plans.md:711-712: without a /new or a restart of the service a message
\* follows the last one that was saved, through idle cleanups and commands,
\* into the same thread, unless codex gave that up.
ThreadKept ==
  \A c \in Callers :
    turn[c] = "running" /\ kept[c] # 0 /\ c \notin tries => at[c] = kept[c]
=============================================================================
