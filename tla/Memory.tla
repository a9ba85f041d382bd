------------------------------- MODULE Memory -------------------------------
(***************************************************************************)
(* memory/writer.py with frontmatter.py: the Markdown memory of an agent.  *)
(* Every turn of every channel appends its two entries to the day's last   *)
(* conversation file, and every job run writes a file of its own; files    *)
(* are read and written whole, in worker threads, under one lock.  Users   *)
(* may remove files by hand, and the process may die between two steps.    *)
(*                                                                         *)
(* A document is a header and a body.  Of the header only that matters     *)
(* that a summary may end with dashes: split_frontmatter, which cuts at    *)
(* "---" wherever a line ends with it, then finds the end of the header    *)
(* there, and what is left of it in the body.  A day is modelled; a new    *)
(* one starts in an empty directory.                                       *)
(***************************************************************************)
EXTENDS Naturals, Sequences, SequencesExt, FiniteSets

CONSTANTS
  Turns,         \* the turns of the agent's channels
  Runs,          \* the job's runs
  LineLimit,     \* line_limit, in parts of a body
  MaxRemovals    \* bound: files removed by hand

NoWriter == "nobody"

ASSUME MemoryAssumption ==
  /\ LineLimit \in Nat \ {0} /\ MaxRemovals \in Nat
  /\ IsFiniteSet(Turns) /\ IsFiniteSet(Runs)
  /\ Turns \cap Runs = {} /\ NoWriter \notin Turns \cup Runs

Roles == {"user", "assistant"}
Entry == Turns \X Roles
Litter == <<"---", "rest of a header">>
Numbers == 1..(2 * Cardinality(Turns) + Cardinality(Runs))
Absent == [body |-> <<>>, dashed |-> FALSE, there |-> FALSE]

VARIABLES
  conversations,   \* conversation_NNN.md: a document for each number
  jobRuns,         \* run_NNN.md: the run written there, or NoWriter
  holder,          \* who has MemoryWriter._lock
  target,          \* the file a writer has chosen, 0 without one
  draft,           \* the body it will write there
  next,            \* what a turn appends next: a role, "done" or "failed"
  log,             \* the entries whose append has returned
  gone,            \* what was in files that were removed
  removals

memoryVars ==
  <<conversations, jobRuns, holder, target, draft, next, log, gone, removals>>

MemoryInit ==
  /\ conversations = [n \in Numbers |-> Absent]
  /\ jobRuns = [n \in Numbers |-> NoWriter]
  /\ holder = NoWriter
  /\ target = [w \in Turns \cup Runs |-> 0]
  /\ draft = [t \in Turns |-> <<>>]
  /\ next = [t \in Turns \cup Runs |-> "user"]
  /\ log = <<>> /\ gone = {} /\ removals = 0

-----------------------------------------------------------------------------
DayFiles == {n \in Numbers : conversations[n].there}
RunFiles == {n \in Numbers : jobRuns[n] # NoWriter}
LastOf(S) == CHOOSE n \in S : \A m \in S : m <= n

\* A mutant: one entry more fits.
SelectFileLate ==
  IF DayFiles = {} THEN 1
  ELSE IF Len(conversations[LastOf(DayFiles)].body) > LineLimit THEN Cardinality(DayFiles) + 1
  ELSE LastOf(DayFiles)

\* _select_file.  The next number is the count of the files.
SelectFile ==
  IF DayFiles = {} THEN 1
  ELSE IF Len(conversations[LastOf(DayFiles)].body) >= LineLimit THEN Cardinality(DayFiles) + 1
  ELSE LastOf(DayFiles)

\* A mutant: the number of the last file.
SelectRunFileLast == IF RunFiles = {} THEN 1 ELSE LastOf(RunFiles)

\* _select_prefixed_file.
SelectRunFile == Cardinality(RunFiles) + 1

\* split_frontmatter.
BodyOf(document) ==
  IF document.dashed THEN <<Litter>> \o document.body ELSE document.body

-----------------------------------------------------------------------------
\* append_message: lock, choose, read; then a temporary file is written, which
\* os.replace puts in place.

Writing == holder # NoWriter

\* A mutant: the lock is not waited for.
StartAppendUnlocked(t) ==
  /\ next[t] \in Roles
  /\ holder' = t
  /\ target' = [target EXCEPT ![t] = SelectFile]
  /\ draft' = [draft EXCEPT ![t] = Append(BodyOf(conversations[SelectFile]), <<t, next[t]>>)]
  /\ UNCHANGED <<conversations, jobRuns, next, log, gone, removals>>

StartAppend(t) ==
  /\ next[t] \in Roles /\ ~Writing
  /\ holder' = t
  /\ target' = [target EXCEPT ![t] = SelectFile]
  /\ draft' = [draft EXCEPT ![t] = Append(BodyOf(conversations[SelectFile]), <<t, next[t]>>)]
  /\ UNCHANGED <<conversations, jobRuns, next, log, gone, removals>>

\* Writers leave the lock.
LeavesLock(W) ==
  /\ holder' = IF holder \in W THEN NoWriter ELSE holder
  /\ target' = [w \in Turns \cup Runs |-> IF w \in W THEN 0 ELSE target[w]]
  /\ draft' = [t \in Turns |-> IF t \in W THEN <<>> ELSE draft[t]]

\* handle_user_message appends the question, then the answer.
Appended(t) ==
  /\ target[t] # 0
  /\ \E dashed \in BOOLEAN :
       conversations' = [conversations EXCEPT ![target[t]] =
                           [body |-> draft[t], dashed |-> dashed, there |-> TRUE]]
  /\ log' = Append(log, <<t, next[t]>>)
  /\ next' = [next EXCEPT ![t] = IF @ = "user" THEN "assistant" ELSE "done"]
  /\ LeavesLock({t})
  /\ UNCHANGED <<jobRuns, gone, removals>>

\* write_job_run, for the memory.persist step of a job.
StartRun(r) ==
  /\ next[r] = "user" /\ ~Writing
  /\ holder' = r /\ target' = [target EXCEPT ![r] = SelectRunFile]
  /\ UNCHANGED <<conversations, jobRuns, draft, next, log, gone, removals>>

RunWritten(r) ==
  /\ target[r] # 0
  /\ jobRuns' = [jobRuns EXCEPT ![target[r]] = r]
  /\ next' = [next EXCEPT ![r] = "done"]
  /\ LeavesLock({r})
  /\ UNCHANGED <<conversations, log, gone, removals>>

\* The disk refuses: the exception ends the turn, a question may stay without
\* its answer.
WriteFails(w) ==
  /\ target[w] # 0
  /\ next' = [next EXCEPT ![w] = "failed"]
  /\ LeavesLock({w})
  /\ UNCHANGED <<conversations, jobRuns, log, gone, removals>>

\* The process dies, with the turns at work; a temporary file may stay, which
\* no reader looks at.
WriterDies ==
  \E W \in SUBSET {w \in Turns \cup Runs : next[w] \in Roles} :
    /\ W # {} /\ {w \in Turns \cup Runs : target[w] # 0 \/ next[w] = "assistant"} \subseteq W
    /\ next' = [w \in Turns \cup Runs |-> IF w \in W THEN "failed" ELSE next[w]]
    /\ LeavesLock(W)
    /\ UNCHANGED <<conversations, jobRuns, log, gone, removals>>

RemoveFile(n) ==
  /\ ~Writing /\ removals < MaxRemovals /\ n \in DayFiles
  /\ conversations' = [conversations EXCEPT ![n] = Absent]
  /\ gone' = gone \cup ToSet(conversations[n].body)
  /\ removals' = removals + 1
  /\ UNCHANGED <<jobRuns, holder, target, draft, next, log>>

RemoveRun(n) ==
  /\ ~Writing /\ removals < MaxRemovals /\ n \in RunFiles
  /\ jobRuns' = [jobRuns EXCEPT ![n] = NoWriter]
  /\ removals' = removals + 1
  /\ UNCHANGED <<conversations, holder, target, draft, next, log, gone>>

MemoryNext ==
  \/ \E t \in Turns : StartAppend(t) \/ Appended(t)
  \/ \E r \in Runs : StartRun(r) \/ RunWritten(r)
  \/ \E w \in Turns \cup Runs : WriteFails(w)
  \/ WriterDies
  \/ \E n \in Numbers : RemoveFile(n) \/ RemoveRun(n)

-----------------------------------------------------------------------------
MemoryTypeOK ==
  /\ \A n \in Numbers :
       /\ ToSet(conversations[n].body) \subseteq Entry \cup {Litter}
       /\ jobRuns[n] \in Runs \cup {NoWriter}
  /\ holder \in Turns \cup Runs \cup {NoWriter}
  /\ next \in [Turns \cup Runs -> Roles \cup {"done", "failed"}]

Body(n) == conversations[n].body
NoGap(S) == S = 1..Cardinality(S)

\* docs/plans.md:20: "모든 대화 기록은 마크다운 파일로 영구 저장되어" (kept for
\* good).  Every entry whose append returned is there once, unless its file was
\* removed, and nothing else is, through crashes, other turns and summaries that
\* break their header; and while no file was removed the files hold the entries
\* in the order of the appends.
EntriesKept ==
  /\ \A e \in ToSet(log) \ gone : \E n \in Numbers : e \in ToSet(Body(n))
  /\ \A n \in Numbers : \A i \in DOMAIN Body(n) : Body(n)[i] # Litter =>
       /\ Body(n)[i] \in ToSet(log) \ gone
       /\ \A m \in Numbers : \A j \in DOMAIN Body(m) :
            Body(m)[j] = Body(n)[i] => m = n /\ j = i
  /\ removals = 0 =>
       \A a, b \in DOMAIN log : \A n, m \in Numbers :
         \A i \in DOMAIN Body(n) : \A j \in DOMAIN Body(m) :
           log[a] = Body(n)[i] /\ log[b] = Body(m)[j] /\ a < b => n < m \/ (n = m /\ i < j)

\* docs/plans.md:306: "새 파일로 분할된다".  No file takes an entry when it is
\* full already, unless a file before it was removed.
FilesSplit ==
  [][\A n \in Numbers :
       /\ NoGap(DayFiles) /\ conversations'[n].there
       /\ Len(conversations'[n].body) > Len(conversations[n].body)
       => Len(conversations[n].body) < LineLimit]_memoryVars

\* writer.py:112-115: a run's document is not overwritten by a later run's,
\* unless a file before it was removed.
RunsKept ==
  [][NoGap(RunFiles) => \A n \in RunFiles : jobRuns'[n] \in {jobRuns[n], NoWriter}]_memoryVars
=============================================================================
