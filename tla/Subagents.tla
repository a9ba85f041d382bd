----------------------------- MODULE Subagents -----------------------------
(***************************************************************************)
(* core/subagents.py, SubagentRuntime.run, and memory/init_docs.py: a job  *)
(* step or a tool call hands a task to a subagent, an agent made for one   *)
(* task with a workspace of its own below that of its parent, which is     *)
(* removed when the task is over, however it ends.  Tasks overlap, of one  *)
(* persona too.                                                            *)
(*                                                                         *)
(* The files of a workspace are what other steps look for: its two         *)
(* directories as one, the persona and the document the CLI reads first,   *)
(* materialize_init_doc's.  How a CLI process ends is in Processes.        *)
(***************************************************************************)
EXTENDS Naturals, FiniteSets

CONSTANTS
  Tasks,
  Personas,      \* persona files that exist
  MaxCrashes     \* bound: deaths of the program

ASSUME SubagentAssumption == MaxCrashes \in Nat /\ Personas # {}

Files == {"directories", "persona", "init doc"}

VARIABLES
  task,       \* where each call of run is
  persona,    \* whose task it is
  root,       \* the name of its root_dir
  folder,     \* the files below each root_dir
  clis,       \* tasks whose CLI process runs
  remains,    \* tasks whose rmtree has not removed all it found
  crashes

subagentVars == <<task, persona, root, folder, clis, remains, crashes>>

NoRoot == "no root"

SubagentInit ==
  /\ task = [k \in Tasks |-> "idle"]
  /\ persona = [k \in Tasks |-> CHOOSE p \in Personas : TRUE]
  /\ root = [k \in Tasks |-> NoRoot]
  /\ folder = [r \in Tasks \cup Personas |-> {}]
  /\ clis = {} /\ remains = {}
  /\ crashes = 0

Goes(k, s) == task' = [task EXCEPT ![k] = s]

-----------------------------------------------------------------------------
\* A mutant: the directory is called after the persona.
RootOfPersona(k, p) == p

\* run_id is a new uuid.
RootOf(k, p) == k

\* The persona is read and runtime_dir made; a name that is not found, or a
\* file that cannot be read, ends the call before there is anything to remove.
CallSubagent(k, p) ==
  /\ task[k] = "idle"
  /\ Goes(k, "directories")
  /\ persona' = [persona EXCEPT ![k] = p]
  /\ root' = [root EXCEPT ![k] = RootOf(k, p)]
  /\ UNCHANGED <<folder, clis, remains, crashes>>

UnknownPersona(k) ==
  /\ task[k] = "idle"
  /\ Goes(k, "failed")
  /\ UNCHANGED <<persona, root, folder, clis, remains, crashes>>

After(f) ==
  CASE f = "directories" -> "persona"
    [] f = "persona" -> "init doc"
    [] OTHER -> "starting"

\* The files are written one after another; the last step makes the wrapper.
Prepare(k) ==
  /\ task[k] \in Files
  /\ folder' = [folder EXCEPT ![root[k]] = @ \cup {task[k]}]
  /\ Goes(k, After(task[k]))
  /\ UNCHANGED <<persona, root, clis, remains, crashes>>

\* The stream of send_user_message: it starts the CLI process,
StartTask(k) ==
  /\ task[k] = "starting"
  /\ clis' = clis \cup {k}
  /\ Goes(k, "streaming")
  /\ UNCHANGED <<persona, root, folder, remains, crashes>>

\* and has ended it when it ends, answers or raises (the deadline, an error, or
\* a cancellation; but for a codex cancelled when its output had ended).
TaskAnswered(k) ==
  /\ task[k] = "streaming"
  /\ clis' = clis \ {k}
  /\ Goes(k, "removing answered")
  /\ UNCHANGED <<persona, root, folder, remains, crashes>>

\* Anything fails: a file, the wrapper's making, the CLI.  wrapper.stop()
\* follows where there is a wrapper, then the workspace goes all the same.
TaskBreaks(k) ==
  /\ task[k] \in Files \cup {"starting", "streaming"}
  /\ clis' = clis \ {k}
  /\ Goes(k, "removing failed")
  /\ UNCHANGED <<persona, root, folder, remains, crashes>>

\* shutil.rmtree ignores errors: what cannot be removed stays.
RemoveWorkspace(k) ==
  /\ task[k] \in {"removing answered", "removing failed"}
  /\ \E left \in SUBSET folder[root[k]] :
       /\ folder' = [folder EXCEPT ![root[k]] = left]
       /\ remains' = IF left = {} THEN remains ELSE remains \cup {k}
  /\ Goes(k, IF task[k] = "removing answered" THEN "answered" ELSE "failed")
  /\ UNCHANGED <<persona, root, clis, crashes>>

\* The program dies: its workspaces stay, and nothing looks for them later.
\* The CLI processes have sessions of their own and go on.
CrashSubagents ==
  /\ crashes < MaxCrashes
  /\ \E k \in Tasks : task[k] \notin {"idle", "answered", "failed"}
  /\ crashes' = crashes + 1
  /\ task' = [k \in Tasks |->
       IF task[k] \in {"idle", "answered", "failed"} THEN task[k] ELSE "crashed"]
  /\ UNCHANGED <<persona, root, folder, clis, remains>>

\* An orphan ends.
OrphanEnds(k) ==
  /\ task[k] = "crashed" /\ k \in clis
  /\ clis' = clis \ {k}
  /\ UNCHANGED <<task, persona, root, folder, remains, crashes>>

SubagentNext ==
  \/ \E k \in Tasks :
       \/ \E p \in Personas : CallSubagent(k, p)
       \/ UnknownPersona(k) \/ Prepare(k) \/ StartTask(k) \/ TaskAnswered(k)
       \/ TaskBreaks(k) \/ RemoveWorkspace(k) \/ OrphanEnds(k)
  \/ CrashSubagents

SubagentSpec == SubagentInit /\ [][SubagentNext]_subagentVars

-----------------------------------------------------------------------------
SubagentTypeOK ==
  /\ task \in [Tasks -> Files \cup {"idle", "starting", "streaming", "removing answered",
                                    "removing failed", "answered", "failed", "crashed"}]
  /\ persona \in [Tasks -> Personas]
  /\ root \in [Tasks -> Tasks \cup Personas \cup {NoRoot}]
  /\ folder \in [Tasks \cup Personas -> SUBSET Files]
  /\ clis \subseteq Tasks

\* core/subagents.py:141, 195: while a subagent's CLI works its workspace is
\* whole, whatever tasks of the same persona end meanwhile; and once a task is
\* over none of it is left, but for what could not be removed.
WorkspaceOwned ==
  \A k \in Tasks :
    /\ k \in clis => folder[root[k]] = Files
    /\ task[k] \in {"answered", "failed"} /\ root[k] # NoRoot /\ k \notin remains =>
         k \notin clis /\ folder[root[k]] = {}
=============================================================================
