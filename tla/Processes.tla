----------------------------- MODULE Processes -----------------------------
(***************************************************************************)
(* How a turn gets rid of its CLI process: the one-shot runner and         *)
(* _terminate_one_shot_process of providers/subprocess_cli.py ("gemini"),  *)
(* the stream readers of claude.py and codex.py, and the subprocess.run of *)
(* tools/loader.py ("tool").                                               *)
(*                                                                         *)
(* The CLI may start a helper, a process of its own that shares its        *)
(* process group and may share its pipes, and may close its own ends of    *)
(* them while it goes on.  A pipe is at its end when no process holds it;  *)
(* the exit status is there when the CLI is dead.  A process may be deaf   *)
(* to SIGTERM, none is to SIGKILL.                                         *)
(***************************************************************************)
EXTENDS Naturals, FiniteSets

CONSTANTS
  Runners,   \* of "gemini", "claude", "codex", "tool"
  Helpers    \* the helpers there may be: of "quiet" (holds no pipe), "tied"
             \* (holds pipes and ends after the CLI), "lasting" (holds pipes)

ASSUME ProcessAssumption ==
  /\ Runners \subseteq {"gemini", "claude", "codex", "tool"}
  /\ Helpers \subseteq {"quiet", "tied", "lasting"}

Cli == "cli"
Helper == "helper"
Pipes == {"stdout", "stderr"}

VARIABLES
  runner,
  step,     \* where the turn is
  living,   \* processes that have not ended
  closed,   \* the pipes the CLI has closed
  helper,   \* what the helper is like, "none" before there is one
  held,     \* the pipes the helper holds
  deaf,     \* processes that ignore SIGTERM
  doomed,   \* processes that have been sent one and do not
  stuck     \* is the CLI waiting for room in its stderr?

processVars == <<runner, step, living, closed, helper, held, deaf, doomed, stuck>>

ProcessInit ==
  /\ runner \in Runners
  /\ step = "idle"
  /\ living = {} /\ closed = {} /\ helper = "none" /\ held = {}
  /\ deaf \in SUBSET {Cli, Helper} /\ doomed = {}
  /\ stuck = FALSE

\* Whether the helper keeps one of these pipes.
Kept(P) == Helper \in living /\ held \cap P # {}

AtEnd(pipe) == (Cli \in living => pipe \in closed) /\ ~Kept({pipe})

To(s) == step' = s

Leave(P) == living' = living \ P /\ doomed' = doomed \ P

-----------------------------------------------------------------------------
\* The CLI and its helper.

StartCli ==
  /\ step = "idle"
  /\ living' = {Cli}
  /\ To("reading")
  /\ UNCHANGED <<runner, closed, helper, held, deaf, doomed, stuck>>

StartHelper(h) ==
  /\ Cli \in living /\ helper = "none" /\ ~stuck
  /\ helper' = h
  /\ living' = living \cup {Helper}
  /\ held' \in IF h = "quiet" THEN {{}} ELSE SUBSET (Pipes \ closed) \ {{}}
  /\ UNCHANGED <<runner, step, closed, deaf, doomed, stuck>>

CliCloses(pipe) ==
  /\ Cli \in living /\ ~stuck /\ pipe \notin closed
  /\ closed' = closed \cup {pipe}
  /\ UNCHANGED <<runner, step, living, helper, held, deaf, doomed, stuck>>

CliEnds ==
  /\ Cli \in living /\ ~stuck
  /\ Leave({Cli})
  /\ UNCHANGED <<runner, step, closed, helper, held, deaf, stuck>>

HelperEnds ==
  /\ Helper \in living
  /\ Leave({Helper})
  /\ UNCHANGED <<runner, step, closed, helper, held, deaf, stuck>>

\* claude's and codex's readers take stderr only once stdout has ended.
StderrFills ==
  /\ runner \in {"claude", "codex"} /\ step = "reading"
  /\ Cli \in living /\ ~stuck /\ "stderr" \notin closed
  /\ stuck' = TRUE
  /\ UNCHANGED <<runner, step, living, closed, helper, held, deaf, doomed>>

\* SIGTERM takes effect.
Dies(p) ==
  /\ p \in doomed
  /\ Leave({p})
  /\ UNCHANGED <<runner, step, closed, helper, held, deaf, stuck>>

-----------------------------------------------------------------------------
\* The turn.

\* communicate: both pipes are read to their end, then the process is awaited.
Collects ==
  /\ runner \in {"gemini", "tool"} /\ step = "reading"
  /\ (\A pipe \in Pipes : AtEnd(pipe)) /\ Cli \notin living
  /\ To("done")
  /\ UNCHANGED <<runner, living, closed, helper, held, deaf, doomed, stuck>>

\* The stream ends; stderr.read() and wait() follow, with no deadline.
StreamEnds ==
  /\ runner \in {"claude", "codex"} /\ step = "reading"
  /\ AtEnd("stdout")
  /\ stuck' = FALSE
  /\ To("draining")
  /\ UNCHANGED <<runner, living, closed, helper, held, deaf, doomed>>

Drained ==
  /\ step = "draining"
  /\ AtEnd("stderr") /\ Cli \notin living
  /\ To("done")
  /\ UNCHANGED <<runner, living, closed, helper, held, deaf, doomed, stuck>>

Signalled(P) == doomed' = doomed \cup (P \ deaf)

\* _terminate_one_shot_process: SIGTERM to the group, unless the CLI has ended.
Terminates ==
  /\ runner \in {"gemini", "claude"}
  /\ IF Cli \in living
       THEN Signalled(living) /\ To("terminated")
       ELSE UNCHANGED doomed /\ To("collecting")
  /\ UNCHANGED <<runner, living, closed, helper, held, deaf, stuck>>

\* codex and subprocess.run kill the CLI alone.  codex then reads stderr.
KillsCli ==
  /\ runner \in {"codex", "tool"}
  /\ Leave({Cli})
  /\ To(IF runner = "codex" THEN "cleaning" ELSE "done")
  /\ UNCHANGED <<runner, closed, helper, held, deaf, stuck>>

\* The deadline of the turn, or the end of its task.
Deadline == step = "reading" /\ (Terminates \/ KillsCli)

\* A cancelled task: no codex process is killed that was being drained.
Cancelled ==
  \/ Deadline
  \/ step = "draining" /\ Terminates
  \/ /\ step = "draining" /\ runner = "codex"
     /\ To("done")
     /\ UNCHANGED <<runner, living, closed, helper, held, deaf, doomed, stuck>>

CliGone ==
  /\ step = "terminated" /\ Cli \notin living
  /\ To("collecting")
  /\ UNCHANGED <<runner, living, closed, helper, held, deaf, doomed, stuck>>

\* A mutant: half a second later SIGTERM is sent once more.
HalfSecondTerms ==
  /\ step = "terminated" /\ Cli \in living
  /\ Signalled(living) /\ To("collecting")
  /\ UNCHANGED <<runner, living, closed, helper, held, deaf, stuck>>

\* Half a second later: SIGKILL to the group.
HalfSecond ==
  /\ step = "terminated" /\ Cli \in living
  /\ Leave(living) /\ To("collecting")
  /\ UNCHANGED <<runner, closed, helper, held, deaf, stuck>>

\* Then gemini's runner waits for communicate to end, claude's for the exit.
Collected ==
  /\ step = "collecting" /\ Cli \notin living
  /\ runner = "gemini" => \A pipe \in Pipes : AtEnd(pipe)
  /\ To("done")
  /\ UNCHANGED <<runner, living, closed, helper, held, deaf, doomed, stuck>>

\* _cleanup_failed_process.
CleanedUp ==
  /\ step = "cleaning"
  /\ AtEnd("stderr")
  /\ To("done")
  /\ UNCHANGED <<runner, living, closed, helper, held, deaf, doomed, stuck>>

Turn ==
  \/ Collects \/ StreamEnds \/ Drained \/ Deadline
  \/ CliGone \/ HalfSecond \/ Collected \/ CleanedUp

ProcessNext ==
  \/ StartCli \/ (\E h \in Helpers : StartHelper(h))
  \/ (\E pipe \in Pipes : CliCloses(pipe)) \/ CliEnds \/ HelperEnds \/ StderrFills
  \/ \E p \in {Cli, Helper} : Dies(p)
  \/ Turn \/ Cancelled

\* Nothing makes a CLI end or close a pipe; it falls silent, so that its deadline
\* passes.  A tied helper ends after its CLI, and SIGTERM is effective.
ProcessFairness ==
  /\ WF_processVars(Turn)
  /\ WF_processVars(\E p \in {Cli, Helper} : Dies(p))
  /\ WF_processVars(helper = "tied" /\ Cli \notin living /\ HelperEnds)

-----------------------------------------------------------------------------
ProcessTypeOK ==
  /\ runner \in Runners /\ helper \in Helpers \cup {"none"}
  /\ step \in {"idle", "reading", "draining", "terminated", "collecting", "cleaning", "done"}
  /\ doomed \subseteq living /\ living \subseteq {Cli, Helper}
  /\ held \subseteq Pipes /\ closed \subseteq Pipes

\* claude.py:318-319, codex.py:360-361: once stdout has ended a turn waits for
\* stderr and the CLI; codex.py:449 and subprocess_cli.py:525: once it has timed
\* out, for pipes that a helper may keep.  None of these has a deadline, though
\* docs/plans.md:967 puts "프로세스 타임아웃" (process timeout) against hanging CLIs.
WaitsOnOthers ==
  \/ step = "draining" /\ (Cli \in living \/ Kept({"stderr"}))
  \/ step = "cleaning" /\ Kept({"stderr"})
  \/ step = "collecting" /\ runner = "gemini" /\ Kept(Pipes)

\* subprocess_cli.py:517-528, claude.py:257, codex.py:475: every other turn ends,
\* whichever processes are deaf, though stderr is full, and whatever a helper
\* does to a claude turn or a tool that has timed out.
OthersReturn == step \notin {"idle", "done"} ~> step = "done" \/ WaitsOnOthers
=============================================================================
