-------------------------------- MODULE Jobs --------------------------------
(***************************************************************************)
(* jobs/runtime.py, scheduler.py and store.py: background jobs.  The       *)
(* scheduler wakes at least twice a minute, captures the minute ("slot"),  *)
(* and runs the matching jobs one after the other; application code may    *)
(* run a job by hand at the same time.  run_job takes the job's lock, asks *)
(* jobs.sqlite whether the slot was run before, inserts a run, calls the   *)
(* steps' tools, and records how it ended.  Each store operation commits   *)
(* in a worker thread and takes effect in the action that ends it.  The    *)
(* process may be killed or shut down at any time; the database stays.     *)
(*                                                                         *)
(* All jobs are enabled cron jobs, numbered in the registry's order.       *)
(* Matches[j] are the minutes job j's expression matches (CronExpression); *)
(* the expression of a job in Malformed does not parse.                    *)
(***************************************************************************)
EXTENDS Naturals, Sequences

CONSTANTS
  NumJobs, Matches, Malformed,
  NumSteps,
  Conditional,    \* steps with a `when`, whatever it resolves to
  Scheduler, Callers, Nobody,
  Manual,         \* scheduled_for = None
  Slow,           \* may a run last into the next minute?
  MaxClock,       \* bound: minutes
  MaxManual,      \* bound: runs by hand
  MaxFaults,      \* bound: store operations that raise
  MaxCrashes      \* bound: crashes

Jobs == 1..NumJobs
Steps == 1..NumSteps
Slots == 0..MaxClock
Procs == Callers \cup {Scheduler}

ASSUME JobsAssumption ==
  /\ NumJobs \in Nat /\ NumSteps \in Nat /\ MaxClock \in Nat
  /\ MaxManual \in Nat /\ MaxFaults \in Nat /\ MaxCrashes \in Nat
  /\ Matches \in [Jobs -> SUBSET Slots]
  /\ Malformed \subseteq Jobs
  /\ Conditional \subseteq Steps
  /\ Slow \in BOOLEAN
  /\ Scheduler \notin Callers
  /\ Nobody \notin Procs
  /\ Manual \notin Slots

VARIABLES
  clock,      \* the current minute
  up,         \* is the process running?
  hung,       \* the event loop never gets control back
  runs,       \* table job_runs, by run_id
  artifacts,  \* table job_artifacts: run and step
  lock,       \* _locks: who holds each job's lock
  pc, job, slot, run, step,   \* where each process is
  due,        \* the minute run_pending captured
  polled,     \* has a pass begun in this minute?
  steady,     \* has the process been up all this minute?
  faults, crashes

store == <<runs, artifacts>>
procs == <<pc, job, slot, run, step>>
world == <<clock, up, steady, crashes>>
vars == <<world, hung, store, lock, procs, due, polled, faults>>

Busy == {"waiting", "asking", "starting", "calling", "finishing", "failing"}

\* Those in the `async with` of the job they run.
Inside == {p \in Procs : pc[p] \in Busy \ {"waiting"}}

Run == [job : Jobs, slot : Slots \cup {Manual}, status : {"running", "succeeded", "failed"}]

\* A mutant: only runs that succeeded count.
RanBeforeSucceeded(j, s) ==
  \E i \in 1..Len(runs) : runs[i].job = j /\ runs[i].slot = s /\ runs[i].status = "succeeded"

\* A mutant: any slot of the job counts.
RanBeforeEver(j, s) == \E i \in 1..Len(runs) : runs[i].job = j

\* has_run_for_slot
RanBefore(j, s) == \E i \in 1..Len(runs) : runs[i].job = j /\ runs[i].slot = s

Init ==
  /\ clock = 0 /\ up = TRUE /\ hung = FALSE
  /\ runs = <<>> /\ artifacts = {}
  /\ lock = [j \in Jobs |-> Nobody]
  /\ pc = [p \in Procs |-> IF p = Scheduler THEN "asleep" ELSE "idle"]
  /\ job = [p \in Procs |-> 0]
  /\ slot = [p \in Procs |-> Manual]
  /\ run = [p \in Procs |-> 0]
  /\ step = [p \in Procs |-> 0]
  /\ due = 0 /\ polled = FALSE /\ steady = TRUE
  /\ faults = 0 /\ crashes = 0

-----------------------------------------------------------------------------
\* The scheduler's pass, up to the next job it runs.

\* The jobs from number i on that stop a pass at minute now: those to run and
\* those whose expression raises.
StopsAt(i, now) == {j \in Jobs : j >= i /\ (j \in Malformed \/ now \in Matches[j])}

FirstStop(i, now) == {j \in StopsAt(i, now) : \A k \in StopsAt(i, now) : j <= k}

\* The process runs job j for slot s next; the lock comes later.
Enter(p, j, s) ==
  /\ pc' = [pc EXCEPT ![p] = "waiting"]
  /\ job' = [job EXCEPT ![p] = j]
  /\ slot' = [slot EXCEPT ![p] = s]

Rest(p, label) ==
  /\ pc' = [pc EXCEPT ![p] = label]
  /\ job' = [job EXCEPT ![p] = 0]
  /\ slot' = [slot EXCEPT ![p] = Manual]

\* _loop after an exception: it is logged, and run_pending starts again at
\* once.  When that raises too before the first await, nothing else ever runs.
NewPass ==
  /\ due' = clock
  /\ polled' = TRUE
  /\ hung' = \E j \in FirstStop(1, clock) : j \in Malformed
  /\ IF hung' \/ StopsAt(1, clock) = {}
       THEN Rest(Scheduler, "asleep")
       ELSE \E j \in FirstStop(1, clock) : Enter(Scheduler, j, clock)

\* run_pending from job number i on.
PassFrom(i) ==
  IF \E j \in FirstStop(i, due) : j \in Malformed
    THEN NewPass
    ELSE /\ IF StopsAt(i, due) = {}
              THEN Rest(Scheduler, "asleep")
              ELSE \E j \in FirstStop(i, due) : Enter(Scheduler, j, due)
         /\ UNCHANGED <<hung, due, polled>>

Wake ==
  /\ pc[Scheduler] = "asleep"
  /\ NewPass
  /\ UNCHANGED <<world, store, lock, run, step, faults>>

-----------------------------------------------------------------------------
\* run_job, for the scheduler or by hand.

ManualRuns == SelectSeq(runs, LAMBDA r : r.slot = Manual)

CallByHand(p, j) ==
  /\ pc[p] = "idle"
  /\ Len(ManualRuns) < MaxManual
  /\ Enter(p, j, Manual)
  /\ UNCHANGED <<world, hung, store, lock, run, step, due, polled, faults>>

\* run_job returns or raises: the lock is released, and the scheduler goes on
\* with the next job or, after an exception, with a new pass.
Leave(p, raised) ==
  /\ lock' = [lock EXCEPT ![job[p]] = Nobody]
  /\ run' = [run EXCEPT ![p] = 0]
  /\ step' = [step EXCEPT ![p] = 0]
  /\ IF p # Scheduler THEN Rest(p, "idle") /\ UNCHANGED <<hung, due, polled>>
     ELSE IF raised THEN NewPass
     ELSE PassFrom(job[p] + 1)

Goto(p, label) == pc' = [pc EXCEPT ![p] = label]

\* A mutant: every call has a lock of its own.
AcquireAnyway(p) ==
  /\ pc[p] = "waiting"
  /\ lock' = [lock EXCEPT ![job[p]] = p]
  /\ Goto(p, IF slot[p] = Manual THEN "starting" ELSE "asking")
  /\ UNCHANGED <<world, hung, store, job, slot, run, step, due, polled, faults>>

Acquire(p) ==
  /\ pc[p] = "waiting"
  /\ lock[job[p]] = Nobody
  /\ lock' = [lock EXCEPT ![job[p]] = p]
  /\ Goto(p, IF slot[p] = Manual THEN "starting" ELSE "asking")
  /\ UNCHANGED <<world, hung, store, job, slot, run, step, due, polled, faults>>

\* has_run_for_slot came back.
Asked(p) ==
  /\ pc[p] = "asking"
  /\ IF RanBefore(job[p], slot[p])
       THEN Leave(p, FALSE)
       ELSE /\ Goto(p, "starting")
            /\ UNCHANGED <<hung, lock, job, slot, run, step, due, polled>>
  /\ UNCHANGED <<world, store, faults>>

\* The loop over the steps, from step n on: steps whose `when` is false are
\* skipped.
StepsFrom(p, n) ==
  \/ \E m \in Steps :
       /\ m >= n /\ n..(m - 1) \subseteq Conditional
       /\ step' = [step EXCEPT ![p] = m]
       /\ Goto(p, "calling")
  \/ /\ n..NumSteps \subseteq Conditional
     /\ step' = [step EXCEPT ![p] = 0]
     /\ Goto(p, "finishing")

\* A mutant: the run's id is not kept.
StartedForgetsId(p) ==
  /\ pc[p] = "starting"
  /\ runs' = Append(runs, [job |-> job[p], slot |-> slot[p], status |-> "running"])
  /\ StepsFrom(p, 1)
  /\ UNCHANGED <<world, hung, artifacts, lock, job, slot, run, due, polled, faults>>

\* start_run committed the new run.
Started(p) ==
  /\ pc[p] = "starting"
  /\ runs' = Append(runs, [job |-> job[p], slot |-> slot[p], status |-> "running"])
  /\ run' = [run EXCEPT ![p] = Len(runs) + 1]
  /\ StepsFrom(p, 1)
  /\ UNCHANGED <<world, hung, artifacts, lock, job, slot, due, polled, faults>>

\* A mutant: a step that raises is passed over.
StepRaisesIgnored(p) ==
  /\ pc[p] = "calling"
  /\ StepsFrom(p, step[p] + 1)
  /\ UNCHANGED <<world, hung, store, lock, job, slot, run, due, polled, faults>>

\* The tool, resolving its parameters, or write_artifact raises.
StepRaises(p) ==
  /\ pc[p] = "calling"
  /\ Goto(p, "failing")
  /\ UNCHANGED <<world, hung, store, lock, job, slot, run, step, due, polled, faults>>

\* The tool returned and write_artifact committed.
StepDone(p) ==
  /\ pc[p] = "calling"
  /\ artifacts' = artifacts \cup {<<run[p], step[p]>>}
  /\ StepsFrom(p, step[p] + 1)
  /\ UNCHANGED <<world, hung, runs, lock, job, slot, run, due, polled, faults>>

Outcome(p) == IF pc[p] = "finishing" THEN "succeeded" ELSE "failed"

\* A mutant: a job that failed keeps its lock.
FinishedKeepsLock(p) ==
  /\ pc[p] \in {"finishing", "failing"}
  /\ runs' = [runs EXCEPT ![run[p]].status = Outcome(p)]
  /\ IF pc[p] = "finishing" THEN Leave(p, FALSE)
     ELSE /\ run' = [run EXCEPT ![p] = 0]
          /\ step' = [step EXCEPT ![p] = 0]
          /\ UNCHANGED lock
          /\ IF p = Scheduler THEN NewPass
             ELSE Rest(p, "idle") /\ UNCHANGED <<hung, due, polled>>
  /\ UNCHANGED <<world, artifacts, faults>>

\* finish_run committed.
Finished(p) ==
  /\ pc[p] \in {"finishing", "failing"}
  /\ runs' = [runs EXCEPT ![run[p]].status = Outcome(p)]
  /\ Leave(p, pc[p] = "failing")
  /\ UNCHANGED <<world, artifacts, faults>>

\* A store operation raises.  The run is recorded as failed, unless there is
\* none yet or that is what could not be recorded: then it stays as it is.
StoreRaises(p) ==
  /\ pc[p] \in {"asking", "starting", "finishing", "failing"}
  /\ faults < MaxFaults
  /\ faults' = faults + 1
  /\ IF pc[p] = "finishing"
       THEN /\ Goto(p, "failing")
            /\ UNCHANGED <<hung, lock, job, slot, run, step, due, polled>>
       ELSE Leave(p, TRUE)
  /\ UNCHANGED <<world, store>>

-----------------------------------------------------------------------------
\* The world.

\* A minute ends.  The scheduler sleeps less than a minute, and a run lasts
\* into the next one only when Slow.
Tick ==
  /\ clock < MaxClock
  /\ up /\ ~hung => (pc[Scheduler] = "asleep" => polled) /\ (Slow \/ pc[Scheduler] = "asleep")
  /\ clock' = clock + 1
  /\ polled' = FALSE
  /\ steady' = up
  /\ UNCHANGED <<up, crashes, hung, store, lock, procs, due, faults>>

\* The process is killed, or shuts down (which cancels the scheduler in the
\* middle of a run and lets a thread's commit go through or not).
Crash ==
  /\ up /\ crashes < MaxCrashes
  /\ crashes' = crashes + 1
  /\ up' = FALSE /\ steady' = FALSE /\ hung' = FALSE
  /\ lock' = [j \in Jobs |-> Nobody]
  /\ pc' = [p \in Procs |-> "off"]
  /\ job' = [p \in Procs |-> 0]
  /\ slot' = [p \in Procs |-> Manual]
  /\ run' = [p \in Procs |-> 0]
  /\ step' = [p \in Procs |-> 0]
  /\ UNCHANGED <<clock, store, due, polled, faults>>

\* build_app: the database is opened as it is.
Restart ==
  /\ ~up
  /\ up' = TRUE
  /\ pc' = [p \in Procs |-> IF p = Scheduler THEN "asleep" ELSE "idle"]
  /\ polled' = FALSE
  /\ UNCHANGED <<clock, steady, crashes, hung, store, lock, job, slot, run, step, due, faults>>

RunStep(p) ==
  \/ Acquire(p)
  \/ Asked(p)
  \/ Started(p)
  \/ StepDone(p)
  \/ StepRaises(p)
  \/ Finished(p)
  \/ StoreRaises(p)

Next ==
  \/ /\ ~hung
     /\ \/ Wake
        \/ \E p \in Callers, j \in Jobs : CallByHand(p, j)
        \/ \E p \in Procs : RunStep(p)
  \/ Tick
  \/ Crash
  \/ Restart

Spec == Init /\ [][Next]_vars

\* Awaited calls come back, and a lock that stays free is taken.
FairSpec ==
  /\ Spec
  /\ \A p \in Procs : WF_vars(~hung /\ RunStep(p))

-----------------------------------------------------------------------------
TypeOK ==
  /\ clock \in Slots /\ due \in Slots
  /\ up \in BOOLEAN /\ hung \in BOOLEAN /\ polled \in BOOLEAN /\ steady \in BOOLEAN
  /\ runs \in Seq(Run)
  /\ artifacts \subseteq (1..Len(runs)) \X Steps
  /\ lock \in [Jobs -> Procs \cup {Nobody}]
  /\ pc \in [Procs -> Busy \cup {"idle", "asleep", "off"}]
  /\ job \in [Procs -> Jobs \cup {0}]
  /\ slot \in [Procs -> Slots \cup {Manual}]
  /\ run \in [Procs -> 0..Len(runs)]
  /\ step \in [Procs -> Steps \cup {0}]
  /\ faults \in 0..MaxFaults /\ crashes \in 0..MaxCrashes

\* docs/tasks.md:146: a job is run at most once for a slot, whatever fails and
\* however often the process is killed and started again within the minute.
OncePerSlot ==
  \A i, k \in 1..Len(runs) :
    runs[i].job = runs[k].job /\ runs[i].slot = runs[k].slot /\ runs[i].slot # Manual
      => i = k

\* Two runs of a job never overlap, one of them by hand or not: at any time at
\* most one process calls the tools of a job.
RunsExclude == \A p, q \in Inside : job[p] = job[q] => p = q

\* A run is recorded as succeeded only with the artifacts of all its steps.
SucceededIsComplete ==
  \A i \in 1..Len(runs) :
    runs[i].status = "succeeded" => \A n \in Steps \ Conditional : <<i, n>> \in artifacts

\* No minute goes by without the runs it calls for, if the process was up and
\* no run outlasted its minute: failing jobs do not keep the others from theirs.
EverySlotRun ==
  [][clock' # clock /\ steady /\ ~hung =>
       \A j \in Jobs : clock \in Matches[j] =>
         \E i \in DOMAIN runs : runs[i].job = j /\ runs[i].slot = clock]_vars

\* A pass ends: failing jobs are not retried for ever.
PassEnds == pc[Scheduler] \in Busy ~> pc[Scheduler] \notin Busy

\* docs/tasks.md:26: exceptions are the core's business ("예외 처리 ... 재실행
\* 제어는 core가 담당합니다").  None of them stops the event loop.
NeverHangs == ~hung
=============================================================================
