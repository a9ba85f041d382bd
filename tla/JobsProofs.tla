----------------------------- MODULE JobsProofs -----------------------------
(***************************************************************************)
(* Proofs about Jobs for any number of jobs, steps, callers, faults and    *)
(* crashes, and any schedule.                                              *)
(*                                                                         *)
(* The argument: a process between `async with lock` and its end holds the *)
(* lock of its job (LockHeld), so nobody else inserts a run of that job    *)
(* between its question and its own insert, and what it was told is still  *)
(* true (SlotFree).  A run under way has the artifacts of the steps before *)
(* the current one (StepsKept).                                            *)
(***************************************************************************)
EXTENDS Jobs, SequenceTheorems, TLAPS

Running == {"calling", "finishing", "failing"}

\* Who is past the lock of a job holds it.
LockHeld ==
  \A p \in Procs :
    /\ pc[p] \in Busy => job[p] \in Jobs
    /\ p \in Inside => lock[job[p]] = p

\* A run under way has a row.
RunKept ==
  \A p \in Procs :
    /\ pc[p] \in Running => run[p] \in 1..Len(runs)
    /\ pc[p] = "calling" => step[p] \in Steps

\* What has_run_for_slot answered still holds at start_run.
SlotFree ==
  \A p \in Procs :
    pc[p] = "starting" /\ slot[p] # Manual => ~RanBefore(job[p], slot[p])

\* The steps a run has passed left their artifacts, except skipped ones.
Recorded(made, i, S) == \A n \in S \ Conditional : <<i, n>> \in made

StepsKept ==
  \A p \in Procs :
    /\ pc[p] = "calling" => Recorded(artifacts, run[p], 1..(step[p] - 1))
    /\ pc[p] = "finishing" => Recorded(artifacts, run[p], Steps)

IInv == TypeOK /\ LockHeld /\ RunKept /\ SlotFree /\ StepsKept /\ OncePerSlot /\ SucceededIsComplete

-----------------------------------------------------------------------------
\* What every end of a run or a pass comes to: the process is somewhere
\* outside all jobs, about to enter one at most.
Moves(p, l, j, s) ==
  /\ l = "waiting" => j \in Jobs
  /\ pc' = [pc EXCEPT ![p] = l]
  /\ job' = [job EXCEPT ![p] = j]
  /\ slot' = [slot EXCEPT ![p] = s]

Outside(p) ==
  /\ \E l \in {"waiting", "idle", "asleep"}, j \in Jobs \cup {0}, s \in Slots \cup {Manual} :
       Moves(p, l, j, s)
  /\ due' \in Slots /\ hung' \in BOOLEAN /\ polled' \in BOOLEAN

LEMMA FirstStopType == \A i, now : FirstStop(i, now) \subseteq Jobs
BY DEF FirstStop, StopsAt

LEMMA NewPassOutside ==
  ASSUME TypeOK, NewPass
  PROVE  Outside(Scheduler)
<1>1. due' \in Slots /\ hung' \in BOOLEAN /\ polled' \in BOOLEAN
  BY DEF NewPass, TypeOK
<1>2. CASE Rest(Scheduler, "asleep")
  BY <1>1, <1>2 DEF Outside, Moves, Rest
<1>3. CASE \E j \in FirstStop(1, clock) : Enter(Scheduler, j, clock)
  BY <1>1, <1>3, FirstStopType DEF Outside, Moves, Enter, TypeOK
<1>4. QED
  BY <1>2, <1>3 DEF NewPass

LEMMA PassFromOutside ==
  ASSUME TypeOK, NEW i, PassFrom(i)
  PROVE  Outside(Scheduler)
<1>1. CASE NewPass
  BY <1>1, NewPassOutside
<1>2. CASE /\ Rest(Scheduler, "asleep") \/ \E j \in FirstStop(i, due) : Enter(Scheduler, j, due)
           /\ UNCHANGED <<hung, due, polled>>
  <2>1. due' \in Slots /\ hung' \in BOOLEAN /\ polled' \in BOOLEAN
    BY <1>2 DEF TypeOK
  <2>2. CASE Rest(Scheduler, "asleep")
    BY <2>1, <2>2 DEF Outside, Moves, Rest
  <2>3. CASE \E j \in FirstStop(i, due) : Enter(Scheduler, j, due)
    BY <2>1, <2>3, FirstStopType DEF Outside, Moves, Enter, TypeOK
  <2>4. QED
    BY <1>2, <2>2, <2>3
<1>3. QED
  BY <1>1, <1>2 DEF PassFrom

LEMMA LeaveOutside ==
  ASSUME TypeOK, NEW p \in Procs, NEW raised, Leave(p, raised)
  PROVE  /\ Outside(p)
         /\ lock' = [lock EXCEPT ![job[p]] = Nobody]
         /\ run' = [run EXCEPT ![p] = 0]
         /\ step' = [step EXCEPT ![p] = 0]
<1>1. CASE Rest(p, "idle") /\ UNCHANGED <<hung, due, polled>>
  BY <1>1 DEF Outside, Moves, Rest, Leave, TypeOK
<1>2. CASE p = Scheduler /\ NewPass
  BY <1>2, NewPassOutside DEF Leave
<1>3. CASE p = Scheduler /\ PassFrom(job[p] + 1)
  BY <1>3, PassFromOutside DEF Leave
<1>4. QED
  BY <1>1, <1>2, <1>3 DEF Leave

\* A process that leaves a job, or enters the queue for one, disturbs nothing.
\* The rows are as they were.
LEMMA OutsideInv ==
  ASSUME IInv, NEW p \in Procs, Outside(p),
         \/ UNCHANGED <<lock, run, step>> /\ p \notin Inside
         \/ /\ p \in Inside
            /\ lock' = [lock EXCEPT ![job[p]] = Nobody]
            /\ run' = [run EXCEPT ![p] = 0]
            /\ step' = [step EXCEPT ![p] = 0],
         UNCHANGED <<world, store>>, faults' \in 0..MaxFaults
  PROVE  IInv'
<1>1. PICK l \in {"waiting", "idle", "asleep"}, j \in Jobs \cup {0}, s \in Slots \cup {Manual} :
        Moves(p, l, j, s)
  BY DEF Outside
<1>2. due' \in Slots /\ hung' \in BOOLEAN /\ polled' \in BOOLEAN
  BY DEF Outside
<1>3. \A q \in Procs \ {p} :
        /\ pc'[q] = pc[q] /\ job'[q] = job[q] /\ slot'[q] = slot[q]
        /\ run'[q] = run[q] /\ step'[q] = step[q]
        /\ q \in Inside' <=> q \in Inside
  BY <1>1 DEF Moves, IInv, TypeOK, Inside
<1>4. pc'[p] = l /\ job'[p] = j /\ p \notin Inside'
  BY <1>1 DEF Moves, IInv, TypeOK, Inside, Busy
<1>5. /\ lock' \in [Jobs -> Procs \cup {Nobody}]
      /\ run' \in [Procs -> 0..Len(runs)]
      /\ step' \in [Procs -> Steps \cup {0}]
  <2>1. 0 \in 0..Len(runs)
    BY LenProperties DEF IInv, TypeOK
  <2>2. QED
    BY <2>1, ZenonT(60) DEF IInv, TypeOK
<1>6. TypeOK'
  BY <1>1, <1>2, <1>5 DEF Moves, IInv, TypeOK, world, store, Busy
<1>7. LockHeld'
  <2>1. \A q \in Procs \ {p} : q \in Inside => lock'[job[q]] = q
    BY DEF IInv, LockHeld, TypeOK, Inside
  <2>2. QED
    BY <1>1, <1>3, <1>4, <2>1 DEF Moves, IInv, LockHeld, Busy
<1>8. RunKept'
  BY <1>1, <1>3, <1>4 DEF Moves, IInv, RunKept, Running, store
<1>9. SlotFree'
  BY <1>1, <1>3, <1>4 DEF Moves, IInv, SlotFree, RanBefore, store
<1>10. StepsKept'
  BY <1>1, <1>3, <1>4 DEF Moves, IInv, StepsKept, Recorded, store
<1>11. OncePerSlot' /\ SucceededIsComplete'
  BY DEF IInv, OncePerSlot, SucceededIsComplete, store
<1>12. QED
  BY <1>6, <1>7, <1>8, <1>9, <1>10, <1>11 DEF IInv

-----------------------------------------------------------------------------
LEMMA InitInv == Init => IInv
<1>1. SUFFICES ASSUME Init PROVE IInv
  OBVIOUS
<1>2. runs \in Seq(Run) /\ Len(runs) = 0 /\ 0 \in 0..Len(runs) /\ artifacts = {}
  BY <1>1, EmptySeq DEF Init
<1>3. \A p \in Procs : pc[p] \in {"asleep", "idle"}
  BY <1>1 DEF Init
<1>4. TypeOK
  <2>1. 0 \in Slots /\ 0 \in 0..MaxFaults /\ 0 \in 0..MaxCrashes
    BY JobsAssumption DEF Slots
  <2>2. artifacts \subseteq (1..Len(runs)) \X Steps
    BY <1>2
  <2>3. QED
    BY <1>1, <1>2, <2>1, <2>2 DEF Init, TypeOK
<1>5. OncePerSlot /\ SucceededIsComplete
  BY <1>2 DEF OncePerSlot, SucceededIsComplete
<1>6. LockHeld /\ RunKept /\ SlotFree /\ StepsKept
  BY <1>3 DEF LockHeld, RunKept, SlotFree, StepsKept, Inside, Busy, Running
<1>7. QED
  BY <1>4, <1>5, <1>6 DEF IInv

\* Entering a job: only a free lock is taken.
LEMMA AcquireInv ==
  ASSUME IInv, NEW p \in Procs, Acquire(p)
  PROVE  IInv'
<1>1. PICK l \in {"starting", "asking"} :
        /\ pc' = [pc EXCEPT ![p] = l]
        /\ l = "starting" => slot[p] = Manual
  <2>1. CASE slot[p] = Manual
    BY <2>1 DEF Acquire, Goto
  <2>2. CASE slot[p] # Manual
    BY <2>2 DEF Acquire, Goto
  <2>3. QED
    BY <2>1, <2>2
<1>2. job[p] \in Jobs /\ lock[job[p]] = Nobody /\ pc[p] = "waiting"
  BY DEF IInv, LockHeld, Acquire, Busy
<1>3. \A q \in Procs \ {p} : q \in Inside' <=> q \in Inside
  BY <1>1 DEF IInv, TypeOK, Inside
<1>4. TypeOK'
  BY <1>1, <1>2 DEF IInv, TypeOK, Acquire, world, store, Busy
<1>5. LockHeld'
  <2>1. \A q \in Inside : job[q] # job[p]
    BY <1>2, JobsAssumption DEF IInv, LockHeld, Inside
  <2>2. \A q \in Procs \ {p} : q \in Inside => lock'[job[q]] = q
    BY <1>2, <2>1 DEF IInv, LockHeld, Acquire, TypeOK, Inside
  <2>3. lock'[job[p]] = p
    BY <1>2 DEF IInv, TypeOK, Acquire
  <2>4. QED
    BY <1>1, <1>2, <1>3, <2>2, <2>3 DEF IInv, TypeOK, LockHeld, Acquire
<1>6. RunKept'
  BY <1>1 DEF IInv, TypeOK, RunKept, Running, Acquire, store
<1>7. SlotFree'
  BY <1>1 DEF IInv, TypeOK, SlotFree, RanBefore, Acquire, store
<1>8. StepsKept'
  BY <1>1 DEF IInv, TypeOK, StepsKept, Recorded, Acquire, store
<1>9. OncePerSlot' /\ SucceededIsComplete'
  BY DEF IInv, OncePerSlot, SucceededIsComplete, Acquire, store
<1>10. QED
  BY <1>4, <1>5, <1>6, <1>7, <1>8, <1>9 DEF IInv

\* A process inside a job that goes on inside it keeps the lock; what it does
\* to the rows is left to the others.
LEMMA InsideInv ==
  ASSUME IInv, NEW p \in Procs, p \in Inside, NEW l \in Busy \ {"waiting"}, Goto(p, l),
         UNCHANGED <<lock, job>>
  PROVE  LockHeld'
<1>1. \A q \in Procs : q \in Inside' <=> q \in Inside
  BY DEF IInv, TypeOK, Inside, Goto
<1>2. QED
  BY <1>1 DEF IInv, TypeOK, LockHeld, Goto, Inside

\* The question was answered: the answer stays true.
LEMMA AskedInv ==
  ASSUME IInv, NEW p \in Procs, Asked(p)
  PROVE  IInv'
<1>1. p \in Inside
  BY DEF Asked, Inside, Busy
<1>2. CASE Leave(p, FALSE)
  <2>1. faults' \in 0..MaxFaults /\ TypeOK /\ UNCHANGED <<world, store>>
    BY DEF IInv, TypeOK, Asked
  <2>2. QED
    BY <1>1, <1>2, <2>1, LeaveOutside, OutsideInv
<1>3. CASE /\ ~RanBefore(job[p], slot[p]) /\ Goto(p, "starting")
           /\ UNCHANGED <<hung, lock, job, slot, run, step, due, polled>>
  <2>1. TypeOK'
    BY <1>3 DEF IInv, TypeOK, Asked, Goto, world, store, Busy
  <2>2. LockHeld'
    BY <1>1, <1>3, InsideInv DEF Busy
  <2>3. SlotFree'
    BY <1>3 DEF IInv, TypeOK, SlotFree, RanBefore, Asked, Goto, store
  <2>4. RunKept' /\ StepsKept'
    BY <1>3 DEF IInv, TypeOK, RunKept, StepsKept, Recorded, Running, Asked, Goto, store
  <2>5. OncePerSlot' /\ SucceededIsComplete'
    BY DEF IInv, OncePerSlot, SucceededIsComplete, Asked, store
  <2>6. QED
    BY <2>1, <2>2, <2>3, <2>4, <2>5 DEF IInv
<1>4. QED
  BY <1>2, <1>3 DEF Asked

-----------------------------------------------------------------------------
\* The loop over the steps of run i, before step n: where it goes, everything
\* it leaves behind has been recorded.
LEMMA StepsFromRecorded ==
  ASSUME NEW p \in Procs, NEW n \in Nat \ {0}, NEW i, StepsFrom(p, n),
         NumSteps \in Nat, Recorded(artifacts', i, 1..(n - 1))
  PROVE  \E l \in {"calling", "finishing"}, m \in Steps \cup {0} :
           /\ Goto(p, l)
           /\ step' = [step EXCEPT ![p] = m]
           /\ l = "calling" => m \in Steps /\ Recorded(artifacts', i, 1..(m - 1))
           /\ l = "finishing" => Recorded(artifacts', i, Steps)
<1>1. ASSUME NEW m \in Steps, m >= n, n..(m - 1) \subseteq Conditional
      PROVE  Recorded(artifacts', i, 1..(m - 1))
  <2>1. \A k \in 1..(m - 1) : k \in 1..(n - 1) \/ k \in Conditional
    BY <1>1 DEF Steps
  <2>2. QED
    BY <2>1 DEF Recorded
<1>2. ASSUME n..NumSteps \subseteq Conditional
      PROVE  Recorded(artifacts', i, Steps)
  <2>1. \A k \in Steps : k \in 1..(n - 1) \/ k \in Conditional
    BY <1>2 DEF Steps
  <2>2. QED
    BY <2>1 DEF Recorded
<1>3. QED
  BY <1>1, <1>2 DEF StepsFrom

\* The run starts: there was no row of its job and slot, and nobody else who
\* found none is about to insert one, for that takes the same lock.
LEMMA StartedInv ==
  ASSUME IInv, NEW p \in Procs, Started(p)
  PROVE  IInv'
<1> DEFINE new == [job |-> job[p], slot |-> slot[p], status |-> "running"]
<1>1. p \in Inside /\ pc[p] = "starting"
  BY DEF Started, Inside, Busy
<1>2. /\ runs \in Seq(Run) /\ new \in Run /\ runs' = Append(runs, new)
      /\ run' = [run EXCEPT ![p] = Len(runs) + 1]
      /\ UNCHANGED <<world, hung, artifacts, lock, job, slot, due, polled, faults>>
  BY <1>1 DEF Started, IInv, TypeOK, LockHeld, Inside, Run
<1>3. /\ runs' \in Seq(Run) /\ Len(runs) \in Nat /\ Len(runs') = Len(runs) + 1
      /\ \A i \in 1..Len(runs) : runs'[i] = runs[i]
      /\ runs'[Len(runs) + 1] = new
  BY <1>2, AppendProperties, LenProperties
<1>4. Recorded(artifacts', Len(runs) + 1, 1..(1 - 1))
  BY DEF Recorded
<1>5. PICK l \in {"calling", "finishing"}, m \in Steps \cup {0} :
        /\ Goto(p, l)
        /\ step' = [step EXCEPT ![p] = m]
        /\ l = "calling" => m \in Steps /\ Recorded(artifacts', Len(runs) + 1, 1..(m - 1))
        /\ l = "finishing" => Recorded(artifacts', Len(runs) + 1, Steps)
  <2>1. StepsFrom(p, 1) /\ NumSteps \in Nat /\ 1 \in Nat \ {0}
    BY JobsAssumption DEF Started
  <2>2. QED
    BY <1>4, <2>1, StepsFromRecorded
<1>6. TypeOK'
  <2>1. \A q \in Procs : run'[q] \in 0..Len(runs')
    BY <1>2, <1>3 DEF IInv, TypeOK
  <2>2. artifacts' \subseteq (1..Len(runs')) \X Steps
    BY <1>2, <1>3 DEF IInv, TypeOK
  <2>3. run' \in [Procs -> 0..Len(runs')]
    BY <1>2, <2>1 DEF IInv, TypeOK
  <2>4. pc' \in [Procs -> Busy \cup {"idle", "asleep", "off"}] /\ step' \in [Procs -> Steps \cup {0}]
    BY <1>5 DEF IInv, TypeOK, Goto, Busy
  <2>5. QED
    BY <1>2, <1>3, <2>2, <2>3, <2>4 DEF IInv, TypeOK, world
<1>7. LockHeld'
  BY <1>1, <1>2, <1>5, InsideInv DEF Busy
<1>8. RunKept'
  BY <1>2, <1>3, <1>5 DEF IInv, TypeOK, RunKept, Running, Goto
<1>9. SlotFree'
  <2>1. ASSUME NEW q \in Procs, pc'[q] = "starting", slot[q] # Manual
        PROVE  ~RanBefore(job[q], slot[q])'
    <3>1. q # p /\ pc[q] = "starting"
      BY <1>5, <2>1 DEF IInv, TypeOK, Goto
    <3>2. job[q] # job[p]
      BY <1>1, <3>1 DEF IInv, LockHeld, Inside, Busy
    <3>3. ~RanBefore(job[q], slot[q])
      BY <2>1, <3>1 DEF IInv, SlotFree
    <3>4. QED
      BY <1>2, <1>3, <3>2, <3>3 DEF RanBefore
  <2>2. QED
    BY <1>2, <2>1 DEF SlotFree
<1>10. StepsKept'
  BY <1>2, <1>5 DEF IInv, TypeOK, StepsKept, Recorded, Goto
<1>11. OncePerSlot'
  <2>1. slot[p] # Manual => ~RanBefore(job[p], slot[p])
    BY <1>1 DEF IInv, SlotFree
  <2>2. QED
    BY <1>3, <2>1 DEF IInv, OncePerSlot, RanBefore
<1>12. SucceededIsComplete'
  BY <1>2, <1>3 DEF IInv, SucceededIsComplete
<1>13. QED
  BY <1>6, <1>7, <1>8, <1>9, <1>10, <1>11, <1>12 DEF IInv

LEMMA StepDoneInv ==
  ASSUME IInv, NEW p \in Procs, StepDone(p)
  PROVE  IInv'
<1>1. p \in Inside /\ pc[p] = "calling" /\ step[p] \in Steps /\ run[p] \in 1..Len(runs)
  BY DEF IInv, RunKept, Running, StepDone, Inside, Busy
<1>2. /\ artifacts' = artifacts \cup {<<run[p], step[p]>>}
      /\ UNCHANGED <<world, hung, runs, lock, job, slot, run, due, polled, faults>>
  BY DEF StepDone
<1>3. Recorded(artifacts', run[p], 1..((step[p] + 1) - 1))
  <2>1. Recorded(artifacts, run[p], 1..(step[p] - 1))
    BY <1>1 DEF IInv, StepsKept
  <2>2. \A n \in 1..((step[p] + 1) - 1) : n \in 1..(step[p] - 1) \/ n = step[p]
    BY <1>1 DEF Steps
  <2>3. QED
    BY <1>2, <2>1, <2>2 DEF Recorded
<1>4. PICK l \in {"calling", "finishing"}, m \in Steps \cup {0} :
        /\ Goto(p, l)
        /\ step' = [step EXCEPT ![p] = m]
        /\ l = "calling" => m \in Steps /\ Recorded(artifacts', run[p], 1..(m - 1))
        /\ l = "finishing" => Recorded(artifacts', run[p], Steps)
  <2>1. StepsFrom(p, step[p] + 1) /\ NumSteps \in Nat /\ step[p] + 1 \in Nat \ {0}
    BY <1>1, JobsAssumption DEF StepDone, Steps
  <2>2. QED
    BY <1>3, <2>1, StepsFromRecorded
<1>5. TypeOK'
  <2>1. artifacts' \subseteq (1..Len(runs')) \X Steps
    BY <1>1, <1>2 DEF IInv, TypeOK
  <2>2. QED
    BY <1>2, <1>4, <2>1 DEF IInv, TypeOK, Goto, world, Busy
<1>6. LockHeld'
  BY <1>1, <1>2, <1>4, InsideInv DEF Busy
<1>7. RunKept'
  BY <1>1, <1>2, <1>4 DEF IInv, TypeOK, RunKept, Running, Goto
<1>8. SlotFree'
  BY <1>2, <1>4 DEF IInv, TypeOK, SlotFree, RanBefore, Goto
<1>9. StepsKept'
  BY <1>2, <1>4 DEF IInv, TypeOK, StepsKept, Recorded, Goto
<1>10. OncePerSlot' /\ SucceededIsComplete'
  BY <1>2 DEF IInv, OncePerSlot, SucceededIsComplete
<1>11. QED
  BY <1>5, <1>6, <1>7, <1>8, <1>9, <1>10 DEF IInv

\* An exception: the run goes on to be recorded as failed.
LEMMA FailingInv ==
  ASSUME IInv, NEW p \in Procs, pc[p] \in {"calling", "finishing"}, Goto(p, "failing"),
         UNCHANGED <<world, hung, store, lock, job, slot, run, step, due, polled>>,
         faults' \in 0..MaxFaults
  PROVE  IInv'
<1>1. p \in Inside
  BY DEF Inside, Busy
<1>2. TypeOK'
  BY DEF IInv, TypeOK, Goto, world, store, Busy
<1>3. LockHeld'
  BY <1>1, InsideInv DEF Busy
<1>4. RunKept' /\ SlotFree' /\ StepsKept'
  BY DEF IInv, TypeOK, RunKept, SlotFree, StepsKept, RanBefore, Recorded, Running, Goto, store
<1>5. OncePerSlot' /\ SucceededIsComplete'
  BY DEF IInv, OncePerSlot, SucceededIsComplete, store
<1>6. QED
  BY <1>2, <1>3, <1>4, <1>5 DEF IInv

LEMMA StoreRaisesInv ==
  ASSUME IInv, NEW p \in Procs, StoreRaises(p)
  PROVE  IInv'
<1>1. /\ p \in Inside /\ faults' \in 0..MaxFaults /\ UNCHANGED <<world, store>>
      /\ TypeOK
  BY JobsAssumption DEF IInv, TypeOK, StoreRaises, Inside, Busy
<1>2. CASE pc[p] = "finishing"
  BY <1>1, <1>2, FailingInv DEF StoreRaises, store
<1>3. CASE Leave(p, TRUE)
  BY <1>1, <1>3, LeaveOutside, OutsideInv
<1>4. QED
  BY <1>2, <1>3 DEF StoreRaises

\* The run is recorded as succeeded or failed: no row comes or goes, and a run
\* that was not recorded as succeeded is only when all its steps are recorded.
LEMMA FinishedInv ==
  ASSUME IInv, NEW p \in Procs, Finished(p)
  PROVE  IInv'
<1> DEFINE i == run[p]
           row == [runs[i] EXCEPT !.status = Outcome(p)]
<1>1. p \in Inside /\ i \in 1..Len(runs) /\ runs \in Seq(Run) /\ Len(runs) \in Nat
  BY LenProperties DEF IInv, TypeOK, RunKept, Running, Finished, Inside, Busy
<1>2. /\ runs' \in Seq(Run) /\ Len(runs') = Len(runs)
      /\ \A k \in 1..Len(runs) : /\ runs'[k].job = runs[k].job /\ runs'[k].slot = runs[k].slot
                                 /\ k # i => runs'[k] = runs[k]
      /\ runs'[i].status = Outcome(p)
  <2>1. runs' = [runs EXCEPT ![i] = row]
    BY DEF Finished
  <2>2. row \in Run
    <3>1. runs[i] \in Run /\ Outcome(p) \in {"succeeded", "failed"}
      BY <1>1, ElementOfSeq DEF Outcome
    <3>2. QED
      BY <3>1 DEF Run
  <2>3. row.job = runs[i].job /\ row.slot = runs[i].slot /\ row.status = Outcome(p)
    BY <1>1 DEF Run
  <2>4. QED
    BY <1>1, <2>1, <2>2, <2>3, ExceptSeq
<1>3. /\ Outside(p)
      /\ lock' = [lock EXCEPT ![job[p]] = Nobody]
      /\ run' = [run EXCEPT ![p] = 0]
      /\ step' = [step EXCEPT ![p] = 0]
      /\ UNCHANGED <<world, artifacts, faults>>
  BY LeaveOutside DEF IInv, Finished
<1>4. PICK l \in {"waiting", "idle", "asleep"}, j \in Jobs \cup {0}, s \in Slots \cup {Manual} :
        Moves(p, l, j, s)
  BY <1>3 DEF Outside
<1>5. \A q \in Procs \ {p} :
        /\ pc'[q] = pc[q] /\ job'[q] = job[q] /\ slot'[q] = slot[q]
        /\ run'[q] = run[q] /\ step'[q] = step[q]
        /\ q \in Inside' <=> q \in Inside
  BY <1>3, <1>4 DEF IInv, TypeOK, Inside, Moves
<1>6. pc'[p] = l /\ job'[p] = j /\ p \notin Inside'
  BY <1>4 DEF IInv, TypeOK, Inside, Busy, Moves
<1>7. TypeOK'
  <2>1. due' \in Slots /\ hung' \in BOOLEAN /\ polled' \in BOOLEAN
    BY <1>3 DEF Outside
  <2>2. run' \in [Procs -> 0..Len(runs')] /\ artifacts' \subseteq (1..Len(runs')) \X Steps
    BY <1>1, <1>2, <1>3 DEF IInv, TypeOK
  <2>3. lock' \in [Jobs -> Procs \cup {Nobody}] /\ step' \in [Procs -> Steps \cup {0}]
    BY <1>3 DEF IInv, TypeOK
  <2>4. QED
    BY <1>2, <1>3, <1>4, <2>1, <2>2, <2>3 DEF IInv, TypeOK, Moves, world, Busy
<1>8. LockHeld'
  <2>1. \A q \in Procs \ {p} : q \in Inside => lock'[job[q]] = q
    BY <1>1, <1>3 DEF IInv, LockHeld, TypeOK, Inside
  <2>2. QED
    BY <1>4, <1>5, <1>6, <2>1 DEF IInv, LockHeld, Busy, Moves
<1>9. RunKept'
  BY <1>2, <1>5, <1>6 DEF IInv, RunKept, Running
<1>10. SlotFree'
  <2>1. \A j2, s2 : RanBefore(j2, s2)' => RanBefore(j2, s2)
    BY <1>1, <1>2 DEF RanBefore
  <2>2. QED
    BY <1>5, <1>6, <2>1 DEF IInv, SlotFree
<1>11. StepsKept'
  BY <1>3, <1>5, <1>6 DEF IInv, StepsKept, Recorded
<1>12. OncePerSlot'
  BY <1>2 DEF IInv, OncePerSlot
<1>13. SucceededIsComplete'
  <2>1. Outcome(p) = "succeeded" => Recorded(artifacts, i, Steps)
    BY DEF IInv, StepsKept, Outcome, Finished
  <2>2. QED
    BY <1>1, <1>2, <1>3, <2>1 DEF IInv, SucceededIsComplete, Recorded
<1>14. QED
  BY <1>7, <1>8, <1>9, <1>10, <1>11, <1>12, <1>13 DEF IInv

\* A crash: nobody is anywhere, the database stays.
LEMMA CrashInv ==
  ASSUME IInv, Crash
  PROVE  IInv'
<1>1. \A p \in Procs : pc'[p] = "off"
  BY DEF Crash
<1>2. TypeOK'
  <2>1. 0 \in 0..Len(runs) /\ crashes' \in 0..MaxCrashes
    BY LenProperties, JobsAssumption DEF IInv, TypeOK, Crash
  <2>2. QED
    BY <2>1 DEF IInv, TypeOK, Crash, store
<1>3. LockHeld' /\ RunKept' /\ SlotFree' /\ StepsKept'
  BY <1>1 DEF LockHeld, RunKept, SlotFree, StepsKept, Inside, Busy, Running
<1>4. OncePerSlot' /\ SucceededIsComplete'
  BY DEF IInv, OncePerSlot, SucceededIsComplete, Crash, store
<1>5. QED
  BY <1>2, <1>3, <1>4 DEF IInv

LEMMA RestartInv ==
  ASSUME IInv, Restart
  PROVE  IInv'
<1>1. \A p \in Procs : pc'[p] \in {"asleep", "idle"}
  BY DEF Restart
<1>2. TypeOK'
  BY DEF IInv, TypeOK, Restart, store
<1>3. LockHeld' /\ RunKept' /\ SlotFree' /\ StepsKept'
  BY <1>1 DEF LockHeld, RunKept, SlotFree, StepsKept, Inside, Busy, Running
<1>4. OncePerSlot' /\ SucceededIsComplete'
  BY DEF IInv, OncePerSlot, SucceededIsComplete, Restart, store
<1>5. QED
  BY <1>2, <1>3, <1>4 DEF IInv

\* Nobody moves: the clock may.
LEMMA StillInv ==
  ASSUME IInv, UNCHANGED <<hung, store, lock, procs, due, faults, up, crashes>>,
         clock' \in Slots, polled' \in BOOLEAN, steady' \in BOOLEAN
  PROVE  IInv'
<1>1. TypeOK'
  BY DEF IInv, TypeOK, store, procs
<1>2. LockHeld' /\ RunKept' /\ SlotFree' /\ StepsKept'
  BY DEF IInv, LockHeld, RunKept, SlotFree, StepsKept, RanBefore, Recorded, Inside, store, procs
<1>3. OncePerSlot' /\ SucceededIsComplete'
  BY DEF IInv, OncePerSlot, SucceededIsComplete, store
<1>4. QED
  BY <1>1, <1>2, <1>3 DEF IInv

\* Every step keeps the invariant.
LEMMA StepInv == IInv /\ [Next]_vars => IInv'
<1>1. SUFFICES ASSUME IInv, [Next]_vars PROVE IInv'
  OBVIOUS
<1>2. faults \in 0..MaxFaults /\ TypeOK
  BY <1>1 DEF IInv, TypeOK
<1>3. CASE Wake
  <2>1. Scheduler \in Procs /\ Scheduler \notin Inside /\ Outside(Scheduler)
    BY <1>2, <1>3, NewPassOutside DEF Wake, Inside, Procs, Busy
  <2>2. QED
    BY <1>1, <1>2, <1>3, <2>1, OutsideInv DEF Wake
<1>4. ASSUME NEW p \in Callers, NEW j \in Jobs, CallByHand(p, j) PROVE IInv'
  <2>1. p \in Procs /\ p \notin Inside /\ Outside(p)
    BY <1>2, <1>4 DEF CallByHand, Enter, Outside, Moves, TypeOK, Inside, Procs, Busy
  <2>2. QED
    BY <1>1, <1>2, <1>4, <2>1, OutsideInv DEF CallByHand
<1>5. ASSUME NEW p \in Procs, RunStep(p) PROVE IInv'
  <2>1. CASE StepRaises(p)
    BY <1>1, <1>2, <2>1, FailingInv DEF StepRaises
  <2>2. CASE Acquire(p)
    BY <1>1, <2>2, AcquireInv
  <2>3. CASE Asked(p)
    BY <1>1, <2>3, AskedInv
  <2>4. CASE Started(p)
    BY <1>1, <2>4, StartedInv
  <2>5. CASE StepDone(p)
    BY <1>1, <2>5, StepDoneInv
  <2>6. CASE Finished(p)
    BY <1>1, <2>6, FinishedInv
  <2>7. CASE StoreRaises(p)
    BY <1>1, <2>7, StoreRaisesInv
  <2>8. QED
    BY <1>5, <2>1, <2>2, <2>3, <2>4, <2>5, <2>6, <2>7 DEF RunStep
<1>6. CASE Tick
  <2>1. clock' \in Slots /\ polled' \in BOOLEAN /\ steady' \in BOOLEAN
    <3>1. clock < MaxClock /\ clock' = clock + 1 /\ polled' = FALSE /\ steady' = up
      BY <1>6 DEF Tick
    <3>2. clock' \in Slots
      BY <1>2, <3>1, JobsAssumption DEF TypeOK, Slots
    <3>3. QED
      BY <1>2, <3>1, <3>2 DEF TypeOK
  <2>2. QED
    BY <1>1, <1>6, <2>1, StillInv DEF Tick
<1>7. CASE Crash
  BY <1>1, <1>7, CrashInv
<1>8. CASE Restart
  BY <1>1, <1>8, RestartInv
<1>9. CASE UNCHANGED vars
  BY <1>1, <1>2, <1>9, StillInv DEF vars, world, TypeOK
<1>10. QED
  BY <1>1, <1>3, <1>4, <1>5, <1>6, <1>7, <1>8, <1>9 DEF Next

THEOREM Invariance == Spec => []IInv
BY InitInv, StepInv, PTL DEF Spec

\* The model's variables keep their types.
THEOREM TypeCorrect == Spec => []TypeOK
<1>1. IInv => TypeOK
  BY DEF IInv
<1>2. QED
  BY <1>1, Invariance, PTL

\* A job is run at most once for a slot, for any number of jobs, crashes,
\* faults and runs by hand (docs/tasks.md:146).
THEOREM RunOnce == Spec => []OncePerSlot
<1>1. IInv => OncePerSlot
  BY DEF IInv
<1>2. QED
  BY <1>1, Invariance, PTL

\* Two runs of a job never overlap.
THEOREM RunsApart == Spec => []RunsExclude
<1>1. IInv => RunsExclude
  BY DEF IInv, LockHeld, RunsExclude, Inside
<1>2. QED
  BY <1>1, Invariance, PTL

\* A run recorded as succeeded has the artifacts of all its steps.
THEOREM SuccessIsWhole == Spec => []SucceededIsComplete
<1>1. IInv => SucceededIsComplete
  BY DEF IInv
<1>2. QED
  BY <1>1, Invariance, PTL
=============================================================================
