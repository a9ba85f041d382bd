-------------------------------- MODULE Cron --------------------------------
(***************************************************************************)
(* jobs/cron.py under jobs/scheduler.py and the slots of jobs/store.py: in *)
(* which minutes a job runs.  The scheduler looks at the clock every half  *)
(* minute, the expression is compared with the time of the job's zone, and *)
(* a run is remembered by its slot, the minute in that zone.  Clocks of a  *)
(* zone are put forward and back.                                          *)
(*                                                                         *)
(* A field is a token: "*", or parts between commas.  Hours, days and      *)
(* months are short; a week has its seven days.  What an expression that   *)
(* does not parse does to the scheduler is in Jobs, as are runs that last. *)
(***************************************************************************)
EXTENDS Integers, Sequences, SequencesExt

CONSTANTS
  Expressions,   \* five tokens each, by field
  Zones,         \* offsets from UTC, in minutes, at each minute
  MinutesPerHour, HoursPerDay, DaysPerMonth,
  MaxMinute      \* bound: minutes

Times == 0..MaxMinute
CronFields == {"minute", "hour", "day", "month", "weekday"}

\* The smallest and the largest value of a field.
Lowest(f) == IF f \in {"day", "month"} THEN 1 ELSE 0
Largest(f) ==
  CASE f = "minute" -> MinutesPerHour - 1
    [] f = "hour" -> HoursPerDay - 1
    [] f = "day" -> DaysPerMonth
    [] f = "month" -> 12
    [] f = "weekday" -> 6

\* "*" alone; the parts "*/step", "from", "from/step", "from-to[/step]", and text
\* that int() does not take.
Star == {}
Every(step) == [kind |-> "every", from |-> 0, to |-> 0, step |-> step]
At(from) == [kind |-> "at", from |-> from, to |-> from, step |-> 1]
Onward(from, step) == [kind |-> "onward", from |-> from, to |-> 0, step |-> step]
Span(from, to, step) == [kind |-> "span", from |-> from, to |-> to, step |-> step]
Garbage == [kind |-> "garbage", from |-> 0, to |-> 0, step |-> 0]

\* Numbers are written without a sign.
Parts == [kind : {"every", "at", "onward", "span", "garbage"}, from : Nat, to : Nat, step : Nat]
WellFormed(part) ==
  /\ part \in Parts
  /\ part.kind = "at" => part.to = part.from /\ part.step = 1
  /\ part.kind = "garbage" => part.step = 0

ASSUME CronAssumption ==
  /\ \A e \in Expressions : /\ DOMAIN e = CronFields
                           /\ \A f \in CronFields : \A part \in e[f] : WellFormed(part)
  /\ Zones \subseteq [Times -> Int]
  /\ {MinutesPerHour, HoursPerDay, DaysPerMonth} \subseteq Nat \ {0}
  /\ MaxMinute \in Nat

VARIABLES
  expr, zone,   \* the job's schedule
  minute,       \* the time in UTC, to the minute
  passes,       \* the scheduler's passes in this minute
  ran           \* the slots that were run, and when

cronVars == <<expr, zone, minute, passes, ran>>

CronInit ==
  /\ expr \in Expressions /\ zone \in Zones
  /\ minute = 0 /\ passes = 0 /\ ran = <<>>

-----------------------------------------------------------------------------
\* _parse_field: the values of a part in field f, as Python's range gives them.
\* A step of zero raises, as text does.
Raises(part) == part.step = 0

ValuesOf(part, f) ==
  LET first == IF part.kind = "every" THEN Lowest(f) ELSE part.from
      last == IF part.kind \in {"every", "onward"} THEN Largest(f) ELSE part.to IN
  {first + i * part.step : i \in 0..((last - first) \div part.step)}

Malformed == \E f \in CronFields : expr[f] # Star /\ \E part \in expr[f] : Raises(part)

\* The time in the job's zone.  The first day is a Monday, cron's weekday 1.
Wall(t) == t + zone[t]
DayOf(w) == w \div (MinutesPerHour * HoursPerDay)
ValueAt(f, w) ==
  CASE f = "minute" -> w % MinutesPerHour
    [] f = "hour" -> (w \div MinutesPerHour) % HoursPerDay
    [] f = "day" -> (DayOf(w) % DaysPerMonth) + 1
    [] f = "month" -> ((DayOf(w) \div DaysPerMonth) % 12) + 1
    [] f = "weekday" -> ((DayOf(w) % 7) + 1) % 7

\* matches: every field, days of the month and of the week alike.
CronMatches(t) ==
  \A f \in CronFields :
    expr[f] = Star \/ \E part \in expr[f] : ValueAt(f, Wall(t)) \in ValuesOf(part, f)

\* A mutant: the minute as the clock on the wall shows it.
SlotOnWall(t) == [wall |-> Wall(t), offset |-> 0]

\* slot_for, as the store writes it: with the offset.
SlotFor(t) == [wall |-> Wall(t), offset |-> zone[t]]

\* run_pending for this job; has_run_for_slot keeps a second pass out.
CronPass ==
  /\ passes < 2 /\ ~Malformed
  /\ passes' = passes + 1
  /\ ran' = IF CronMatches(minute) /\ \A i \in DOMAIN ran : ran[i].slot # SlotFor(minute)
              THEN Append(ran, [slot |-> SlotFor(minute), at |-> minute]) ELSE ran
  /\ UNCHANGED <<expr, zone, minute>>

NextMinute ==
  /\ passes > 0 /\ minute < MaxMinute
  /\ minute' = minute + 1 /\ passes' = 0
  /\ UNCHANGED <<expr, zone, ran>>

CronNext == CronPass \/ NextMinute

-----------------------------------------------------------------------------
CronTypeOK ==
  /\ minute \in Times /\ passes \in 0..2
  /\ ran \in Seq([slot : [wall : Int, offset : Int], at : Times])

\* What a part asks for, in words of arithmetic.
Asks(part, f, v) ==
  CASE part.kind = "every" -> (v - Lowest(f)) % part.step = 0
    [] part.kind = "at" -> v = part.from
    [] part.kind = "onward" -> v >= part.from /\ (v - part.from) % part.step = 0
    [] part.kind = "span" -> v \in part.from..part.to /\ (v - part.from) % part.step = 0

Asked(t) ==
  \A f \in CronFields :
    expr[f] = Star \/ \E part \in expr[f] : Asks(part, f, ValueAt(f, Wall(t)))

Looked == 0..(minute - 1) \cup (IF passes > 0 THEN {minute} ELSE {})

\* docs/tasks.md:146: "같은 job은 같은 슬롯에서 중복 실행되지 않도록".  A job runs once in
\* each minute its expression asks for and in no other, however often the
\* scheduler looks and whatever clocks are put forward or back: an hour that
\* comes twice is run twice.
OncePerMinute ==
  /\ {ran[i].at : i \in DOMAIN ran} = {t \in Looked : Asked(t)}
  /\ \A i, j \in DOMAIN ran : ran[i].at = ran[j].at => i = j
=============================================================================
