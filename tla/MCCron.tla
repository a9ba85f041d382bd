------------------------------- MODULE MCCron -------------------------------
(* Expressions and zones for Cron: hours of three minutes, days of three hours. *)
EXTENDS Cron

Crontab(minutes, hours, days, months, weekdays) ==
  [f \in CronFields |->
     CASE f = "minute" -> minutes [] f = "hour" -> hours [] f = "day" -> days
       [] f = "month" -> months [] f = "weekday" -> weekdays]

Always == Crontab(Star, Star, Star, Star, Star)

MCExpressions ==
  {Always,
   Crontab({Every(2)}, Star, Star, Star, Star),
   Crontab({At(1)}, {At(1)}, Star, Star, Star),
   Crontab({At(0), At(2)}, {Onward(1, 1)}, Star, Star, {Span(1, 5, 2)}),
   Crontab({Onward(0, 2)}, {Span(1, 2, 1)}, {Every(2)}, Star, Star),
   Crontab({Span(0, 2, 2)}, Star, {At(2)}, Star, {At(2), At(3)}),
   Crontab({At(0)}, {At(0)}, Star, {At(2)}, {At(0), Span(3, 6, 1)}),
   Crontab({At(60)}, Star, {At(0)}, Star, Star),
   Crontab(Star, {Span(2, 1, 1)}, Star, Star, Star),
   Crontab(Star, Star, {Every(0)}, Star, Star),
   Crontab({Garbage}, Star, Star, Star, Star)}

\* Clocks are put back an hour on the first day, or forward on the second.
UTC == [t \in Times |-> 0]
MCZones ==
  {UTC,
   [t \in Times |-> IF t < 6 THEN 3 ELSE 0],
   [t \in Times |-> IF t < 12 THEN -3 ELSE 0]}
=============================================================================
