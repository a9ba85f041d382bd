------------------------------- MODULE MCJobs -------------------------------
(* Instances of Jobs for TLC. *)
EXTENDS Jobs

CONSTANTS c1

\* Job 1 is due in the first minute, job 2 in the second too.
MCMatches == [j \in Jobs |-> IF j = 1 THEN {0} ELSE {0, 1}]
=============================================================================
