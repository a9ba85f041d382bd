------------------------------- MODULE Texts -------------------------------
(***************************************************************************)
(* What the modules about texts share.  Keep is SelectSeq for a set, in a  *)
(* form that has a definition to reason with.                              *)
(***************************************************************************)
EXTENDS Naturals, Sequences, SequencesExt

\* The elements of a sequence that are in a set, in their order.
Keep(s, S) == FlattenSeq([i \in DOMAIN s |-> IF s[i] \in S THEN <<s[i]>> ELSE <<>>])

\* How many elements of s are found once n of them were and x comes.
NextFound(s, n, x) == IF n < Len(s) /\ s[n + 1] = x THEN n + 1 ELSE n

\* How many of them are found in t, each behind the one before.
Found(s, t) ==
  LET upTo[i \in 0..Len(t)] == IF i = 0 THEN 0 ELSE NextFound(s, upTo[i - 1], t[i])
  IN  upTo[Len(t)]

\* Whether t is s with something put in.
Within(s, t) == Found(s, t) = Len(s)
=============================================================================
