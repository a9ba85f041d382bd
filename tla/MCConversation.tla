--------------------------- MODULE MCConversation ---------------------------
(* Instances of Conversation for TLC. *)
EXTENDS Conversation, TLC

CONSTANTS a1, c1, m1, m2, m3, m4, n1, o1, o2, x1, y1

\* Messages m1..m4, a /new n1, a /model x1, a /stats y1, and requests for the
\* model options o1, o2.
KindOf ==
  [t \in Tasks |->
     CASE t = n1 -> "new"
       [] t \in {o1, o2} -> "options"
       [] t = x1 -> "model"
       [] t = y1 -> "command"
       [] OTHER -> "message"]

\* Messages are interchangeable.
Messages == Permutations(Tasks \ {n1, o1, o2, x1, y1})

\* Messages meet, and a /new comes between them; nothing meets, and /model and
\* /stats come as well; messages meet while calls fail and time out; wrappers
\* crash under requests that take no lock.
Overlapping == [who |-> Tasks \ {x1, y1}, may |-> {"overlap"}]
Quiet == [who |-> Tasks, may |-> {}]
Crashing == [who |-> {o1, o2}, may |-> {"overlap", "fault", "crash", "shutdown"}]
Faulty == [who |-> Tasks \ {o1, o2}, may |-> {"overlap", "fault"}]

TurnScenarios == {Overlapping, Quiet}
FaultScenarios == {Faulty}
LiveScenarios == {Faulty, Crashing}
=============================================================================
