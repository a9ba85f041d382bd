------------------------- MODULE MCProviderRuntime -------------------------
(* Instances of ProviderRuntime for TLC. *)
EXTENDS ProviderRuntime, TLC

CONSTANTS a1, a2, c1, c2, t1, t2, t3

\* Two messages and a /new.
WithNew == t1 :> "message" @@ t2 :> "message" @@ t3 :> "new"

\* Two messages.
TwoMessages == t1 :> "message" @@ t2 :> "message"

\* Agents and channels are interchangeable.
Symmetry == Permutations({a1, a2}) \cup Permutations({c1, c2})
=============================================================================
