--------------------------- MODULE SequenceLemmas ---------------------------
(***************************************************************************)
(* What FlattenSeq, Keep and Found compute, for every input, and other     *)
(* facts on sequences that the proofs about texts share.  Induction is on  *)
(* the length (Induction) or by appending (SequenceInduction).             *)
(***************************************************************************)
EXTENDS Texts, SequenceTheorems, WellFoundedInduction, TLAPS

-----------------------------------------------------------------------------
(***************************************************************************)
(* Induction over a set of numbers, and what FlattenSeq joins.             *)
(***************************************************************************)

\* Induction over the numbers, for a set: the library's takes an operator, which
\* the provers cannot instantiate.
LEMMA Induction ==
  ASSUME NEW S, 0 \in S, \A n \in Nat : n \in S => n + 1 \in S
  PROVE  Nat \subseteq S
<1> SUFFICES ASSUME Nat \ S # {} PROVE FALSE
  OBVIOUS
<1>1. PICK m \in Nat \ S : \A y \in Nat \ S : <<y, m>> \notin OpToRel(<, Nat)
  BY NatLessThanWellFounded, WFMin
<1>2. m # 0 /\ m - 1 \in Nat
  OBVIOUS
<1>3. <<m - 1, m>> \in OpToRel(<, Nat)
  BY <1>2 DEF OpToRel
<1>4. m - 1 \in S
  BY <1>1, <1>2, <1>3
<1> QED
  BY <1>2, <1>4

\* The function FlattenSeq is defined by: what its first i sequences join to.
Joins(f, ss, n) == f = [i \in 1..n |-> IF i = 1 THEN ss[i] ELSE f[i-1] \o ss[i]]
Joined(ss) == CHOOSE f : Joins(f, ss, Len(ss))

\* The joins of the first texts of a list are a function.
LEMMA JoinsExists ==
  ASSUME NEW ss, NEW n \in Nat
  PROVE  \E f : Joins(f, ss, n)
<1> DEFINE E == {k \in Nat : \E g : Joins(g, ss, k)}
<1>1. 0 \in E
  <2>1. << >> = [i \in 1..0 |-> IF i = 1 THEN ss[i] ELSE << >>[i-1] \o ss[i]]
    OBVIOUS
  <2> QED
    BY <2>1 DEF Joins
<1>2. ASSUME NEW k \in Nat, k \in E
      PROVE  k + 1 \in E
  <2>1. PICK g : Joins(g, ss, k)
    BY <1>2
  <2> DEFINE h == [i \in 1..(k+1) |-> IF i <= k THEN g[i] ELSE IF i = 1 THEN ss[i] ELSE g[i-1] \o ss[i]]
  <2>2. ASSUME NEW i \in 1..(k+1)
        PROVE  h[i] = IF i = 1 THEN ss[i] ELSE h[i-1] \o ss[i]
    <3>1. CASE i = 1
      BY <2>1, <3>1 DEF Joins
    <3>2. CASE i # 1
      <4>1. i - 1 \in 1..k /\ i - 1 \in 1..(k+1)
        BY <3>2
      <4>2. h[i-1] = g[i-1]
        BY <4>1
      <4>3. CASE i <= k
        <5>1. h[i] = g[i] /\ i \in 1..k
          BY <4>3
        <5>2. g[i] = g[i-1] \o ss[i]
          BY <2>1, <5>1, <3>2, Zenon DEF Joins
        <5> QED
          BY <5>1, <5>2, <4>2, <3>2
      <4>4. CASE ~(i <= k)
        BY <4>4, <4>2, <3>2
      <4> QED BY <4>3, <4>4
    <3> QED BY <3>1, <3>2
  <2>3. h = [i \in 1..(k+1) |-> IF i = 1 THEN ss[i] ELSE h[i-1] \o ss[i]]
    BY <2>2
  <2> HIDE DEF h
  <2>4. Joins(h, ss, k + 1)
    BY <2>3 DEF Joins
  <2> QED
    BY <2>4
<1>3. Nat \subseteq E
  BY <1>1, <1>2, Induction
<1> QED
  BY <1>3

\* Each join is the one before with the next text at its end.
LEMMA JoinedIs ==
  ASSUME NEW T, NEW ss \in Seq(Seq(T))
  PROVE  /\ Len(ss) # 0 => Joined(ss)[1] = ss[1]
         /\ \A k \in Nat \ {0} : k + 1 <= Len(ss) => Joined(ss)[k+1] = Joined(ss)[k] \o ss[k+1]
<1> DEFINE f == Joined(ss)
<1>1. Len(ss) \in Nat
  BY LenProperties
<1>2. \E g : Joins(g, ss, Len(ss))
  BY <1>1, JoinsExists
<1>3. Joins(f, ss, Len(ss))
  BY <1>2 DEF Joined
<1>4. \A i \in 1..Len(ss) : f[i] = IF i = 1 THEN ss[i] ELSE f[i-1] \o ss[i]
  BY <1>3, Zenon DEF Joins
<1> HIDE DEF f
<1>5. Len(ss) # 0 => f[1] = ss[1]
  <2> SUFFICES ASSUME Len(ss) # 0 PROVE f[1] = ss[1]
    OBVIOUS
  <2>1. 1 \in 1..Len(ss)
    BY <1>1
  <2> QED BY <1>4, <2>1
<1>6. ASSUME NEW k \in Nat \ {0}, k + 1 <= Len(ss)
      PROVE  f[k+1] = f[k] \o ss[k+1]
  <2>1. k + 1 \in 1..Len(ss) /\ k + 1 # 1 /\ (k + 1) - 1 = k
    BY <1>1, <1>6
  <2> QED BY <1>4, <2>1
<1> QED
  BY <1>5, <1>6 DEF f

\* FlattenSeq is the last join.
LEMMA FlattenIsJoined ==
  ASSUME NEW T, NEW ss \in Seq(Seq(T))
  PROVE  FlattenSeq(ss) = IF Len(ss) = 0 THEN << >> ELSE Joined(ss)[Len(ss)]
<1>1. Len(ss) = 0 => ss = << >>
  OBVIOUS
<1> QED
  BY <1>1 DEF FlattenSeq, Joined, Joins

\* Joins are texts.
LEMMA JoinedType ==
  ASSUME NEW T, NEW ss \in Seq(Seq(T))
  PROVE  \A i \in 1..Len(ss) : Joined(ss)[i] \in Seq(T)
<1> DEFINE E == {i \in Nat : i \in 1..Len(ss) => Joined(ss)[i] \in Seq(T)}
<1>1. 0 \in E
  OBVIOUS
<1>2. ASSUME NEW k \in Nat, k \in E
      PROVE  k + 1 \in E
  <2> SUFFICES ASSUME k + 1 \in 1..Len(ss) PROVE Joined(ss)[k+1] \in Seq(T)
    OBVIOUS
  <2>1. ss[k+1] \in Seq(T)
    BY ElementOfSeq
  <2>2. CASE k = 0
    <3>1. k + 1 = 1 /\ Len(ss) # 0
      BY <2>2
    <3> QED BY <2>1, <3>1, JoinedIs
  <2>3. CASE k # 0
    <3>1. k \in 1..Len(ss) /\ Joined(ss)[k] \in Seq(T)
      BY <1>2, <2>3
    <3>2. Joined(ss)[k+1] = Joined(ss)[k] \o ss[k+1]
      <4>1. k \in Nat \ {0} /\ k + 1 <= Len(ss)
        BY <2>3
      <4> QED BY <4>1, JoinedIs
    <3> QED BY <2>1, <3>1, <3>2, ConcatProperties
  <2> QED BY <2>2, <2>3
<1>3. Nat \subseteq E
  BY <1>1, <1>2, Induction
<1> QED
  BY <1>3

\* The joins of a list's beginning are the beginning of its joins.
LEMMA JoinedPrefix ==
  ASSUME NEW T, NEW ss \in Seq(Seq(T)), NEW tt \in Seq(Seq(T)),
         Len(ss) <= Len(tt), \A i \in 1..Len(ss) : ss[i] = tt[i]
  PROVE  \A i \in 1..Len(ss) : Joined(ss)[i] = Joined(tt)[i]
<1> DEFINE E == {i \in Nat : i \in 1..Len(ss) => Joined(ss)[i] = Joined(tt)[i]}
<1>1. 0 \in E
  OBVIOUS
<1>2. ASSUME NEW k \in Nat, k \in E
      PROVE  k + 1 \in E
  <2> SUFFICES ASSUME k + 1 \in 1..Len(ss) PROVE Joined(ss)[k+1] = Joined(tt)[k+1]
    OBVIOUS
  <2>1. ss[k+1] = tt[k+1] /\ k + 1 \in 1..Len(tt)
    BY LenProperties
  <2>2. CASE k = 0
    <3>1. k + 1 = 1 /\ Len(ss) # 0 /\ Len(tt) # 0
      BY <2>1, <2>2
    <3> QED BY <2>1, <3>1, JoinedIs
  <2>3. CASE k # 0
    <3>1. Joined(ss)[k] = Joined(tt)[k]
      BY <1>2, <2>3
    <3>2. k \in Nat \ {0} /\ k + 1 <= Len(ss) /\ k + 1 <= Len(tt)
      BY <2>1, <2>3
    <3>3. Joined(ss)[k+1] = Joined(ss)[k] \o ss[k+1]
      BY <3>2, JoinedIs
    <3>4. Joined(tt)[k+1] = Joined(tt)[k] \o tt[k+1]
      BY <2>1, <3>2, JoinedIs
    <3> QED BY <2>1, <3>1, <3>3, <3>4
  <2> QED BY <2>2, <2>3
<1>3. Nat \subseteq E
  BY <1>1, <1>2, Induction
<1> QED
  BY <1>3

\* A list of texts is joined to a text.
LEMMA FlattenType ==
  ASSUME NEW T, NEW ss \in Seq(Seq(T))
  PROVE  FlattenSeq(ss) \in Seq(T)
BY FlattenIsJoined, JoinedType

\* No text at all is joined to an empty one.
LEMMA FlattenEmpty ==
  FlattenSeq(<< >>) = << >>
BY DEF FlattenSeq

\* A text appended to a list is the end of the joined text.
LEMMA FlattenAppend ==
  ASSUME NEW T, NEW ss \in Seq(Seq(T)), NEW t \in Seq(T)
  PROVE  FlattenSeq(Append(ss, t)) = FlattenSeq(ss) \o t
<1> DEFINE n == Len(ss)
           tt == Append(ss, t)
<1>1. /\ n \in Nat /\ tt \in Seq(Seq(T)) /\ Len(tt) = n + 1
      /\ \A i \in 1..n : ss[i] = tt[i]
      /\ tt[n+1] = t
  BY AppendProperties, LenProperties
<1> HIDE DEF tt
<1>2. FlattenSeq(tt) = Joined(tt)[n+1]
  BY <1>1, FlattenIsJoined
<1>3. CASE n = 0
  <2>1. FlattenSeq(tt) = t
    <3>1. Len(tt) # 0 /\ n + 1 = 1
      BY <1>1, <1>3
    <3> QED BY <1>1, <1>2, <3>1, JoinedIs
  <2>2. FlattenSeq(ss) = << >>
    BY <1>3, FlattenIsJoined
  <2> QED
    BY <2>1, <2>2, ConcatEmptySeq DEF tt
<1>4. CASE n # 0
  <2>1. n \in Nat \ {0} /\ n + 1 <= Len(tt) /\ n \in 1..n /\ n <= Len(tt)
    BY <1>1, <1>4
  <2>2. Joined(tt)[n+1] = Joined(tt)[n] \o tt[n+1]
    BY <1>1, <2>1, JoinedIs
  <2>3. Joined(ss)[n] = Joined(tt)[n]
    BY <1>1, <2>1, JoinedPrefix
  <2>4. FlattenSeq(ss) = Joined(ss)[n]
    BY <1>4, FlattenIsJoined
  <2> QED
    BY <1>1, <1>2, <2>2, <2>3, <2>4 DEF tt
<1> QED
  BY <1>3, <1>4

-----------------------------------------------------------------------------
(***************************************************************************)
(* Induction over sequences, and more of what FlattenSeq joins.            *)
(***************************************************************************)

\* A set that has the empty sequence, and with a sequence each that is one
\* element longer, has all of them.
LEMMA SequenceInduction ==
  ASSUME NEW T, NEW E, << >> \in E, \A s \in Seq(T), t \in T : s \in E => Append(s, t) \in E
  PROVE  Seq(T) \subseteq E
<1> DEFINE N == {n \in Nat : \A s \in Seq(T) : Len(s) = n => s \in E}
<1>1. 0 \in N
  BY EmptySeq
<1>2. ASSUME NEW n \in Nat, n \in N PROVE n + 1 \in N
  <2> SUFFICES ASSUME NEW s \in Seq(T), Len(s) = n + 1 PROVE s \in E
    OBVIOUS
  <2>1. s # << >>
    BY EmptySeq
  <2>2. PICK r \in Seq(T), t \in T : s = Append(r, t)
    BY <2>1, SequenceEmptyOrAppend
  <2>3. Len(r) = n
    BY <2>2, AppendProperties, LenProperties
  <2> QED BY <1>2, <2>2, <2>3
<1>3. Nat \subseteq N
  BY <1>1, <1>2, Induction
<1> QED
  BY <1>3, LenProperties

\* Associativity, for three sequences to be named: by itself, it applies to what
\* it yields without end.
Regroups(a, b, c) == (a \o b) \o c = a \o (b \o c)

LEMMA Regroup ==
  ASSUME NEW T, NEW a \in Seq(T), NEW b \in Seq(T), NEW c \in Seq(T)
  PROVE  Regroups(a, b, c)
BY ConcatAssociative DEF Regroups

\* An element appended to the second of two sequences is appended to both.
LEMMA AppendAtEnd ==
  ASSUME NEW T, NEW s \in Seq(T), NEW u \in Seq(T), NEW x \in T
  PROVE  /\ s \o Append(u, x) = Append(s \o u, x)
         /\ s \o u \in Seq(T) /\ Append(u, x) \in Seq(T)
<1>1. /\ Append(u, x) = u \o <<x>> /\ <<x>> \in Seq(T)
      /\ s \o u \in Seq(T) /\ Append(s \o u, x) = (s \o u) \o <<x>>
  BY ConcatProperties, AppendIsConcat
<1>2. (s \o u) \o <<x>> = s \o (u \o <<x>>)
  BY <1>1, ConcatAssociative
<1> QED
  BY <1>1, <1>2, AppendProperties

\* A single text is joined to itself.
LEMMA FlattenOne ==
  ASSUME NEW T, NEW t \in Seq(T)
  PROVE  FlattenSeq(<<t>>) = t
<1>1. << >> \in Seq(Seq(T)) /\ Append(<< >>, t) = <<t>>
  OBVIOUS
<1>2. FlattenSeq(Append(<< >>, t)) = FlattenSeq(<< >>) \o t
  BY <1>1, FlattenAppend
<1> QED
  BY <1>1, <1>2, FlattenEmpty, ConcatEmptySeq

\* Lists joined one after the other are the joined list.
LEMMA FlattenConcat ==
  ASSUME NEW T, NEW ss \in Seq(Seq(T)), NEW tt \in Seq(Seq(T))
  PROVE  FlattenSeq(ss \o tt) = FlattenSeq(ss) \o FlattenSeq(tt)
<1> DEFINE L == Seq(T)
           E == {uu \in Seq(L) : FlattenSeq(ss \o uu) = FlattenSeq(ss) \o FlattenSeq(uu)}
<1>1. << >> \in E
  BY FlattenEmpty, FlattenType, ConcatEmptySeq
<1>2. ASSUME NEW uu \in Seq(L), NEW t \in L, uu \in E PROVE Append(uu, t) \in E
  <2>1. ss \o Append(uu, t) = Append(ss \o uu, t) /\ ss \o uu \in Seq(L) /\ Append(uu, t) \in Seq(L)
    BY AppendAtEnd
  <2>2. FlattenSeq(Append(ss \o uu, t)) = FlattenSeq(ss \o uu) \o t
    BY <2>1, FlattenAppend
  <2>3. FlattenSeq(Append(uu, t)) = FlattenSeq(uu) \o t
    BY FlattenAppend
  <2>4. (FlattenSeq(ss) \o FlattenSeq(uu)) \o t = FlattenSeq(ss) \o (FlattenSeq(uu) \o t)
    <3>1. FlattenSeq(ss) \in Seq(T) /\ FlattenSeq(uu) \in Seq(T)
      BY FlattenType
    <3>2. Regroups(FlattenSeq(ss), FlattenSeq(uu), t)
      BY <3>1, Regroup
    <3> QED BY <3>2 DEF Regroups
  <2> QED BY <1>2, <2>1, <2>2, <2>3, <2>4
<1>3. Seq(L) \subseteq E
  <2> HIDE DEF E, L
  <2> QED BY <1>1, <1>2, SequenceInduction
<1> QED
  BY <1>3

\* A text in front of a list is the beginning of the joined text.
LEMMA FlattenFront ==
  ASSUME NEW T, NEW ss \in Seq(Seq(T)), NEW t \in Seq(T)
  PROVE  FlattenSeq(<<t>> \o ss) = t \o FlattenSeq(ss)
<1>1. <<t>> \in Seq(Seq(T))
  OBVIOUS
<1>2. FlattenSeq(<<t>> \o ss) = FlattenSeq(<<t>>) \o FlattenSeq(ss)
  BY <1>1, FlattenConcat, Zenon
<1> QED
  BY <1>2, FlattenOne

\* A text is its beginning and the rest.
LEMMA Split ==
  ASSUME NEW T, NEW s \in Seq(T), NEW m \in 0..Len(s)
  PROVE  /\ s = SubSeq(s, 1, m) \o SubSeq(s, m + 1, Len(s))
         /\ SubSeq(s, 1, m) \in Seq(T) /\ SubSeq(s, m + 1, Len(s)) \in Seq(T)
         /\ Len(SubSeq(s, 1, m)) = m /\ Len(SubSeq(s, m + 1, Len(s))) = Len(s) - m
<1>1. Len(s) \in Nat /\ 1 \in 1..(Len(s) + 1) /\ m \in (1 - 1)..Len(s) /\ Len(s) \in m..Len(s)
  BY LenProperties
<1>2. SubSeq(s, 1, m) \o SubSeq(s, m + 1, Len(s)) = SubSeq(s, 1, Len(s))
  BY <1>1, ConcatAdjacentSubSeq
<1>3. /\ \A i \in 1..m : s[i] \in T
      /\ \A i \in (m + 1)..Len(s) : s[i] \in T
  BY <1>1, ElementOfSeq
<1>4. /\ SubSeq(s, 1, m) \in Seq(T) /\ Len(SubSeq(s, 1, m)) = m
  BY <1>1, <1>3, SubSeqProperties
<1>5. SubSeq(s, m + 1, Len(s)) \in Seq(T) /\ Len(SubSeq(s, m + 1, Len(s))) = Len(s) - m
  BY <1>1, <1>3, SubSeqProperties
<1> QED
  BY <1>2, <1>4, <1>5, SubSeqFull

\* What a list from some place on is joined to.
LEMMA FlattenTail ==
  ASSUME NEW T, NEW ss \in Seq(Seq(T)), NEW m \in 1..Len(ss)
  PROVE  /\ ss[m] \in Seq(T) /\ SubSeq(ss, m + 1, Len(ss)) \in Seq(Seq(T))
         /\ FlattenSeq(SubSeq(ss, m, Len(ss))) = ss[m] \o FlattenSeq(SubSeq(ss, m + 1, Len(ss)))
<1> DEFINE L == Seq(T)
<1>1. Len(ss) \in Nat /\ m \in 0..Len(ss) /\ Len(ss) \in m..Len(ss)
  BY LenProperties
<1>2. ss[m] \in L /\ SubSeq(ss, m + 1, Len(ss)) \in Seq(L)
  BY <1>1, ElementOfSeq, Split
<1>3. SubSeq(ss, m, Len(ss)) = <<ss[m]>> \o SubSeq(ss, m + 1, Len(ss))
  BY <1>1, SubSeqRecursiveFirst
<1> QED
  BY <1>2, <1>3, FlattenFront

-----------------------------------------------------------------------------
(***************************************************************************)
(* Keep.                                                                   *)
(***************************************************************************)

\* Nothing is kept of nothing.
LEMMA KeepEmpty ==
  ASSUME NEW S
  PROVE  Keep(<< >>, S) = << >>
<1>1. [i \in DOMAIN << >> |-> IF << >>[i] \in S THEN <<<< >>[i]>> ELSE << >>] = << >>
  OBVIOUS
<1> QED
  BY <1>1, FlattenEmpty DEF Keep

\* The list Keep joins: its elements, each in a sequence of its own or dropped.
LEMMA KeepJoins ==
  ASSUME NEW T, NEW s \in Seq(T), NEW S
  PROVE  [i \in DOMAIN s |-> IF s[i] \in S THEN <<s[i]>> ELSE << >>] \in Seq(Seq(T))
<1>1. \A i \in 1..Len(s) : s[i] \in T
  BY ElementOfSeq
<1>2. DOMAIN s = 1..Len(s) /\ Len(s) \in Nat
  BY LenProperties
<1>3. \A x \in T : <<x>> \in Seq(T) /\ << >> \in Seq(T)
  OBVIOUS
<1> QED
  BY <1>1, <1>2, <1>3

\* What is kept is of the same kind.
LEMMA KeepType ==
  ASSUME NEW T, NEW s \in Seq(T), NEW S
  PROVE  Keep(s, S) \in Seq(T)
BY KeepJoins, FlattenType DEF Keep

\* An element at the end is kept or not.
LEMMA KeepAppend ==
  ASSUME NEW T, NEW s \in Seq(T), NEW t \in T, NEW S
  PROVE  Keep(Append(s, t), S) = Keep(s, S) \o (IF t \in S THEN <<t>> ELSE << >>)
<1> DEFINE r == Append(s, t)
           one == IF t \in S THEN <<t>> ELSE << >>
           ss == [i \in DOMAIN s |-> IF s[i] \in S THEN <<s[i]>> ELSE << >>]
           rr == [i \in DOMAIN r |-> IF r[i] \in S THEN <<r[i]>> ELSE << >>]
<1>1. /\ r \in Seq(T) /\ Len(r) = Len(s) + 1 /\ r[Len(s) + 1] = t
      /\ \A i \in 1..Len(s) : r[i] = s[i]
      /\ Len(s) \in Nat /\ DOMAIN s = 1..Len(s) /\ DOMAIN r = 1..(Len(s) + 1)
  BY AppendProperties, LenProperties
<1>2. ss \in Seq(Seq(T)) /\ rr \in Seq(Seq(T)) /\ one \in Seq(T)
  <2>1. one \in Seq(T)
    OBVIOUS
  <2> HIDE DEF r, one
  <2> QED BY <1>1, <2>1, KeepJoins
<1>3. rr = Append(ss, one)
  <2> DEFINE L == Seq(T)
             n == Len(s)
  <2>1. Len(ss) = n /\ Len(rr) = n + 1
    BY <1>1
  <2>2. /\ Append(ss, one) \in Seq(L) /\ Len(Append(ss, one)) = n + 1
        /\ \A i \in 1..n : Append(ss, one)[i] = ss[i]
        /\ Append(ss, one)[n + 1] = one
    <3> HIDE DEF ss, one, L, n
    <3> QED BY <1>2, <2>1, AppendProperties DEF L
  <2>3. \A i \in 1..n : rr[i] = ss[i]
    <3> HIDE DEF r
    <3> QED BY <1>1
  <2>4. rr[n + 1] = one
    <3> HIDE DEF r
    <3> QED BY <1>1
  <2>5. \A i \in 1..(n + 1) : rr[i] = Append(ss, one)[i]
    <3> HIDE DEF rr, ss, one
    <3> QED BY <1>1, <2>2, <2>3, <2>4
  <2> HIDE DEF rr, ss, one, L, n
  <2> QED BY <1>2, <2>1, <2>2, <2>5, SeqEqual DEF L
<1>4. Keep(r, S) = FlattenSeq(rr) /\ Keep(s, S) = FlattenSeq(ss)
  BY DEF Keep
<1> HIDE DEF rr, ss, one
<1>5. FlattenSeq(rr) = FlattenSeq(ss) \o one
  BY <1>2, <1>3, FlattenAppend
<1> QED
  BY <1>4, <1>5 DEF one

\* What is kept of two sequences is kept of each.
LEMMA KeepConcat ==
  ASSUME NEW T, NEW s \in Seq(T), NEW t \in Seq(T), NEW K
  PROVE  Keep(s \o t, K) = Keep(s, K) \o Keep(t, K)
<1> DEFINE E == {u \in Seq(T) : Keep(s \o u, K) = Keep(s, K) \o Keep(u, K)}
<1>1. << >> \in E
  <2>1. Keep(s, K) \in Seq(T) /\ s \o << >> = s
    BY KeepType
  <2> QED BY <2>1, KeepEmpty
<1>2. ASSUME NEW u \in Seq(T), NEW x \in T, u \in E PROVE Append(u, x) \in E
  <2> DEFINE one == IF x \in K THEN <<x>> ELSE << >>
  <2>1. s \o Append(u, x) = Append(s \o u, x) /\ s \o u \in Seq(T) /\ Append(u, x) \in Seq(T)
    BY AppendAtEnd
  <2>2. one \in Seq(T) /\ Keep(s, K) \in Seq(T) /\ Keep(u, K) \in Seq(T)
    BY KeepType
  <2>3. Keep(Append(s \o u, x), K) = Keep(s \o u, K) \o one
    BY <2>1, KeepAppend, ZenonT(60)
  <2>4. Keep(Append(u, x), K) = Keep(u, K) \o one
    BY KeepAppend, ZenonT(60)
  <2> HIDE DEF one
  <2>5. Regroups(Keep(s, K), Keep(u, K), one)
    BY <2>2, Regroup
  <2>6. (Keep(s, K) \o Keep(u, K)) \o one = Keep(s, K) \o (Keep(u, K) \o one)
    BY <2>5 DEF Regroups
  <2> QED BY <1>2, <2>1, <2>3, <2>4, <2>6
<1>3. Seq(T) \subseteq E
  <2> HIDE DEF E
  <2> QED BY <1>1, <1>2, SequenceInduction
<1> QED
  BY <1>3

\* The same, for two sequences to be named.
KeepsApart(s, t, K) == Keep(s \o t, K) = Keep(s, K) \o Keep(t, K)

LEMMA KeepApart ==
  ASSUME NEW T, NEW s \in Seq(T), NEW t \in Seq(T), NEW K
  PROVE  KeepsApart(s, t, K)
BY KeepConcat DEF KeepsApart

\* Nothing is kept of a sequence that has nothing of the set.
LEMMA KeepNone ==
  ASSUME NEW T, NEW S, NEW s \in Seq(T), \A i \in 1..Len(s) : s[i] \notin S
  PROVE  Keep(s, S) = << >>
<1> DEFINE E == {u \in Seq(T) : (\A i \in 1..Len(u) : u[i] \notin S) => Keep(u, S) = << >>}
<1>1. << >> \in E
  BY KeepEmpty
<1>2. ASSUME NEW u \in Seq(T), NEW x \in T, u \in E PROVE Append(u, x) \in E
  <2>1. /\ Append(u, x) \in Seq(T) /\ Len(Append(u, x)) = Len(u) + 1 /\ Len(u) \in Nat
        /\ \A i \in 1..Len(u) : Append(u, x)[i] = u[i]
        /\ Append(u, x)[Len(u) + 1] = x
    BY AppendProperties, LenProperties
  <2> SUFFICES ASSUME \A i \in 1..Len(Append(u, x)) : Append(u, x)[i] \notin S
               PROVE  Keep(Append(u, x), S) = << >>
    BY <2>1
  <2>2. x \notin S /\ \A i \in 1..Len(u) : u[i] \notin S
    BY <2>1
  <2>3. Keep(Append(u, x), S) = Keep(u, S) \o << >>
    BY <2>2, KeepAppend
  <2>4. Keep(u, S) = << >>
    BY <1>2, <2>2
  <2>5. << >> \in Seq(T)
    OBVIOUS
  <2> QED BY <2>3, <2>4, <2>5, ConcatEmptySeq
<1>3. Seq(T) \subseteq E
  <2> HIDE DEF E
  <2> QED BY <1>1, <1>2, SequenceInduction
<1> QED
  BY <1>3

LEMMA OneMore ==
  ASSUME NEW n \in Nat, NEW k \in 0..n, NEW o \in 0..1
  PROVE  k + o \in 0..(n + 1)
OBVIOUS

\* A sequence that is kept is no longer than it was.
LEMMA KeepShorter ==
  ASSUME NEW T, NEW K, NEW s \in Seq(T)
  PROVE  Len(Keep(s, K)) \in 0..Len(s)
<1> DEFINE E == {u \in Seq(T) : Len(Keep(u, K)) \in 0..Len(u)}
<1>1. << >> \in E
  BY KeepEmpty
<1>2. ASSUME NEW u \in Seq(T), NEW x \in T, u \in E PROVE Append(u, x) \in E
  <2> DEFINE one == IF x \in K THEN <<x>> ELSE << >>
  <2>1. Append(u, x) \in Seq(T) /\ Len(Append(u, x)) = Len(u) + 1 /\ Len(u) \in Nat
    BY AppendProperties, LenProperties
  <2>2. one \in Seq(T) /\ Len(one) \in 0..1
    OBVIOUS
  <2>3. Keep(Append(u, x), K) = Keep(u, K) \o one /\ Keep(u, K) \in Seq(T)
    BY KeepAppend, KeepType
  <2> HIDE DEF one
  <2> DEFINE n == Len(u)
             k == Len(Keep(u, K))
             l == Len(Keep(Append(u, x), K))
  <2>4. l = k + Len(one)
    BY <2>2, <2>3, ConcatProperties
  <2>5. k \in 0..n /\ n \in Nat /\ Len(one) \in 0..1 /\ Len(Append(u, x)) = n + 1
    BY <1>2, <2>1, <2>2
  <2> HIDE DEF n, k, l
  <2>6. l \in 0..(n + 1)
    BY <2>4, <2>5, OneMore
  <2>7. Len(Keep(Append(u, x), K)) \in 0..Len(Append(u, x))
    BY <2>5, <2>6 DEF l
  <2> QED BY <2>1, <2>7
<1>3. Seq(T) \subseteq E
  <2> HIDE DEF E
  <2> QED BY <1>1, <1>2, SequenceInduction
<1> QED
  BY <1>3

\* Texts can be dropped from a list when nothing would be kept of them.
LEMMA KeepOfKept ==
  ASSUME NEW T, NEW K, NEW P, NEW ss \in Seq(Seq(T)),
         \A i \in 1..Len(ss) : ss[i] \in P \/ Keep(ss[i], K) = << >>
  PROVE  Keep(FlattenSeq(Keep(ss, P)), K) = Keep(FlattenSeq(ss), K)
<1> DEFINE L == Seq(T)
           Ok(uu) == \A i \in 1..Len(uu) : uu[i] \in P \/ Keep(uu[i], K) = << >>
           Same(uu) == Keep(FlattenSeq(Keep(uu, P)), K) = Keep(FlattenSeq(uu), K)
           E == {uu \in Seq(L) : Ok(uu) => Same(uu)}
<1>1. << >> \in E
  <2>1. Same(<< >>)
    BY KeepEmpty, FlattenEmpty
  <2>2. << >> \in Seq(L)
    OBVIOUS
  <2> HIDE DEF Ok, Same
  <2> QED BY <2>1, <2>2
<1>2. ASSUME NEW uu \in Seq(L), NEW t \in L, uu \in E PROVE Append(uu, t) \in E
  <2> DEFINE vv == Append(uu, t)
             one == IF t \in P THEN <<t>> ELSE << >>
             kk == Keep(uu, P)
  <2>1. /\ vv \in Seq(L) /\ Len(vv) = Len(uu) + 1 /\ Len(uu) \in Nat
        /\ \A i \in 1..Len(uu) : vv[i] = uu[i]
        /\ vv[Len(uu) + 1] = t
    BY AppendProperties, LenProperties
  <2> SUFFICES ASSUME Ok(vv) PROVE Same(vv)
    BY <2>1
  <2>2. Ok(uu) /\ (t \in P \/ Keep(t, K) = << >>)
    <3> HIDE DEF vv
    <3> QED BY <2>1
  <2>3. Same(uu)
    BY <1>2, <2>2
  <2>4. kk \in Seq(L) /\ one \in Seq(L) /\ Keep(vv, P) = kk \o one
    <3>1. kk \in Seq(L)
      BY KeepType
    <3>2. one \in Seq(L)
      OBVIOUS
    <3>3. Keep(vv, P) = kk \o one
      <4> HIDE DEF L
      <4> QED BY KeepAppend
    <3> QED BY <3>1, <3>2, <3>3
  <2>5. FlattenSeq(kk \o one) = FlattenSeq(kk) \o FlattenSeq(one)
    <3> HIDE DEF kk, one
    <3> QED BY <2>4, FlattenConcat
  <2>6. FlattenSeq(vv) = FlattenSeq(uu) \o t
    BY FlattenAppend
  <2>7. /\ FlattenSeq(kk) \in Seq(T) /\ FlattenSeq(uu) \in Seq(T) /\ t \in Seq(T)
        /\ FlattenSeq(one) \in Seq(T) /\ Keep(FlattenSeq(one), K) = Keep(t, K)
    <3>1. FlattenSeq(kk) \in Seq(T) /\ FlattenSeq(uu) \in Seq(T) /\ t \in Seq(T)
      <4> HIDE DEF kk
      <4> QED BY <2>4, FlattenType
    <3>2. CASE t \in P
      <4>1. one = <<t>> /\ FlattenSeq(<<t>>) = t
        BY <3>2, FlattenOne
      <4> QED BY <3>1, <4>1
    <3>3. CASE t \notin P
      <4>1. one = << >> /\ Keep(t, K) = << >>
        BY <2>2, <3>3
      <4>2. FlattenSeq(<< >>) = << >> /\ Keep(<< >>, K) = << >> /\ << >> \in Seq(T)
        BY FlattenEmpty, KeepEmpty
      <4> HIDE DEF one
      <4> QED BY <3>1, <4>1, <4>2
    <3> QED BY <3>2, <3>3
  <2> HIDE DEF vv, one, kk
  <2>8. Keep(FlattenSeq(kk) \o FlattenSeq(one), K) = Keep(FlattenSeq(kk), K) \o Keep(t, K)
    <3>1. Keep(FlattenSeq(kk) \o FlattenSeq(one), K) = Keep(FlattenSeq(kk), K) \o Keep(FlattenSeq(one), K)
      <4>1. KeepsApart(FlattenSeq(kk), FlattenSeq(one), K)
        BY <2>7, KeepApart
      <4> QED BY <4>1 DEF KeepsApart
    <3> QED BY <3>1, <2>7
  <2>9. Keep(FlattenSeq(uu) \o t, K) = Keep(FlattenSeq(uu), K) \o Keep(t, K)
    <3>1. KeepsApart(FlattenSeq(uu), t, K)
      BY <2>7, KeepApart
    <3> QED BY <3>1 DEF KeepsApart
  <2>10. Keep(FlattenSeq(kk), K) = Keep(FlattenSeq(uu), K)
    BY <2>3 DEF kk
  <2> QED BY <2>4, <2>5, <2>6, <2>8, <2>9, <2>10
<1>3. Seq(L) \subseteq E
  <2> HIDE DEF E, L
  <2> QED BY <1>1, <1>2, SequenceInduction
<1>4. Ok(ss) /\ ss \in E
  BY <1>3
<1> QED
  BY <1>4
-----------------------------------------------------------------------------
(***************************************************************************)
(* Found and Within.                                                       *)
(***************************************************************************)

\* The function Found is defined by: how many are found in the first i elements.
FindsUpTo(f, s, t, n) == f = [i \in 0..n |-> IF i = 0 THEN 0 ELSE NextFound(s, f[i-1], t[i])]
FoundUpTo(s, t) == CHOOSE f : FindsUpTo(f, s, t, Len(t))

\* How many are found in the beginnings of a text is a function.
LEMMA FindsExist ==
  ASSUME NEW s, NEW t, NEW n \in Nat
  PROVE  \E f : FindsUpTo(f, s, t, n)
<1> DEFINE E == {k \in Nat : \E g : FindsUpTo(g, s, t, k)}
<1>1. 0 \in E
  <2> DEFINE h == [i \in 0..0 |-> 0]
  <2>1. h = [i \in 0..0 |-> IF i = 0 THEN 0 ELSE NextFound(s, h[i-1], t[i])]
    OBVIOUS
  <2> HIDE DEF h
  <2>2. FindsUpTo(h, s, t, 0)
    BY <2>1 DEF FindsUpTo
  <2> QED BY <2>2
<1>2. ASSUME NEW k \in Nat, k \in E PROVE k + 1 \in E
  <2>1. PICK g : FindsUpTo(g, s, t, k)
    BY <1>2
  <2>2. g = [i \in 0..k |-> IF i = 0 THEN 0 ELSE NextFound(s, g[i-1], t[i])]
    BY <2>1 DEF FindsUpTo
  <2> DEFINE h == [i \in 0..(k+1) |-> IF i <= k THEN g[i] ELSE NextFound(s, g[i-1], t[i])]
  <2>3. ASSUME NEW i \in 0..(k+1)
        PROVE  h[i] = IF i = 0 THEN 0 ELSE NextFound(s, h[i-1], t[i])
    <3>1. CASE i = 0
      BY <2>2, <3>1
    <3>2. CASE i # 0
      <4>1. i - 1 \in 0..k /\ i - 1 \in 0..(k+1) /\ i - 1 <= k
        BY <3>2
      <4>2. h[i-1] = g[i-1]
        BY <4>1
      <4>3. CASE i <= k
        <5>1. h[i] = g[i] /\ i \in 0..k
          BY <4>3
        <5>2. g[i] = NextFound(s, g[i-1], t[i])
          BY <2>2, <5>1, <3>2, Zenon
        <5> QED BY <5>1, <5>2, <4>2, <3>2
      <4>4. CASE ~(i <= k)
        BY <4>4, <4>2, <3>2
      <4> QED BY <4>3, <4>4
    <3> QED BY <3>1, <3>2
  <2>4. h = [i \in 0..(k+1) |-> IF i = 0 THEN 0 ELSE NextFound(s, h[i-1], t[i])]
    BY <2>3
  <2> HIDE DEF h
  <2>5. FindsUpTo(h, s, t, k + 1)
    BY <2>4 DEF FindsUpTo
  <2> QED BY <2>5
<1>3. Nat \subseteq E
  BY <1>1, <1>2, Induction
<1> QED
  BY <1>3

\* What Found computes, element by element.
LEMMA FoundIs ==
  ASSUME NEW T, NEW s, NEW t \in Seq(T)
  PROVE  /\ FoundUpTo(s, t)[0] = 0
         /\ \A i \in 1..Len(t) : FoundUpTo(s, t)[i] = NextFound(s, FoundUpTo(s, t)[i-1], t[i])
         /\ Found(s, t) = FoundUpTo(s, t)[Len(t)]
<1> DEFINE f == FoundUpTo(s, t)
<1>1. Len(t) \in Nat
  BY LenProperties
<1>2. \E g : FindsUpTo(g, s, t, Len(t))
  BY <1>1, FindsExist
<1>3. FindsUpTo(f, s, t, Len(t))
  BY <1>2 DEF FoundUpTo
<1>4. Found(s, t) = f[Len(t)]
  BY DEF Found, FoundUpTo, FindsUpTo
<1> HIDE DEF f
<1>5. \A i \in 0..Len(t) : f[i] = IF i = 0 THEN 0 ELSE NextFound(s, f[i-1], t[i])
  BY <1>3, Zenon DEF FindsUpTo
<1>6. f[0] = 0
  BY <1>1, <1>5
<1>7. ASSUME NEW i \in 1..Len(t) PROVE f[i] = NextFound(s, f[i-1], t[i])
  <2>1. i \in 0..Len(t) /\ i # 0
    BY <1>1
  <2> QED BY <1>5, <2>1
<1> QED
  BY <1>4, <1>6, <1>7 DEF f

\* No more are found than there are.
LEMMA FoundType ==
  ASSUME NEW T, NEW s \in Seq(T), NEW t \in Seq(T)
  PROVE  /\ \A i \in 0..Len(t) : FoundUpTo(s, t)[i] \in 0..Len(s)
         /\ Found(s, t) \in 0..Len(s)
<1> DEFINE E == {i \in Nat : i \in 0..Len(t) => FoundUpTo(s, t)[i] \in 0..Len(s)}
<1>0. Len(s) \in Nat /\ Len(t) \in Nat
  BY LenProperties
<1>1. 0 \in E
  BY <1>0, FoundIs
<1>2. ASSUME NEW k \in Nat, k \in E PROVE k + 1 \in E
  <2> SUFFICES ASSUME k + 1 \in 0..Len(t) PROVE FoundUpTo(s, t)[k+1] \in 0..Len(s)
    OBVIOUS
  <2>1. k \in 0..Len(t) /\ k + 1 \in 1..Len(t) /\ (k + 1) - 1 = k
    BY <1>0
  <2>2. FoundUpTo(s, t)[k] \in 0..Len(s)
    BY <1>2, <2>1
  <2>3. FoundUpTo(s, t)[k+1] = NextFound(s, FoundUpTo(s, t)[k], t[k+1])
    BY <2>1, FoundIs
  <2> QED BY <1>0, <2>2, <2>3 DEF NextFound
<1>3. Nat \subseteq E
  <2> HIDE DEF E
  <2> QED BY <1>1, <1>2, Induction
<1>4. \A i \in 0..Len(t) : FoundUpTo(s, t)[i] \in 0..Len(s)
  BY <1>3
<1> QED
  BY <1>0, <1>4, FoundIs

\* What comes behind a text changes nothing of what is found in it.
LEMMA FoundInFront ==
  ASSUME NEW T, NEW s \in Seq(T), NEW t \in Seq(T), NEW u \in Seq(T)
  PROVE  FoundUpTo(s, t \o u)[Len(t)] = Found(s, t)
<1> DEFINE w == t \o u
           E == {i \in Nat : i \in 0..Len(t) => FoundUpTo(s, w)[i] = FoundUpTo(s, t)[i]}
<1>0. /\ Len(t) \in Nat /\ Len(u) \in Nat /\ w \in Seq(T) /\ Len(w) = Len(t) + Len(u)
      /\ \A i \in 1..Len(t) : w[i] = t[i]
  BY ConcatProperties, LenProperties
<1> HIDE DEF w
<1>1. 0 \in E
  BY <1>0, FoundIs
<1>2. ASSUME NEW k \in Nat, k \in E PROVE k + 1 \in E
  <2> SUFFICES ASSUME k + 1 \in 0..Len(t) PROVE FoundUpTo(s, w)[k+1] = FoundUpTo(s, t)[k+1]
    OBVIOUS
  <2>1. k \in 0..Len(t) /\ k + 1 \in 1..Len(t) /\ k + 1 \in 1..Len(w) /\ (k + 1) - 1 = k
    BY <1>0
  <2>2. FoundUpTo(s, w)[k] = FoundUpTo(s, t)[k] /\ w[k+1] = t[k+1]
    BY <1>0, <1>2, <2>1
  <2>3. FoundUpTo(s, t)[k+1] = NextFound(s, FoundUpTo(s, t)[k], t[k+1])
    BY <2>1, FoundIs
  <2>4. FoundUpTo(s, w)[k+1] = NextFound(s, FoundUpTo(s, w)[k], w[k+1])
    BY <1>0, <2>1, FoundIs
  <2> QED BY <2>2, <2>3, <2>4
<1>3. Nat \subseteq E
  <2> HIDE DEF E
  <2> QED BY <1>1, <1>2, Induction
<1>4. Len(t) \in E /\ Len(t) \in 0..Len(t)
  BY <1>0, <1>3
<1>5. FoundUpTo(s, w)[Len(t)] = FoundUpTo(s, t)[Len(t)]
  BY <1>4
<1> QED
  BY <1>5, FoundIs DEF w

\* When k are found in a text, and then what comes next, so many more are.
LEMMA FoundMore ==
  ASSUME NEW T, NEW s \in Seq(T), NEW t \in Seq(T), NEW u \in Seq(T),
         NEW k \in Nat, k + Len(u) <= Len(s), \A i \in 1..Len(u) : s[k+i] = u[i],
         Found(s, t) >= k
  PROVE  Found(s, t \o u) >= k + Len(u)
<1> DEFINE w == t \o u
           m == Len(t)
           f == FoundUpTo(s, w)
           E == {j \in Nat : j \in 0..Len(u) => f[m+j] >= k + j}
<1>0. /\ m \in Nat /\ Len(u) \in Nat /\ Len(s) \in Nat /\ w \in Seq(T) /\ Len(w) = m + Len(u)
      /\ \A i \in 1..Len(w) : w[i] = IF i <= m THEN t[i] ELSE u[i-m]
  BY ConcatProperties, LenProperties
<1>1. f[m] = Found(s, t)
  BY FoundInFront
<1> HIDE DEF w
<1>2. /\ \A i \in 0..Len(w) : f[i] \in 0..Len(s)
      /\ \A i \in 1..Len(w) : f[i] = NextFound(s, f[i-1], w[i])
      /\ Found(s, w) = f[Len(w)]
  <2>1. w \in Seq(T)
    BY <1>0
  <2>2. \A i \in 0..Len(w) : f[i] \in 0..Len(s)
    BY <2>1, FoundType
  <2>3. (\A i \in 1..Len(w) : f[i] = NextFound(s, f[i-1], w[i])) /\ Found(s, w) = f[Len(w)]
    BY <2>1, FoundIs
  <2> QED BY <2>2, <2>3
<1> HIDE DEF f, m
<1>3. 0 \in E
  BY <1>0, <1>1
<1>4. ASSUME NEW j \in Nat, j \in E PROVE j + 1 \in E
  <2> SUFFICES ASSUME j + 1 \in 0..Len(u) PROVE f[m+(j+1)] >= k + (j + 1)
    OBVIOUS
  <2> DEFINE a == f[m+j]
  <2>1. /\ j \in 0..Len(u) /\ j + 1 \in 1..Len(u) /\ m + (j + 1) \in 1..Len(w) /\ m + j \in 0..Len(w)
        /\ (m + (j + 1)) - 1 = m + j /\ (m + (j + 1)) - m = j + 1 /\ ~(m + (j + 1) <= m)
    BY <1>0
  <2>2. a >= k + j /\ a \in 0..Len(s)
    BY <1>2, <1>4, <2>1
  <2>3. w[m+(j+1)] = u[j+1] /\ s[k+(j+1)] = u[j+1]
    BY <1>0, <2>1
  <2>4. f[m+(j+1)] = NextFound(s, a, u[j+1])
    BY <1>2, <2>1, <2>3
  <2> HIDE DEF a
  <2>5. CASE a >= k + (j + 1)
    <3>1. NextFound(s, a, u[j+1]) \in {a, a + 1}
      BY Zenon DEF NextFound
    <3>2. a \in Nat
      BY <1>0, <2>2
    <3>3. NextFound(s, a, u[j+1]) >= k + (j + 1)
      BY <2>5, <3>1, <3>2
    <3> QED BY <2>4, <3>3
  <2>6. CASE ~(a >= k + (j + 1))
    <3>1. a = k + j /\ a + 1 = k + (j + 1) /\ a < Len(s)
      BY <1>0, <2>1, <2>2, <2>6
    <3>2. NextFound(s, a, u[j+1]) = a + 1
      BY <2>3, <3>1 DEF NextFound
    <3> QED BY <1>0, <2>4, <3>1, <3>2
  <2> QED BY <2>5, <2>6
<1>5. Nat \subseteq E
  <2> HIDE DEF E
  <2> QED BY <1>3, <1>4, Induction
<1>6. f[m+Len(u)] >= k + Len(u)
  BY <1>0, <1>5
<1> QED
  BY <1>0, <1>2, <1>6 DEF w

\* Nothing that comes behind a text takes from what was found in it.
LEMMA FoundStays ==
  ASSUME NEW T, NEW s \in Seq(T), NEW t \in Seq(T), NEW u \in Seq(T)
  PROVE  Found(s, t \o u) >= Found(s, t)
<1> DEFINE w == t \o u
           m == Len(t)
           f == FoundUpTo(s, w)
           E == {j \in Nat : j \in 0..Len(u) => f[m+j] >= f[m]}
<1>0. m \in Nat /\ Len(u) \in Nat /\ Len(s) \in Nat /\ w \in Seq(T) /\ Len(w) = m + Len(u)
  BY ConcatProperties, LenProperties
<1>1. f[m] = Found(s, t)
  BY FoundInFront
<1> HIDE DEF w
<1>2. /\ \A i \in 0..Len(w) : f[i] \in 0..Len(s)
      /\ \A i \in 1..Len(w) : f[i] = NextFound(s, f[i-1], w[i])
      /\ Found(s, w) = f[Len(w)]
  <2>1. w \in Seq(T)
    BY <1>0
  <2>2. \A i \in 0..Len(w) : f[i] \in 0..Len(s)
    BY <2>1, FoundType
  <2>3. (\A i \in 1..Len(w) : f[i] = NextFound(s, f[i-1], w[i])) /\ Found(s, w) = f[Len(w)]
    BY <2>1, FoundIs
  <2> QED BY <2>2, <2>3
<1> HIDE DEF f, m
<1>3. f[m] \in Nat
  BY <1>0, <1>2
<1>4. 0 \in E
  BY <1>0, <1>3
<1>5. ASSUME NEW j \in Nat, j \in E PROVE j + 1 \in E
  <2> SUFFICES ASSUME j + 1 \in 0..Len(u) PROVE f[m+(j+1)] >= f[m]
    OBVIOUS
  <2>1. /\ j \in 0..Len(u) /\ m + (j + 1) \in 1..Len(w) /\ m + j \in 0..Len(w)
        /\ (m + (j + 1)) - 1 = m + j
    BY <1>0
  <2>2. f[m+j] >= f[m] /\ f[m+j] \in Nat
    BY <1>0, <1>2, <1>5, <2>1
  <2>3. f[m+(j+1)] = NextFound(s, f[m+j], w[m+(j+1)])
    BY <1>2, <2>1
  <2> QED BY <1>3, <2>2, <2>3 DEF NextFound
<1>6. Nat \subseteq E
  <2> HIDE DEF E
  <2> QED BY <1>4, <1>5, Induction
<1>7. f[m+Len(u)] >= f[m]
  BY <1>0, <1>6
<1> QED
  BY <1>0, <1>1, <1>2, <1>7 DEF w
=============================================================================
