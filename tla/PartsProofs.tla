---------------------------- MODULE PartsProofs -----------------------------
(***************************************************************************)
(* Proofs about the components that share nothing with each other: Cron,   *)
(* the minutes a job runs in; CodexThreads, the thread a channel's         *)
(* messages go to; Memory, the files turns and runs are written to;        *)
(* Interactions, the tickets of menus; Subagents, their workspaces; and    *)
(* Processes, for types.  Each is proved for a behaviour of its own; at    *)
(* the end MCParts, which puts them beside Answer, ChunkText and           *)
(* JsonStream, is shown to be a behaviour of each.                         *)
(*                                                                         *)
(* The library's induction theorems take an operator.  Where a smallest    *)
(* number is needed it comes from WFMin, which does not.                   *)
(***************************************************************************)
EXTENDS MCParts, AnswerProofs, TextProofs

\* A sequence with one more element in front.
LEMMA InFront ==
  ASSUME NEW S, NEW e \in S, NEW s \in Seq(S), NEW r, r = <<e>> \o s
  PROVE  /\ r \in Seq(S) /\ Len(r) = Len(s) + 1 /\ DOMAIN r = 1..(Len(s) + 1) /\ Len(s) \in Nat
         /\ r[1] = e /\ \A i \in 1..Len(s) : r[i + 1] = s[i]
<1> DEFINE one == <<e>>
           n == Len(s)
<1>1. one \in Seq(S) /\ Len(one) = 1 /\ one[1] = e /\ n \in Nat
  OBVIOUS
<1> HIDE DEF one
<1>2. r = one \o s
  BY DEF one
<1>3. /\ r \in Seq(S) /\ Len(r) = Len(one) + n
      /\ \A i \in 1..(Len(one) + n) : r[i] = IF i <= Len(one) THEN one[i] ELSE s[i - Len(one)]
  BY <1>1, <1>2, ConcatProperties
<1> HIDE DEF n
<1>4. Len(r) = n + 1
  BY <1>1, <1>3
<1>5. r[1] = e
  BY <1>1, <1>3
<1>6. \A i \in 1..n : r[i + 1] = s[i]
  <2> SUFFICES ASSUME NEW i \in 1..n PROVE r[i + 1] = s[i]
    OBVIOUS
  <2>1. i + 1 \in 1..(1 + n) /\ ~(i + 1 <= 1) /\ (i + 1) - 1 = i
    BY <1>1
  <2> QED BY <1>1, <1>3, <2>1
<1>7. DOMAIN r = 1..(n + 1)
  BY <1>3, <1>4, LenProperties
<1> QED
  BY <1>1, <1>3, <1>4, <1>5, <1>6, <1>7 DEF n

-----------------------------------------------------------------------------
(***************************************************************************)
(* Cron: a run for each minute that is asked for, and one.                 *)
(***************************************************************************)

\* Quotients and remainders.
LEMMA QuotientFacts ==
  ASSUME NEW a \in Int, NEW s \in Nat \ {0}
  PROVE  /\ a \div s \in Int /\ a % s \in 0..(s - 1)
         /\ a = (a \div s) * s + (a % s)
         /\ (a \div s) * s <= a /\ a < (a \div s) * s + s
OBVIOUS

\* Multiples are ordered as their factors.
LEMMA ProductFacts ==
  ASSUME NEW s \in Nat \ {0}, NEW i \in Int, NEW j \in Int
  PROVE  /\ i * s \in Int
         /\ i <= j => i * s <= j * s
         /\ i * s < j * s + s => i <= j
         /\ (i + 1) * s = i * s + s
         /\ 0 * s = 0
<1>1. i * s \in Int /\ j * s \in Int /\ 0 * s = 0 /\ (i + 1) * s = i * s + s
  OBVIOUS
<1>2. ASSUME NEW x \in Int, NEW y \in Int, x <= y
      PROVE  x * s <= y * s
  <2> DEFINE k == y - x
  <2>1. k \in Nat /\ y = x + k
    BY <1>2
  <2>2. k * s \in Nat
    BY <2>1
  <2>3. (x + k) * s = x * s + k * s /\ x * s \in Int
    BY <2>1
  <2>4. y * s = x * s + k * s
    BY <2>1, <2>3
  <2> HIDE DEF k
  <2> DEFINE m == x * s
             n == k * s
             h == y * s
  <2>5. m \in Int /\ n \in Nat /\ h = m + n
    BY <2>2, <2>3, <2>4
  <2> HIDE DEF m, n, h
  <2>6. m <= h
    BY <2>5
  <2> QED BY <2>6 DEF m, h
<1>3. ASSUME i * s < j * s + s, ~(i <= j)
      PROVE  FALSE
  <2>1. j + 1 <= i /\ j + 1 \in Int
    BY <1>3
  <2>2. (j + 1) * s <= i * s
    BY <1>2, <2>1
  <2>3. (j + 1) * s = j * s + s
    OBVIOUS
  <2> DEFINE m == i * s
             n == j * s
  <2>4. m \in Int /\ n \in Int /\ n + s <= m /\ m < n + s
    BY <1>1, <1>3, <2>2, <2>3
  <2> HIDE DEF m, n
  <2> QED BY <2>4
<1> QED
  BY <1>1, <1>2, <1>3

\* Multiples leave no remainder.
LEMMA MultipleFacts ==
  ASSUME NEW s \in Nat \ {0}, NEW i \in Int
  PROVE  (i * s) % s = 0
<1> DEFINE a == i * s
           q == a \div s
           r == a % s
<1>1. a \in Int
  BY ProductFacts
<1>2. q \in Int /\ r \in 0..(s - 1) /\ a = q * s + r /\ q * s <= a /\ a < q * s + s /\ q * s \in Int
  BY <1>1, QuotientFacts, ProductFacts
<1>3. i * s < q * s + s /\ q * s < i * s + s
  BY <1>1, <1>2
<1> HIDE DEF q, r
<1>4. i <= q /\ q <= i
  BY <1>2, <1>3, ProductFacts
<1>5. a = i * s + r /\ a = i * s
  BY <1>2, <1>4
<1> HIDE DEF a
<1>6. r = 0
  <2> DEFINE m == i * s
  <2>1. m \in Int /\ a = m + r /\ a = m
    BY <1>5, ProductFacts
  <2> HIDE DEF m
  <2> QED BY <1>2, <2>1
<1> QED BY <1>6 DEF r, a

\* The values of a range with steps, as the program lists them.
LEMMA StepsUpTo ==
  ASSUME NEW d \in Int, NEW e \in Int, NEW s \in Nat \ {0}
  PROVE  (\E i \in 0..(e \div s) : d = i * s) <=> (d >= 0 /\ d <= e /\ d % s = 0)
<1> DEFINE p == d \div s
           q == e \div s
<1>1. /\ p \in Int /\ d = p * s + (d % s) /\ d % s \in 0..(s - 1)
      /\ p * s <= d /\ d < p * s + s
  BY QuotientFacts
<1>2. q \in Int /\ q * s <= e /\ e < q * s + s
  BY QuotientFacts
<1> HIDE DEF p, q
<1>3. ASSUME NEW i \in 0..q, d = i * s
      PROVE  d >= 0 /\ d <= e /\ d % s = 0
  <2>1. i \in Int /\ 0 <= i /\ i <= q
    BY <1>2
  <2>2. 0 * s <= i * s /\ i * s <= q * s /\ 0 * s = 0 /\ i * s \in Int /\ q * s \in Int
    BY <1>2, <2>1, ProductFacts
  <2>3. (i * s) % s = 0
    BY <2>1, MultipleFacts
  <2> QED BY <1>2, <1>3, <2>2, <2>3
<1>4. ASSUME d >= 0, d <= e, d % s = 0
      PROVE  p \in 0..q /\ d = p * s
  <2>1. d = p * s
    <3>1. p * s \in Int
      BY <1>1, ProductFacts
    <3> QED BY <1>1, <1>4, <3>1
  <2>2. p <= q
    <3>1. p * s < q * s + s
      <4>1. p * s \in Int /\ q * s \in Int
        BY <1>1, <1>2, ProductFacts
      <4> QED BY <1>2, <1>4, <2>1, <4>1
    <3> QED BY <1>1, <1>2, <3>1, ProductFacts
  <2>3. 0 <= p
    <3>1. 0 * s < p * s + s
      <4>1. p * s \in Int /\ 0 * s = 0
        BY <1>1, ProductFacts
      <4> QED BY <1>1, <1>4, <4>1
    <3> QED BY <1>1, <3>1, ProductFacts
  <2> QED BY <1>1, <1>2, <2>1, <2>2, <2>3
<1> QED
  BY <1>2, <1>3, <1>4 DEF q

\* What a field of the clock may show.
LEMMA FieldsOfClock ==
  ASSUME NEW f \in CronFields, NEW w \in Int
  PROVE  /\ Lowest(f) \in Nat /\ Largest(f) \in Nat
         /\ ValueAt(f, w) \in Nat /\ Lowest(f) <= ValueAt(f, w) /\ ValueAt(f, w) <= Largest(f)
<1>1. MinutesPerHour \in Nat \ {0} /\ HoursPerDay \in Nat \ {0} /\ DaysPerMonth \in Nat \ {0}
  BY CronAssumption
<1>2. DayOf(w) \in Int
  <2>1. MinutesPerHour * HoursPerDay \in Nat \ {0}
    BY <1>1
  <2> HIDE DEF DayOf
  <2> DEFINE c == MinutesPerHour * HoursPerDay
  <2>2. DayOf(w) = w \div c
    BY DEF DayOf
  <2> HIDE DEF c
  <2> QED BY <2>1, <2>2, QuotientFacts DEF c
<1>3. f \in {"minute", "hour", "day", "month", "weekday"}
  BY DEF CronFields
<1>4. CASE f = "minute"
  <2>1. w % MinutesPerHour \in 0..(MinutesPerHour - 1)
    BY <1>1, QuotientFacts
  <2> QED BY <1>1, <1>4, <2>1 DEF Lowest, Largest, ValueAt
<1>5. CASE f = "hour"
  <2>1. w \div MinutesPerHour \in Int
    BY <1>1, QuotientFacts
  <2>2. (w \div MinutesPerHour) % HoursPerDay \in 0..(HoursPerDay - 1)
    BY <1>1, <2>1, QuotientFacts
  <2> QED BY <1>1, <1>5, <2>2 DEF Lowest, Largest, ValueAt
<1>6. CASE f = "day"
  <2>1. DayOf(w) % DaysPerMonth \in 0..(DaysPerMonth - 1)
    BY <1>1, <1>2, QuotientFacts
  <2> QED BY <1>1, <1>6, <2>1 DEF Lowest, Largest, ValueAt
<1>7. CASE f = "month"
  <2>1. DayOf(w) \div DaysPerMonth \in Int
    BY <1>1, <1>2, QuotientFacts
  <2>2. (DayOf(w) \div DaysPerMonth) % 12 \in 0..11
    <3> DEFINE m == DayOf(w) \div DaysPerMonth
    <3> HIDE DEF m
    <3>1. m % 12 \in 0..11
      BY <2>1 DEF m
    <3> QED BY <3>1 DEF m
  <2> QED BY <1>7, <2>2 DEF Lowest, Largest, ValueAt
<1>8. CASE f = "weekday"
  <2> DEFINE m == DayOf(w)
  <2> HIDE DEF m
  <2>1. m \in Int
    BY <1>2 DEF m
  <2>2. ((m % 7) + 1) % 7 \in 0..6
    BY <2>1
  <2>3. ((DayOf(w) % 7) + 1) % 7 \in 0..6
    BY <2>2 DEF m
  <2> QED BY <1>8, <2>3 DEF Lowest, Largest, ValueAt
<1> QED
  BY <1>3, <1>4, <1>5, <1>6, <1>7, <1>8

\* The values the program lists for a part are those the part asks for.
LEMMA PartsAsk ==
  ASSUME NEW piece \in Parts, WellFormed(piece), ~Raises(piece), NEW f \in CronFields, NEW v \in Nat,
         Lowest(f) \in Nat, Largest(f) \in Nat, Lowest(f) <= v, v <= Largest(f)
  PROVE  v \in ValuesOf(piece, f) <=> Asks(piece, f, v)
<1> DEFINE first == IF piece.kind = "every" THEN Lowest(f) ELSE piece.from
           last == IF piece.kind \in {"every", "onward"} THEN Largest(f) ELSE piece.to
           s == piece.step
<1>1. /\ piece.from \in Nat /\ piece.to \in Nat /\ s \in Nat \ {0}
      /\ piece.kind \in {"every", "at", "onward", "span"}
      /\ piece.kind = "at" => piece.to = piece.from /\ s = 1
  BY DEF Parts, WellFormed, Raises
<1>2. first \in Nat /\ last \in Nat
  BY <1>1
<1>3. v \in ValuesOf(piece, f) <=> \E i \in 0..((last - first) \div s) : v = first + i * s
  BY DEF ValuesOf
<1> HIDE DEF first, last, s
<1> DEFINE d == v - first
           e == last - first
<1>4. d \in Int /\ e \in Int
  BY <1>2
<1>5. \A i \in Int : v = first + i * s <=> d = i * s
  <2> SUFFICES ASSUME NEW i \in Int PROVE v = first + i * s <=> d = i * s
    OBVIOUS
  <2> DEFINE m == i * s
  <2>1. m \in Int
    BY <1>1, ProductFacts
  <2> HIDE DEF m
  <2>2. v = first + m <=> d = m
    BY <1>2, <2>1
  <2> QED BY <2>2 DEF m
<1>6. v \in ValuesOf(piece, f) <=> \E i \in 0..(e \div s) : d = i * s
  <2>1. \A i \in 0..(e \div s) : i \in Int
    BY <1>1, <1>4, QuotientFacts
  <2> QED BY <1>3, <1>5, <2>1
<1>7. v \in ValuesOf(piece, f) <=> (d >= 0 /\ d <= e /\ d % s = 0)
  <2> HIDE DEF d, e
  <2> QED BY <1>1, <1>4, <1>6, StepsUpTo
<1>8. (d >= 0 <=> v >= first) /\ (d <= e <=> v <= last)
  BY <1>2
<1>9. CASE piece.kind = "every"
  <2>1. first = Lowest(f) /\ last = Largest(f)
    BY <1>9 DEF first, last
  <2>2. Asks(piece, f, v) <=> (v - Lowest(f)) % piece.step = 0
    BY <1>9 DEF Asks
  <2> QED BY <1>7, <1>8, <2>1, <2>2 DEF s
<1>10. CASE piece.kind = "onward"
  <2>1. first = piece.from /\ last = Largest(f)
    BY <1>10 DEF first, last
  <2>2. Asks(piece, f, v) <=> (v >= piece.from /\ (v - piece.from) % piece.step = 0)
    BY <1>10 DEF Asks
  <2> QED BY <1>7, <1>8, <2>1, <2>2 DEF s
<1>11. CASE piece.kind = "span"
  <2>1. first = piece.from /\ last = piece.to
    BY <1>11 DEF first, last
  <2>2. Asks(piece, f, v) <=> (v \in piece.from..piece.to /\ (v - piece.from) % piece.step = 0)
    BY <1>11 DEF Asks
  <2> QED BY <1>1, <1>7, <1>8, <2>1, <2>2 DEF s
<1>12. CASE piece.kind = "at"
  <2>1. first = piece.from /\ last = piece.from /\ s = 1
    BY <1>1, <1>12 DEF first, last
  <2>2. Asks(piece, f, v) <=> v = piece.from
    BY <1>12 DEF Asks
  <2>3. d % s = 0 \/ d # 0
    <3>1. 0 % 1 = 0
      OBVIOUS
    <3> QED BY <2>1, <3>1
  <2> QED BY <1>1, <1>2, <1>7, <1>8, <2>1, <2>2, <2>3
<1> QED
  BY <1>1, <1>9, <1>10, <1>11, <1>12

CronTyped ==
  /\ CronTypeOK
  /\ expr \in Expressions /\ zone \in Zones

\* Times are numbers, on every wall.
LEMMA WallTyped ==
  ASSUME CronTyped, NEW t \in Times
  PROVE  zone[t] \in Int /\ Wall(t) \in Int /\ t \in Int
<1>1. zone[t] \in Int
  BY CronAssumption DEF CronTyped
<1>2. t \in Int
  BY DEF Times
<1> QED BY <1>1, <1>2 DEF Wall

\* An expression that parses matches the minutes it asks for.
LEMMA MatchesAsked ==
  ASSUME CronTyped, ~Malformed, NEW t \in Times
  PROVE  CronMatches(t) <=> Asked(t)
<1>1. Wall(t) \in Int
  BY WallTyped
<1>2. ASSUME NEW f \in CronFields, NEW piece \in expr[f]
      PROVE  ValueAt(f, Wall(t)) \in ValuesOf(piece, f) <=> Asks(piece, f, ValueAt(f, Wall(t)))
  <2>1. WellFormed(piece)
    BY CronAssumption DEF CronTyped
  <2>2. piece \in Parts
    BY <2>1 DEF WellFormed
  <2>3. ~Raises(piece)
    BY DEF Malformed, Star
  <2> QED BY <1>1, <2>1, <2>2, <2>3, FieldsOfClock, PartsAsk
<1>3. ASSUME NEW f \in CronFields
      PROVE  (expr[f] = Star \/ \E piece \in expr[f] : ValueAt(f, Wall(t)) \in ValuesOf(piece, f))
             <=> (expr[f] = Star \/ \E piece \in expr[f] : Asks(piece, f, ValueAt(f, Wall(t))))
  BY <1>2
<1> QED
  BY <1>3 DEF CronMatches, Asked

\* Two minutes have two slots, also when the wall shows the same: the offset tells
\* them apart.
LEMMA SlotsApart ==
  ASSUME CronTyped, NEW t \in Times, NEW u \in Times, SlotFor(t) = SlotFor(u)
  PROVE  t = u
<1>1. /\ SlotFor(t).wall = t + zone[t] /\ SlotFor(t).offset = zone[t]
      /\ SlotFor(u).wall = u + zone[u] /\ SlotFor(u).offset = zone[u]
  BY DEF SlotFor, Wall
<1>2. zone[t] \in Int /\ zone[u] \in Int /\ t \in Int /\ u \in Int
  BY WallTyped
<1> QED BY <1>1, <1>2

SlotsKept ==
  \A i \in DOMAIN ran :
    ran[i].slot = [wall |-> ran[i].at + zone[ran[i].at], offset |-> zone[ran[i].at]]

CronInv == CronTyped /\ SlotsKept /\ OncePerMinute

\* The invariant holds at first.
LEMMA CronInitHolds ==
  ASSUME CronInit
  PROVE  CronInv
<1>1. CronTyped
  <2>1. MaxMinute \in Nat
    BY CronAssumption
  <2>2. << >> \in Seq([slot : [wall : Int, offset : Int], at : Times])
    BY EmptySeq
  <2> QED BY <2>1, <2>2 DEF CronInit, CronTyped, CronTypeOK, Times
<1>2. 0..(0 - 1) = {} /\ Len(<< >>) = 0 /\ DOMAIN << >> = {}
  OBVIOUS
<1>3. Looked = {}
  BY <1>2 DEF CronInit, Looked
<1> QED
  BY <1>1, <1>2, <1>3 DEF CronInit, CronInv, SlotsKept, OncePerMinute

\* A pass of the scheduler and the next minute keep it.
LEMMA CronStepHolds ==
  ASSUME CronInv, CronNext
  PROVE  CronInv'
<1> CronTyped /\ SlotsKept /\ OncePerMinute
  BY DEF CronInv
<1>1. CASE CronPass
  <2> DEFINE new == [slot |-> SlotFor(minute), at |-> minute]
             taken == CronMatches(minute) /\ \A i \in DOMAIN ran : ran[i].slot # SlotFor(minute)
  <2>1. /\ ~Malformed /\ passes < 2 /\ passes' = passes + 1
        /\ ran' = IF taken THEN Append(ran, new) ELSE ran
        /\ UNCHANGED <<expr, zone, minute>>
    BY <1>1 DEF CronPass
  <2>2. /\ minute \in Times /\ passes \in 0..2 /\ zone[minute] \in Int /\ Wall(minute) \in Int
        /\ minute \in Int /\ 0 <= minute
    BY WallTyped DEF CronTyped, CronTypeOK, Times
  <2> DEFINE RunRow == [slot : [wall : Int, offset : Int], at : Times]
  <2>3. ran \in Seq(RunRow)
    BY DEF CronTyped, CronTypeOK
  <2>4. new \in RunRow
    BY <2>2 DEF SlotFor
  <2>6. DOMAIN ran = 1..Len(ran) /\ Len(ran) \in Nat
    BY <2>3
  <2>7. ran' \in Seq(RunRow)
    <3> HIDE DEF new, RunRow, taken
    <3>1. Append(ran, new) \in Seq(RunRow)
      BY <2>3, <2>4
    <3> QED BY <2>1, <2>3, <3>1
  <2>8. CronTyped'
    <3>1. ran' \in Seq([slot : [wall : Int, offset : Int], at : Times])
      BY <2>7
    <3>2. minute' \in Times /\ passes' \in 0..2 /\ expr' \in Expressions /\ zone' \in Zones
      BY <2>1, <2>2 DEF CronTyped
    <3> QED BY <3>1, <3>2 DEF CronTyped, CronTypeOK
  <2>9. Looked' = Looked \cup {minute}
    <3>1. passes' > 0 /\ minute' = minute
      BY <2>1, <2>2
    <3> QED BY <3>1 DEF Looked
  <2>10. \A i \in DOMAIN ran : ran[i].at \in Times /\ ran[i].slot = SlotFor(ran[i].at)
    <3>1. \A i \in DOMAIN ran : ran[i] \in RunRow
      <4> HIDE DEF RunRow
      <4> QED BY <2>3
    <3>2. \A i \in DOMAIN ran : ran[i].at \in Times
      BY <3>1
    <3> QED BY <3>2 DEF SlotsKept, SlotFor, Wall
  <2>11. Asked(minute) <=> CronMatches(minute)
    BY <2>1, <2>2, MatchesAsked
  <2>12. CASE ~taken
    <3>1. ran' = ran
      BY <2>1, <2>12
    <3>2. SlotsKept'
      BY <2>1, <3>1 DEF SlotsKept
    <3>3. ASSUME CronMatches(minute)
          PROVE  \E i \in DOMAIN ran : ran[i].at = minute
      <4>1. PICK i \in DOMAIN ran : ran[i].slot = SlotFor(minute)
        BY <2>12, <3>3
      <4>2. ran[i].at = minute
        BY <2>2, <2>6, <2>10, <4>1, SlotsApart
      <4> QED BY <4>2
    <3>4. {ran[i].at : i \in DOMAIN ran} = {t \in Looked' : Asked(t)}
      BY <2>9, <2>11, <3>3 DEF OncePerMinute
    <3>5. {t \in Looked' : Asked(t)'} = {t \in Looked' : Asked(t)}
      BY <2>1 DEF Asked, Wall
    <3>6. OncePerMinute'
      BY <3>1, <3>4, <3>5 DEF OncePerMinute
    <3> QED BY <2>8, <3>2, <3>6 DEF CronInv
  <2>13. CASE taken
    <3> DEFINE n == Len(ran) + 1
    <3>1. /\ ran' = Append(ran, new) /\ Len(ran') = n /\ DOMAIN ran' = 1..n
          /\ ran'[n] = new /\ \A i \in 1..Len(ran) : ran'[i] = ran[i]
      <4> HIDE DEF new, RunRow, taken
      <4>1. ran' = Append(ran, new)
        BY <2>1, <2>13
      <4> QED BY <2>3, <2>4, <4>1
    <3>2. n \in Nat /\ \A i \in 1..n : i = n \/ i \in 1..Len(ran)
      BY <2>6
    <3>3. new.slot = SlotFor(minute) /\ new.at = minute
      OBVIOUS
    <3> HIDE DEF new, RunRow
    <3>4. SlotsKept'
      <4> DEFINE Slot(t) == [wall |-> t + zone[t], offset |-> zone[t]]
      <4>1. SlotFor(minute) = Slot(minute)
        BY DEF SlotFor, Wall
      <4>2. \A i \in DOMAIN ran : ran[i].slot = Slot(ran[i].at)
        BY DEF SlotsKept
      <4>3. \A i \in DOMAIN ran' : ran'[i].slot = Slot(ran'[i].at)
        <5> HIDE DEF Slot, n
        <5> SUFFICES ASSUME NEW i \in DOMAIN ran' PROVE ran'[i].slot = Slot(ran'[i].at)
          OBVIOUS
        <5>1. CASE i = n
          BY <3>1, <3>3, <4>1, <5>1
        <5>2. CASE i \in 1..Len(ran)
          BY <2>6, <3>1, <4>2, <5>2
        <5> QED BY <3>1, <3>2, <5>1, <5>2
      <4> QED BY <2>1, <4>3 DEF SlotsKept
    <3>5. \A i \in 1..Len(ran) : ran[i].at # minute
      BY <2>6, <2>10, <2>13
    <3>6. {ran'[i].at : i \in DOMAIN ran'} = {ran[i].at : i \in DOMAIN ran} \cup {minute}
      <4>1. n \in DOMAIN ran' /\ ran'[n].at = minute
        BY <3>1, <3>2, <3>3, <2>6
      <4>2. \A i \in DOMAIN ran : i \in DOMAIN ran' /\ ran'[i].at = ran[i].at
        BY <3>1, <2>6
      <4>3. \A i \in DOMAIN ran' : i = n \/ i \in DOMAIN ran
        BY <3>1, <3>2, <2>6
      <4> HIDE DEF n
      <4> QED BY <4>1, <4>2, <4>3
    <3>7. {t \in Looked' : Asked(t)'} = {t \in Looked : Asked(t)} \cup {minute}
      <4>1. CronMatches(minute)
        BY <2>13
      <4>2. \A t : Asked(t)' <=> Asked(t)
        BY <2>1 DEF Asked, Wall
      <4> QED BY <2>9, <2>11, <4>1, <4>2
    <3>8. \A i, j \in DOMAIN ran' : ran'[i].at = ran'[j].at => i = j
      <4> SUFFICES ASSUME NEW i \in 1..n, NEW j \in 1..n, ran'[i].at = ran'[j].at PROVE i = j
        BY <3>1
      <4> QED BY <2>6, <3>1, <3>2, <3>3, <3>5 DEF OncePerMinute
    <3>9. OncePerMinute'
      BY <3>6, <3>7, <3>8 DEF OncePerMinute
    <3> QED BY <2>8, <3>4, <3>9 DEF CronInv
  <2> QED BY <2>12, <2>13
<1>2. CASE NextMinute
  <2>1. /\ passes > 0 /\ minute < MaxMinute /\ minute' = minute + 1 /\ passes' = 0
        /\ UNCHANGED <<expr, zone, ran>>
    BY <1>2 DEF NextMinute
  <2>2. /\ minute \in Times /\ minute \in Int /\ 0 <= minute /\ minute' \in Times
    BY <2>1, CronAssumption DEF CronTyped, CronTypeOK, Times
  <2>3. CronTyped'
    BY <2>1, <2>2 DEF CronTyped, CronTypeOK
  <2>4. Looked' = Looked
    <3>1. Looked = 0..minute
      BY <2>1, <2>2 DEF Looked
    <3>2. Looked' = 0..minute
      BY <2>1, <2>2 DEF Looked
    <3> QED BY <3>1, <3>2
  <2>6. SlotsKept'
    BY <2>1 DEF SlotsKept
  <2>7. {t \in Looked' : Asked(t)'} = {t \in Looked : Asked(t)}
    BY <2>1, <2>4 DEF Asked, Wall
  <2>8. OncePerMinute'
    BY <2>1, <2>7 DEF OncePerMinute
  <2> QED BY <2>3, <2>6, <2>8 DEF CronInv
<1> QED
  BY <1>1, <1>2 DEF CronNext

\* And for good.
LEMMA CronAlways == CronInit /\ [][CronNext]_cronVars => []CronInv
<1>1. CronInv /\ UNCHANGED cronVars => CronInv'
  <2> SUFFICES ASSUME CronInv, UNCHANGED cronVars PROVE CronInv'
    OBVIOUS
  <2>1. CronTyped' /\ SlotsKept'
    BY DEF CronInv, CronTyped, CronTypeOK, cronVars, SlotsKept
  <2>2. {t \in Looked' : Asked(t)'} = {t \in Looked : Asked(t)}
    BY DEF cronVars, Looked, Asked, Wall
  <2>3. OncePerMinute'
    BY <2>2 DEF CronInv, cronVars, OncePerMinute
  <2> QED BY <2>1, <2>3 DEF CronInv
<1> QED
  BY <1>1, CronInitHolds, CronStepHolds, PTL

\* Of Cron: the scheduler's view of a job's minutes, for every expression, zone and
\* length of hours, days and months: a run for each minute asked for, and one.
THEOREM RunsWhenAsked == CronInit /\ [][CronNext]_cronVars => []OncePerMinute
<1>1. CronInv => OncePerMinute
  BY DEF CronInv
<1> QED
  BY <1>1, CronAlways, PTL

-----------------------------------------------------------------------------
(***************************************************************************)
(* CodexThreads: types, messages that follow each other, threads of one's  *)
(* own.                                                                    *)
(***************************************************************************)

\* Nothing but the order of the threads changes when one of them is updated.
LEMMA TouchMoves ==
  ASSUME NEW s \in Seq(Nat), IsInjective(s), NEW k \in DOMAIN s,
         NEW r, r = <<s[k]>> \o RemoveAt(s, k)
  PROVE  r \in Seq(Nat) /\ Len(r) = Len(s) /\ IsInjective(r) /\ ToSet(r) = ToSet(s)
<1> DEFINE n == Len(s)
           Earlier == SubSeq(s, 1, k - 1)
           Later == SubSeq(s, k + 1, n)
           Was(i) == IF i = 1 THEN k ELSE IF i <= k THEN i - 1 ELSE i
<1>1. n \in Nat /\ DOMAIN s = 1..n /\ k \in 1..n /\ \A i \in 1..n : s[i] \in Nat
  OBVIOUS
<1>2. /\ Earlier \in Seq(Nat) /\ Len(Earlier) = k - 1
      /\ \A i \in 1..(k - 1) : Earlier[i] = s[i]
  <2>1. k - 1 \in Int /\ 1 \in Int /\ \A i \in 1..(k - 1) : s[i] \in Nat
    BY <1>1
  <2>2. /\ Earlier \in Seq(Nat) /\ Len(Earlier) = IF 1 <= k - 1 THEN (k - 1) - 1 + 1 ELSE 0
        /\ \A i \in 1..((k - 1) - 1 + 1) : Earlier[i] = s[1 + i - 1]
    BY <2>1, SubSeqProperties
  <2> HIDE DEF Earlier
  <2> QED BY <1>1, <2>2
<1>3. /\ Later \in Seq(Nat) /\ Len(Later) = n - k
      /\ \A i \in 1..(n - k) : Later[i] = s[k + i]
  <2>1. n \in Int /\ k + 1 \in Int /\ \A i \in (k + 1)..n : s[i] \in Nat
    BY <1>1
  <2>2. /\ Later \in Seq(Nat) /\ Len(Later) = IF k + 1 <= n THEN n - (k + 1) + 1 ELSE 0
        /\ \A i \in 1..(n - (k + 1) + 1) : Later[i] = s[(k + 1) + i - 1]
    <3> HIDE DEF n
    <3> QED BY <2>1, SubSeqProperties, SMTT(30) DEF Later
  <2> HIDE DEF Later, n
  <2>3. Len(Later) = n - k /\ n - (k + 1) + 1 = n - k
    BY <1>1, <2>2, SMTT(30)
  <2>4. ASSUME NEW i \in 1..(n - k) PROVE Later[i] = s[k + i]
    <3>1. i \in 1..(n - (k + 1) + 1) /\ (k + 1) + i - 1 = k + i
      BY <1>1
    <3>2. Later[i] = s[(k + 1) + i - 1]
      BY <2>2, <3>1, Zenon
    <3> QED BY <3>1, <3>2
  <2> QED BY <2>2, <2>3, <2>4
<1> HIDE DEF Earlier, Later
<1> DEFINE rest == Earlier \o Later
<1>4. /\ rest \in Seq(Nat) /\ Len(rest) = n - 1
      /\ \A i \in 1..(n - 1) : rest[i] = IF i <= k - 1 THEN Earlier[i] ELSE Later[i - (k - 1)]
  <2>1. /\ rest \in Seq(Nat) /\ Len(rest) = Len(Earlier) + Len(Later)
        /\ \A i \in 1..(Len(Earlier) + Len(Later)) :
             rest[i] = IF i <= Len(Earlier) THEN Earlier[i] ELSE Later[i - Len(Earlier)]
    BY <1>2, <1>3, ConcatProperties
  <2>2. Len(Earlier) + Len(Later) = n - 1
    <3> HIDE DEF n
    <3> QED BY <1>1, <1>2, <1>3
  <2> HIDE DEF n, rest
  <2> QED BY <1>2, <2>1, <2>2
<1>5. \A i \in 1..(n - 1) : rest[i] = IF i < k THEN s[i] ELSE s[i + 1]
  <2> SUFFICES ASSUME NEW i \in 1..(n - 1) PROVE rest[i] = IF i < k THEN s[i] ELSE s[i + 1]
    OBVIOUS
  <2> HIDE DEF rest
  <2>1. CASE i < k
    BY <1>1, <1>2, <1>4, <2>1
  <2>2. CASE ~(i < k)
    <3>1. i - (k - 1) \in 1..(n - k) /\ k + (i - (k - 1)) = i + 1 /\ ~(i <= k - 1)
      BY <1>1, <2>2, SMTT(30)
    <3> QED BY <1>3, <1>4, <2>2, <3>1
  <2> QED BY <2>1, <2>2
<1>6. r = <<s[k]>> \o rest
  BY DEF RemoveAt, rest, Earlier, Later
<1> HIDE DEF rest
<1>7. /\ r \in Seq(Nat) /\ Len(r) = n /\ DOMAIN r = 1..n
      /\ r[1] = s[k] /\ \A i \in 1..(n - 1) : r[i + 1] = rest[i]
  <2>1. s[k] \in Nat /\ (n - 1) + 1 = n
    BY <1>1
  <2> HIDE DEF n
  <2> DEFINE e == s[k]
  <2>2. e \in Nat /\ r = <<e>> \o rest /\ rest \in Seq(Nat)
    BY <1>4, <1>6, <2>1
  <2> HIDE DEF e
  <2>3. /\ r \in Seq(Nat) /\ Len(r) = Len(rest) + 1 /\ DOMAIN r = 1..(Len(rest) + 1)
        /\ r[1] = e /\ \A i \in 1..Len(rest) : r[i + 1] = rest[i]
    <3> DEFINE both == <<e>> \o rest
    <3>1. /\ both \in Seq(Nat) /\ Len(both) = Len(rest) + 1 /\ DOMAIN both = 1..(Len(rest) + 1)
          /\ both[1] = e /\ \A i \in 1..Len(rest) : both[i + 1] = rest[i]
      BY <2>2, InFront
    <3>2. r = both
      BY <2>2
    <3> HIDE DEF both
    <3> QED BY <3>1, <3>2
  <2> QED BY <1>4, <2>1, <2>3 DEF e
<1>8. \A i \in 1..n : Was(i) \in 1..n /\ r[i] = s[Was(i)]
  <2> SUFFICES ASSUME NEW i \in 1..n PROVE Was(i) \in 1..n /\ r[i] = s[Was(i)]
    OBVIOUS
  <2> HIDE DEF n
  <2>1. CASE i = 1
    <3>1. Was(i) = k
      BY <2>1
    <3> HIDE DEF Was
    <3> QED BY <1>1, <1>7, <2>1, <3>1
  <2>2. CASE i # 1
    <3> DEFINE j == i - 1
    <3>1. j \in 1..(n - 1) /\ j + 1 = i /\ j \in 1..n
      BY <1>1, <2>2
    <3>2. j < k => Was(i) = j
      BY <1>1, <2>2
    <3>3. ~(j < k) => Was(i) = i
      BY <1>1, <2>2
    <3> HIDE DEF j, Was
    <3>4. r[i] = rest[j]
      BY <1>7, <3>1
    <3> QED BY <1>5, <3>1, <3>2, <3>3, <3>4
  <2> QED BY <2>1, <2>2
<1>9. \A i, j \in 1..n : Was(i) = Was(j) => i = j
  BY <1>1, SMTT(30)
<1>10. \A j \in 1..n : \E i \in 1..n : Was(i) = j
  <2> SUFFICES ASSUME NEW j \in 1..n PROVE \E i \in 1..n : Was(i) = j
    OBVIOUS
  <2>1. CASE j = k
    <3>1. 1 \in 1..n /\ Was(1) = j
      BY <1>1, <2>1
    <3> QED BY <3>1
  <2>2. CASE j < k
    <3>1. j + 1 \in 1..n /\ Was(j + 1) = j
      BY <1>1, <2>2
    <3> QED BY <3>1
  <2>3. CASE j > k
    <3>1. Was(j) = j
      BY <1>1, <2>3
    <3> QED BY <3>1
  <2> QED BY <1>1, <2>1, <2>2, <2>3
<1> HIDE DEF Was
<1>11. IsInjective(r)
  <2> SUFFICES ASSUME NEW i \in 1..n, NEW j \in 1..n, r[i] = r[j] PROVE i = j
    BY <1>7 DEF IsInjective
  <2>1. s[Was(i)] = s[Was(j)] /\ Was(i) \in DOMAIN s /\ Was(j) \in DOMAIN s
    BY <1>1, <1>8
  <2>2. Was(i) = Was(j)
    BY <2>1 DEF IsInjective
  <2> QED BY <1>9, <2>2
<1>12. ToSet(r) = ToSet(s)
  <2>1. \A i \in DOMAIN r : \E j \in DOMAIN s : r[i] = s[j]
    <3> SUFFICES ASSUME NEW i \in DOMAIN r PROVE \E j \in DOMAIN s : r[i] = s[j]
      OBVIOUS
    <3>1. i \in 1..n
      BY <1>7
    <3>2. Was(i) \in DOMAIN s /\ r[i] = s[Was(i)]
      BY <1>1, <1>8, <3>1
    <3> QED BY <3>2
  <2>2. \A j \in DOMAIN s : \E i \in DOMAIN r : s[j] = r[i]
    <3> SUFFICES ASSUME NEW j \in DOMAIN s PROVE \E i \in DOMAIN r : s[j] = r[i]
      OBVIOUS
    <3>1. PICK i \in 1..n : Was(i) = j
      BY <1>1, <1>10
    <3>2. i \in DOMAIN r /\ s[j] = r[i]
      BY <1>7, <1>8, <3>1
    <3> QED BY <3>2
  <2>3. ToSet(r) \subseteq ToSet(s)
    BY <2>1 DEF ToSet
  <2>4. ToSet(s) \subseteq ToSet(r)
    BY <2>2, SMTT(30) DEF ToSet
  <2> QED BY <2>3, <2>4
<1> QED
  BY <1>7, <1>11, <1>12

\* A thread that is begun is in front of the others.
LEMMA TouchAdds ==
  ASSUME NEW s \in Seq(Nat), IsInjective(s), NEW t \in Nat, t \notin ToSet(s)
  PROVE  /\ <<t>> \o s \in Seq(Nat) /\ Len(<<t>> \o s) = Len(s) + 1
         /\ IsInjective(<<t>> \o s) /\ ToSet(<<t>> \o s) = ToSet(s) \cup {t}
<1> DEFINE r == <<t>> \o s
           n == Len(s)
<1>2. n \in Nat /\ DOMAIN s = 1..n
  OBVIOUS
<1>3. /\ r \in Seq(Nat) /\ Len(r) = n + 1 /\ DOMAIN r = 1..(n + 1)
      /\ r[1] = t /\ \A i \in 1..n : r[i + 1] = s[i]
  BY InFront
<1> HIDE DEF r, n
<1>4. 1 \in DOMAIN r /\ \A i \in 1..n : i + 1 \in DOMAIN r
  BY <1>2, <1>3
<1>5. \A i \in DOMAIN r : i = 1 \/ \E j \in 1..n : i = j + 1
  <2> SUFFICES ASSUME NEW i \in DOMAIN r, i # 1 PROVE \E j \in 1..n : i = j + 1
    OBVIOUS
  <2>1. i - 1 \in 1..n /\ i = (i - 1) + 1
    BY <1>2, <1>3
  <2> QED BY <2>1
<1>6. \A j \in 1..n : s[j] # t
  BY <1>2 DEF ToSet
<1>7. IsInjective(r)
  <2> SUFFICES ASSUME NEW i \in DOMAIN r, NEW j \in DOMAIN r, r[i] = r[j] PROVE i = j
    BY DEF IsInjective
  <2>1. CASE i = 1 \/ j = 1
    BY <1>3, <1>5, <1>6, <2>1, SMTT(30)
  <2>2. CASE i # 1 /\ j # 1
    <3>1. PICK a \in 1..n : i = a + 1
      BY <1>5, <2>2
    <3>2. PICK b \in 1..n : j = b + 1
      BY <1>5, <2>2
    <3>3. s[a] = s[b] /\ a \in DOMAIN s /\ b \in DOMAIN s
      BY <1>2, <1>3, <3>1, <3>2
    <3>4. a = b
      BY <3>3 DEF IsInjective
    <3> QED BY <3>1, <3>2, <3>4
  <2> QED BY <2>1, <2>2
<1>8. ToSet(r) = ToSet(s) \cup {t}
  <2>1. ASSUME NEW i \in DOMAIN r PROVE r[i] = t \/ \E j \in DOMAIN s : r[i] = s[j]
    <3>1. CASE i = 1
      BY <1>3, <3>1
    <3>2. CASE i # 1
      <4>1. PICK j \in 1..n : i = j + 1
        BY <1>5, <3>2
      <4>2. j \in DOMAIN s /\ r[i] = s[j]
        BY <1>2, <1>3, <4>1
      <4> QED BY <4>2
    <3> QED BY <3>1, <3>2
  <2>2. ASSUME NEW j \in DOMAIN s PROVE \E i \in DOMAIN r : r[i] = s[j]
    <3>1. j + 1 \in DOMAIN r /\ r[j + 1] = s[j]
      BY <1>2, <1>3, <1>4
    <3> QED BY <3>1
  <2>3. ToSet(r) \subseteq ToSet(s) \cup {t}
    BY <2>1 DEF ToSet
  <2>4. ToSet(s) \subseteq ToSet(r)
    BY <2>2 DEF ToSet
  <2>5. t \in ToSet(r)
    BY <1>3, <1>4 DEF ToSet
  <2> QED BY <2>3, <2>4, <2>5
<1> QED
  BY <1>3, <1>7, <1>8, <1>2 DEF r, n

-----------------------------------------------------------------------------
Threads == 1..Len(owner)

ThreadsTyped ==
  /\ use \in Uses
  /\ threads \in Seq(Nat) /\ Len(threads) = Len(owner)
  /\ at \in [Callers -> 0..Len(owner)] /\ kept \in [Callers -> 0..Len(owner)]
  /\ \A c \in Callers : turn[c] # "idle" => c \in live
  /\ ThreadsTypeOK

\* What a run of codex does to the database.
LEMMA RunMakesThread ==
  ASSUME ThreadsTyped, NEW c \in Callers, NEW t \in Nat, Run(c, t),
         t \in Threads \/ (t = NewThread /\ t <= MaxThreads)
  PROVE  /\ threads' \in Seq(Nat) /\ IsInjective(threads')
         /\ ToSet(threads') = 1..Len(owner') /\ Len(threads') = Len(owner')
         /\ owner' \in Seq(Callers) /\ Len(owner') \in Nat /\ Len(owner') <= MaxThreads
         /\ Len(owner) \in Nat /\ Len(owner) <= Len(owner') /\ t \in 1..Len(owner')
         /\ \A j \in Threads : owner'[j] = owner[j]
         /\ t = NewThread => owner'[t] = c
<1> DEFINE n == Len(owner)
<1>1. /\ threads \in Seq(Nat) /\ Len(threads) = n /\ IsInjective(threads) /\ ToSet(threads) = 1..n
      /\ owner \in Seq(Callers) /\ n <= MaxThreads
  BY DEF ThreadsTyped, ThreadsTypeOK
<1>2. n \in Nat /\ MaxThreads \in Nat
  BY <1>1, LenProperties, ThreadsAssumption
<1>3. owner' = IF t > n THEN Append(owner, c) ELSE owner
  BY DEF Run
<1>4. CASE t \in 1..n
  <2>1. owner' = owner
    BY <1>2, <1>3, <1>4
  <2>2. t \in ToSet(threads)
    BY <1>1, <1>4
  <2> DEFINE k == CHOOSE i \in DOMAIN threads : threads[i] = t
  <2>3. k \in DOMAIN threads /\ threads[k] = t
    <3>1. \E i \in DOMAIN threads : threads[i] = t
      BY <2>2 DEF ToSet
    <3> QED BY <3>1
  <2>4. threads' = <<t>> \o RemoveAt(threads, k)
    BY <2>2 DEF Run, Touch
  <2> HIDE DEF k
  <2>5. threads' = <<threads[k]>> \o RemoveAt(threads, k)
    BY <2>3, <2>4
  <2>6. /\ threads' \in Seq(Nat) /\ Len(threads') = Len(threads) /\ IsInjective(threads')
        /\ ToSet(threads') = ToSet(threads)
    BY <1>1, <2>3, <2>5, TouchMoves
  <2>7. ~(t = NewThread)
    BY <1>2, <1>4 DEF NewThread
  <2> QED BY <1>1, <1>2, <1>4, <2>1, <2>6, <2>7
<1>5. CASE t = NewThread /\ t <= MaxThreads
  <2>1. t = n + 1 /\ t > n /\ t \notin 1..n /\ n + 1 <= MaxThreads
    BY <1>2, <1>5 DEF NewThread
  <2>2. t \notin ToSet(threads)
    BY <1>1, <2>1
  <2>3. threads' = <<t>> \o threads
    BY <2>2 DEF Run, Touch
  <2>4. /\ threads' \in Seq(Nat) /\ Len(threads') = n + 1 /\ IsInjective(threads')
        /\ ToSet(threads') = 1..n \cup {t}
    BY <1>1, <2>2, <2>3, TouchAdds
  <2>5. owner' = Append(owner, c)
    BY <1>3, <2>1
  <2>6. /\ owner' \in Seq(Callers) /\ Len(owner') = n + 1
        /\ \A j \in 1..n : owner'[j] = owner[j] /\ owner'[n + 1] = c
    BY <1>1, <2>5, AppendProperties
  <2>7. owner'[n + 1] = c
    BY <1>1, <2>5, AppendProperties
  <2>8. 1..n \cup {t} = 1..(n + 1)
    BY <1>2, <2>1
  <2> HIDE DEF n
  <2>9. n <= n + 1 /\ n + 1 \in 1..(n + 1) /\ n + 1 \in Nat
    BY <1>2
  <2> QED BY <1>2, <2>1, <2>4, <2>6, <2>7, <2>8, <2>9 DEF Threads, n
<1> QED
  BY <1>4, <1>5 DEF Threads

\* What the wrappers are shown of the database.
LEMMA RowsShown ==
  ASSUME ThreadsTyped
  PROVE  /\ ToSet(Rows) \subseteq Threads
         /\ Rows # <<>> => Rows[1] \in Threads
         /\ MaxThreads <= Listed => ToSet(Rows) = Threads
<1> DEFINE n == Len(threads)
           m == IF Listed < n THEN Listed ELSE n
<1>1. /\ threads \in Seq(Nat) /\ n \in Nat /\ DOMAIN threads = 1..n /\ Len(owner) = n
      /\ ToSet(threads) = 1..n /\ n <= MaxThreads
  <2>1. threads \in Seq(Nat) /\ Len(owner) = n /\ ToSet(threads) = 1..n /\ n <= MaxThreads
    BY DEF ThreadsTyped, ThreadsTypeOK
  <2> QED BY <2>1, LenProperties
<1>2. Listed \in Nat \ {0} /\ MaxThreads \in Nat
  BY ThreadsAssumption
<1>3. m \in 0..n
  <2> HIDE DEF n
  <2> QED BY <1>1, <1>2
<1> HIDE DEF m
<1>4. \A i \in 1..m : threads[i] \in 1..n /\ threads[i] \in Nat
  <2>1. \A i \in 1..m : i \in DOMAIN threads
    <3> HIDE DEF n
    <3> QED BY <1>1, <1>3
  <2>2. \A i \in 1..m : threads[i] \in ToSet(threads)
    BY <2>1 DEF ToSet
  <2> HIDE DEF n
  <2> QED BY <1>1, <2>2
<1>5. /\ Rows \in Seq(Nat) /\ DOMAIN Rows = 1..m /\ Len(Rows) = m
      /\ \A i \in 1..m : Rows[i] = threads[i]
  <2> DEFINE rows == SubSeq(threads, 1, m)
  <2>1. m \in Int /\ 1 \in Int
    BY <1>1, <1>3
  <2>2. /\ rows \in Seq(Nat) /\ Len(rows) = IF 1 <= m THEN m - 1 + 1 ELSE 0
        /\ \A i \in 1..(m - 1 + 1) : rows[i] = threads[1 + i - 1]
    BY <1>4, <2>1, SubSeqProperties
  <2> HIDE DEF rows, n
  <2>3. Len(rows) = m
    BY <1>1, <1>3, <2>2
  <2>4. ASSUME NEW i \in 1..m PROVE rows[i] = threads[i]
    <3>1. i \in 1..(m - 1 + 1) /\ 1 + i - 1 = i
      BY <1>1, <1>3
    <3> QED BY <2>2, <3>1
  <2>5. DOMAIN rows = 1..m
    BY <2>2, <2>3, LenProperties
  <2> QED BY <2>2, <2>3, <2>4, <2>5 DEF Rows, rows, m, n
<1>6. ToSet(Rows) \subseteq 1..n
  BY <1>4, <1>5 DEF ToSet
<1>7. ASSUME Rows # <<>> PROVE Rows[1] \in 1..n
  <2>1. Len(Rows) \in Nat \ {0}
    BY <1>5, <1>7, EmptySeq
  <2>2. 1 \in DOMAIN Rows
    <3> HIDE DEF n
    <3> QED BY <1>5, <2>1
  <2> QED BY <1>6, <2>2 DEF ToSet
<1>8. ASSUME MaxThreads <= Listed PROVE ToSet(Rows) = 1..n
  <2>1. m = n
    <3>1. ~(Listed < n)
      <4> HIDE DEF n
      <4> QED BY <1>1, <1>2, <1>8
    <3> QED BY <3>1 DEF m
  <2>2. \A i \in DOMAIN threads : i \in DOMAIN Rows /\ Rows[i] = threads[i]
    BY <1>1, <1>5, <2>1
  <2>3. ToSet(threads) \subseteq ToSet(Rows)
    BY <2>2 DEF ToSet
  <2> QED BY <1>1, <1>6, <2>3
<1> QED
  BY <1>1, <1>6, <1>7, <1>8 DEF Threads

-----------------------------------------------------------------------------
\* What is typed, for the provers.
LEMMA ThreadsTypedFacts ==
  ASSUME ThreadsTyped
  PROVE  /\ Len(owner) \in Nat /\ Len(owner) <= MaxThreads /\ MaxThreads \in Nat
         /\ id \in [Callers -> 0..Len(owner)]
         /\ record \in [Callers -> 0..Len(owner) \cup {NoThread}]
         /\ turn \in [Callers -> {"idle", "running", "answered"}]
         /\ live \subseteq Callers /\ tries \subseteq Callers
         /\ history \subseteq live /\ pending \subseteq live
         /\ at \in [Callers -> 0..Len(owner)] /\ kept \in [Callers -> 0..Len(owner)]
         /\ \A c \in Callers : turn[c] # "idle" => c \in live
<1>1. owner \in Seq(Callers) /\ Len(owner) <= MaxThreads
  BY DEF ThreadsTyped, ThreadsTypeOK
<1> QED
  BY <1>1, LenProperties, ThreadsAssumption DEF ThreadsTyped, ThreadsTypeOK

\* Ids in records and wrappers are threads there are.
LEMMA StoredTyped ==
  ASSUME ThreadsTyped, NEW c \in Callers
  PROVE  /\ Stored(c) \in 0..Len(owner) /\ IdOf(c) \in 0..Len(owner)
         /\ IdOf(c) # 0 => IdOf(c) \in Threads
<1>1. Stored(c) \in 0..Len(owner)
  BY ThreadsTypedFacts DEF Stored
<1>2. IdOf(c) \in 0..Len(owner)
  BY <1>1, ThreadsTypedFacts DEF IdOf
<1>3. IdOf(c) # 0 => IdOf(c) \in Threads
  BY <1>2, ThreadsTypedFacts DEF Threads
<1> QED
  BY <1>1, <1>2, <1>3

\* A step that leaves the database alone is typed when its own part is.
LEMMA DatabaseKept ==
  ASSUME ThreadsTyped, UNCHANGED <<database, owner>>,
         live' \subseteq Callers, tries' \subseteq Callers,
         history' \subseteq live', pending' \subseteq live',
         id' \in [Callers -> 0..Len(owner)],
         record' \in [Callers -> 0..Len(owner) \cup {NoThread}],
         turn' \in [Callers -> {"idle", "running", "answered"}],
         at' \in [Callers -> 0..Len(owner)], kept' \in [Callers -> 0..Len(owner)],
         \A c \in Callers : turn'[c] # "idle" => c \in live'
  PROVE  ThreadsTyped'
<1>1. use' = use /\ threads' = threads /\ owner' = owner
  BY DEF database
<1>2. ThreadsTypeOK'
  BY <1>1 DEF ThreadsTyped, ThreadsTypeOK
<1>3. /\ use' \in Uses /\ threads' \in Seq(Nat) /\ Len(threads') = Len(owner')
      /\ at' \in [Callers -> 0..Len(owner')] /\ kept' \in [Callers -> 0..Len(owner')]
  BY <1>1 DEF ThreadsTyped
<1> QED
  BY <1>2, <1>3 DEF ThreadsTyped

\* A message goes to a thread there is, or begins one.
LEMMA SendTyped ==
  ASSUME ThreadsTyped, NEW c \in Callers, Send(c)
  PROVE  /\ ThreadsTyped'
         /\ \E t \in Nat : /\ t \in Threads \/ (t = NewThread /\ t <= MaxThreads)
                           /\ Run(c, t)
<1> DEFINE t == IdOf(c)
<1>1. t \in 0..Len(owner) /\ (t # 0 => t \in Threads) /\ Stored(c) \in 0..Len(owner)
  BY StoredTyped
<1>2. NewThread \in Nat /\ Len(owner) \in Nat
  BY ThreadsTypedFacts DEF NewThread
<1>3. \E u \in Nat : /\ u \in Threads \/ (u = NewThread /\ u <= MaxThreads)
                     /\ Run(c, u)
  <2>1. \/ t # 0 /\ Run(c, t)
        \/ NewThread <= MaxThreads /\ Run(c, NewThread)
    BY DEF Send
  <2>2. CASE t # 0 /\ Run(c, t)
    <3>1. t \in Nat /\ t \in Threads
      BY <1>1, <1>2, <2>2
    <3> HIDE DEF t
    <3> QED BY <2>2, <3>1
  <2>3. CASE NewThread <= MaxThreads /\ Run(c, NewThread)
    BY <1>2, <2>3
  <2> QED BY <2>1, <2>2, <2>3
<1>4. PICK u \in Nat : /\ u \in Threads \/ (u = NewThread /\ u <= MaxThreads)
                       /\ Run(c, u)
  BY <1>3
<1>5. /\ threads' \in Seq(Nat) /\ IsInjective(threads')
      /\ ToSet(threads') = 1..Len(owner') /\ Len(threads') = Len(owner')
      /\ owner' \in Seq(Callers) /\ Len(owner') \in Nat /\ Len(owner') <= MaxThreads
      /\ Len(owner) <= Len(owner') /\ u \in 1..Len(owner')
  BY <1>4, RunMakesThread
<1>6. /\ use' = use /\ kept' = kept /\ live' = live \cup {c}
      /\ record' = [record EXCEPT ![c] = IF c \in live THEN @ ELSE t]
      /\ turn' = [turn EXCEPT ![c] = "running"]
      /\ id' = [id EXCEPT ![c] = u] /\ at' = [at EXCEPT ![c] = u]
      /\ pending' \subseteq pending \cup {c}
  BY <1>4 DEF Send, Run, With
<1>7. history' \subseteq history \cup {c} /\ tries' \subseteq tries \cup {c}
  BY DEF Send, With
<1> HIDE DEF t
<1>8. 0..Len(owner) \subseteq 0..Len(owner') /\ u \in 0..Len(owner')
  BY <1>2, <1>5
<1>9. /\ id' \in [Callers -> 0..Len(owner')] /\ at' \in [Callers -> 0..Len(owner')]
      /\ kept' \in [Callers -> 0..Len(owner')]
      /\ record' \in [Callers -> 0..Len(owner') \cup {NoThread}]
      /\ turn' \in [Callers -> {"idle", "running", "answered"}]
  <2>1. t \in 0..Len(owner')
    BY <1>1, <1>8
  <2> QED BY <1>6, <1>8, <2>1, ThreadsTypedFacts
<1>10. /\ live' \subseteq Callers /\ tries' \subseteq Callers
       /\ history' \subseteq live' /\ pending' \subseteq live'
  BY <1>6, <1>7, ThreadsTypedFacts
<1>11. ThreadsTypeOK'
  BY <1>5, <1>9, <1>10 DEF ThreadsTypeOK
<1>12. ThreadsTyped'
  <2>1. use' \in Uses
    BY <1>6 DEF ThreadsTyped
  <2>2. \A d \in Callers : turn'[d] # "idle" => d \in live'
    BY <1>6, ThreadsTypedFacts
  <2> QED BY <1>5, <1>9, <1>11, <2>1, <2>2 DEF ThreadsTyped
<1> QED
  BY <1>3, <1>12

\* A wrapper that looks takes a thread that there is.
LEMMA LookTyped ==
  ASSUME ThreadsTyped, NEW c \in Callers, NEW before \in 0..Len(owner),
         NEW t \in {0} \cup Threads, Adopt(c, before, t)
  PROVE  id' \in [Callers -> 0..Len(owner)]
<1>1. (IF t = 0 THEN before ELSE t) \in 0..Len(owner)
  BY ThreadsTypedFacts DEF Threads
<1> QED
  BY <1>1, ThreadsTypedFacts DEF Adopt

\* What codex lists are threads there are.
LEMMA SeenAreThreads ==
  ASSUME ThreadsTyped, NEW t, NEW waits \in BOOLEAN
  PROVE  ThreadOfTurn(t) \subseteq Threads /\ ThreadOfStats(t, waits) \subseteq Threads
BY RowsShown DEF ThreadOfTurn, ThreadOfStats

\* Every step keeps the types.
LEMMA ThreadsTypedStep ==
  ASSUME ThreadsTyped, ThreadsNext
  PROVE  ThreadsTyped'
<1> USE ThreadsTypedFacts
<1>1. ASSUME NEW c \in Callers, Send(c) PROVE ThreadsTyped'
  BY <1>1, SendTyped
<1>2. ASSUME NEW c \in Callers, AnswerRead(c) PROVE ThreadsTyped'
  <2>1. PICK t \in {0} \cup ThreadOfTurn(id[c]) :
          /\ Adopt(c, id[c], t)
          /\ pending' = With(pending, c, c \in pending /\ t = 0)
    BY <1>2 DEF AnswerRead
  <2>2. t \in {0} \cup Threads /\ id[c] \in 0..Len(owner)
    BY <2>1, SeenAreThreads
  <2>3. id' \in [Callers -> 0..Len(owner)]
    BY <2>1, <2>2, LookTyped
  <2>4. UNCHANGED <<database, live, stirred, record, tries, threadMemory, looks>>
    BY <1>2 DEF AnswerRead
  <2>5. turn' = [turn EXCEPT ![c] = "answered"] /\ turn[c] = "running"
    BY <1>2 DEF AnswerRead
  <2>6. history' \subseteq live' /\ pending' \subseteq live'
    <3>1. history' \subseteq history \cup {c} /\ pending' \subseteq pending \cup {c}
      BY <1>2, <2>1 DEF AnswerRead, With
    <3>2. c \in live /\ live' = live
      BY <2>4, <2>5
    <3> QED BY <3>1, <3>2
  <2>7. /\ turn' \in [Callers -> {"idle", "running", "answered"}]
        /\ \A d \in Callers : turn'[d] # "idle" => d \in live'
    BY <2>4, <2>5
  <2> QED
    BY <2>3, <2>4, <2>6, <2>7, DatabaseKept DEF threadMemory
<1>3. ASSUME NEW c \in Callers, Save(c) PROVE ThreadsTyped'
  BY <1>3, DatabaseKept DEF Save, EndTurn, codexWrappers
<1>4. ASSUME NEW c \in Callers, TurnBreaks(c) PROVE ThreadsTyped'
  BY <1>4, DatabaseKept DEF TurnBreaks, EndTurn, codexWrappers
<1>5. ASSUME NEW c \in Callers, Stats(c) PROVE ThreadsTyped'
  <2> DEFINE waits == PendingOf(c) /\ c \notin stirred
  <2>1. PICK t \in {0} \cup ThreadOfStats(IdOf(c), waits) :
          /\ Adopt(c, IdOf(c), t)
          /\ pending' = With(pending, c, PendingOf(c) /\ t = 0)
    BY <1>5 DEF Stats
  <2>2. waits \in BOOLEAN
    OBVIOUS
  <2> HIDE DEF waits
  <2>3. t \in {0} \cup Threads /\ IdOf(c) \in 0..Len(owner)
    BY <2>1, <2>2, SeenAreThreads, StoredTyped
  <2>4. id' \in [Callers -> 0..Len(owner)]
    BY <2>1, <2>3, LookTyped
  <2>5. UNCHANGED <<database, stirred, turn, tries, threadMemory>> /\ live' = live \cup {c}
    BY <1>5 DEF Stats
  <2>6. history' \subseteq live' /\ pending' \subseteq live'
    BY <1>5, <2>1, <2>5 DEF Stats, With
  <2>7. record' \in [Callers -> 0..Len(owner) \cup {NoThread}]
    BY <1>5, <2>3 DEF Stats
  <2>8. \A d \in Callers : turn'[d] # "idle" => d \in live'
    BY <2>5
  <2> QED
    BY <2>4, <2>5, <2>6, <2>7, <2>8, DatabaseKept DEF threadMemory
<1>6. ASSUME NEW c \in Callers, Model(c) PROVE ThreadsTyped'
  <2>1. IdOf(c) \in 0..Len(owner)
    BY StoredTyped
  <2>2. UNCHANGED <<database, turn, tries, threadMemory>> /\ live' = live \cup {c}
    BY <1>6 DEF Model
  <2>3. history' \subseteq live' /\ pending' \subseteq live'
    BY <1>6, <2>2 DEF Model, With
  <2>4. /\ record' \in [Callers -> 0..Len(owner) \cup {NoThread}]
        /\ id' \in [Callers -> 0..Len(owner)]
    BY <1>6, <2>1 DEF Model
  <2>5. \A d \in Callers : turn'[d] # "idle" => d \in live'
    BY <2>2
  <2> QED
    BY <2>2, <2>3, <2>4, <2>5, DatabaseKept DEF threadMemory
<1>7. ASSUME NEW c \in Callers, IdleCleanup(c) PROVE ThreadsTyped'
  BY <1>7, DatabaseKept DEF IdleCleanup, Dismiss, threadMemory
<1>8. ASSUME NEW c \in Callers, NewSession(c) PROVE ThreadsTyped'
  BY <1>8, DatabaseKept DEF NewSession, Dismiss
<1>9. CASE RestartApp
  BY <1>9, DatabaseKept DEF RestartApp, Dismiss, EndTurn
<1> QED
  BY <1>1, <1>2, <1>3, <1>4, <1>5, <1>6, <1>7, <1>8, <1>9 DEF ThreadsNext

\* The first state is typed.
LEMMA ThreadsTypedInit ==
  ASSUME ThreadsInit
  PROVE  ThreadsTyped
<1>1. <<>> \in Seq(Nat) /\ <<>> \in Seq(Callers) /\ Len(<<>>) = 0 /\ DOMAIN <<>> = {}
  OBVIOUS
<1>2. IsInjective(threads) /\ ToSet(threads) = 1..Len(owner)
  <2>1. 1..0 = {}
    OBVIOUS
  <2> QED BY <1>1, <2>1 DEF ThreadsInit, IsInjective, ToSet
<1>3. Len(owner) = 0 /\ 0 \in 0..0 /\ MaxThreads \in Nat
  BY <1>1, ThreadsAssumption DEF ThreadsInit
<1>4. ThreadsTypeOK
  BY <1>1, <1>2, <1>3 DEF ThreadsInit, ThreadsTypeOK
<1> QED
  BY <1>1, <1>3, <1>4 DEF ThreadsInit, ThreadsTyped

\* A stutter keeps the types.
LEMMA ThreadsTypedStutters ==
  ASSUME ThreadsTyped, UNCHANGED threadVars
  PROVE  ThreadsTyped'
BY DEF ThreadsTyped, ThreadsTypeOK, threadVars, database, codexWrappers, threadMemory

\* Of CodexThreads: every state is typed, in a workspace of any size.
THEOREM ThreadsTypeCorrect == ThreadsSpec => []ThreadsTypeOK
<1>1. ThreadsTyped => ThreadsTypeOK
  BY DEF ThreadsTyped
<1> QED
  BY <1>1, ThreadsTypedInit, ThreadsTypedStep, ThreadsTypedStutters, PTL DEF ThreadsSpec

-----------------------------------------------------------------------------
\* While every thread of the workspace is listed, a wrapper that knows its thread
\* finds that one.
Follows(c) ==
  /\ turn[c] # "idle" => id[c] = at[c] /\ at[c] # 0
  /\ turn[c] = "answered" => c \in history
  /\ turn[c] = "idle" /\ kept[c] # 0 =>
       IdOf(c) = kept[c] /\ HistoryOf(c) /\ record[c] = kept[c]
  /\ turn[c] = "running" /\ kept[c] # 0 /\ c \notin tries => at[c] = kept[c]

Following == \A c \in Callers : Follows(c)

\* While all threads are listed, a message that looks finds its own.
LEMMA TurnLooks ==
  ASSUME ThreadsTyped, MaxThreads <= Listed, NEW t \in Threads
  PROVE  ThreadOfTurn(t) = {t}
BY RowsShown DEF ThreadOfTurn

\* So does /stats.
LEMMA StatsLooks ==
  ASSUME ThreadsTyped, MaxThreads <= Listed, NEW t \in Threads, NEW waits \in BOOLEAN
  PROVE  ThreadOfStats(t, waits) = {t}
BY RowsShown DEF ThreadOfStats

\* What a step leaves of a channel that it does not concern.
LEMMA OthersFollow ==
  ASSUME NEW d \in Callers, Follows(d),
         id'[d] = id[d], at'[d] = at[d], turn'[d] = turn[d], kept'[d] = kept[d],
         record'[d] = record[d], d \in live' <=> d \in live, d \in history' <=> d \in history,
         d \in tries' <=> d \in tries
  PROVE  Follows(d)'
BY DEF Follows, IdOf, HistoryOf, Stored

\* Every step keeps the thread a channel goes on with.
LEMMA FollowingStep ==
  ASSUME ThreadsTyped, MaxThreads <= Listed, Following, ThreadsNext
  PROVE  Following'
<1> USE ThreadsTypedFacts
<1>1. ASSUME NEW c \in Callers, Send(c), NEW d \in Callers PROVE Follows(d)'
  <2>1. PICK u \in Nat : (u \in Threads \/ u = NewThread) /\ Run(c, u)
    BY <1>1, SendTyped
  <2>2. u # 0
    BY <2>1 DEF Threads, NewThread
  <2>3. /\ id' = [id EXCEPT ![c] = u] /\ at' = [at EXCEPT ![c] = u]
        /\ turn' = [turn EXCEPT ![c] = "running"] /\ kept' = kept /\ turn[c] = "idle"
        /\ live' = live \cup {c}
        /\ record' = [record EXCEPT ![c] = IF c \in live THEN @ ELSE IdOf(c)]
    BY <1>1, <2>1 DEF Send, Run
  <2>4. CASE d = c
    <3>1. id'[c] = u /\ at'[c] = u /\ turn'[c] = "running" /\ kept'[c] = kept[c]
      BY <2>3
    <3>2. ASSUME kept[c] # 0, c \notin tries' PROVE u = kept[c]
      <4>1. IdOf(c) = kept[c] /\ HistoryOf(c)
        BY <2>3, <3>2 DEF Following, Follows
      <4>2. Run(c, IdOf(c))
        BY <1>1, <3>2, <4>1 DEF Send
      <4>3. at'[c] = IdOf(c)
        BY <4>2 DEF Run
      <4> QED BY <3>1, <4>1, <4>3
    <3> QED BY <2>2, <2>4, <3>1, <3>2 DEF Follows
  <2>5. CASE d # c
    <3>1. d \in history' <=> d \in history
      BY <1>1, <2>5 DEF Send, With
    <3>2. d \in tries' <=> d \in tries
      BY <1>1, <2>5 DEF Send
    <3> QED BY <2>3, <2>5, <3>1, <3>2, OthersFollow DEF Following
  <2> QED BY <2>4, <2>5
<1>2. ASSUME NEW c \in Callers, AnswerRead(c), NEW d \in Callers PROVE Follows(d)'
  <2>1. id[c] = at[c] /\ at[c] # 0 /\ turn[c] = "running"
    BY <1>2 DEF AnswerRead, Following, Follows
  <2>2. id[c] \in Threads
    BY <2>1 DEF Threads
  <2>3. \E t \in {0} \cup {id[c]} : Adopt(c, id[c], t)
    BY <1>2, <2>2, TurnLooks DEF AnswerRead
  <2>4. id' = id
    BY <2>3 DEF Adopt
  <2>5. /\ UNCHANGED <<live, record, tries, at, kept>>
        /\ turn' = [turn EXCEPT ![c] = "answered"]
    BY <1>2 DEF AnswerRead, threadMemory
  <2>6. c \in history' /\ (d # c => (d \in history' <=> d \in history))
    BY <1>2, <2>1, <2>4 DEF AnswerRead, With
  <2>7. CASE d = c
    BY <2>1, <2>4, <2>5, <2>6, <2>7 DEF Follows
  <2>8. CASE d # c
    BY <2>4, <2>5, <2>6, <2>8, OthersFollow DEF Following
  <2> QED BY <2>7, <2>8
<1>3. ASSUME NEW c \in Callers, Save(c), NEW d \in Callers PROVE Follows(d)'
  <2>1. /\ turn[c] = "answered" /\ record' = [record EXCEPT ![c] = id[c]]
        /\ kept' = [kept EXCEPT ![c] = at[c]] /\ UNCHANGED <<live, id, history>>
        /\ turn' = [e \in Callers |-> IF e = c THEN "idle" ELSE turn[e]]
        /\ at' = [e \in Callers |-> IF e = c THEN 0 ELSE at[e]]
        /\ tries' = tries \ {c}
    BY <1>3 DEF Save, EndTurn, codexWrappers
  <2>2. id[c] = at[c] /\ at[c] # 0 /\ c \in history /\ c \in live
    BY <2>1 DEF Following, Follows
  <2>3. CASE d = c
    BY <2>1, <2>2, <2>3 DEF Follows, IdOf, HistoryOf
  <2>4. CASE d # c
    BY <2>1, <2>4, OthersFollow DEF Following
  <2> QED BY <2>3, <2>4
<1>4. ASSUME NEW c \in Callers, TurnBreaks(c), NEW d \in Callers PROVE Follows(d)'
  <2>1. /\ kept' = [kept EXCEPT ![c] = 0] /\ UNCHANGED <<live, id, history, record>>
        /\ turn' = [e \in Callers |-> IF e = c THEN "idle" ELSE turn[e]]
        /\ at' = [e \in Callers |-> IF e = c THEN 0 ELSE at[e]]
        /\ tries' = tries \ {c}
    BY <1>4 DEF TurnBreaks, EndTurn, codexWrappers
  <2>2. CASE d = c
    BY <2>1, <2>2 DEF Follows
  <2>3. CASE d # c
    BY <2>1, <2>3, OthersFollow DEF Following
  <2> QED BY <2>2, <2>3
<1>5. ASSUME NEW c \in Callers, Stats(c), NEW d \in Callers PROVE Follows(d)'
  <2> DEFINE waits == PendingOf(c) /\ c \notin stirred
  <2>1. /\ turn[c] = "idle" /\ live' = live \cup {c}
        /\ history' = With(history, c, HistoryOf(c))
        /\ record' = [record EXCEPT ![c] = IF c \in live THEN @ ELSE IdOf(c)]
        /\ UNCHANGED <<turn, tries, at, kept>>
    BY <1>5 DEF Stats, threadMemory
  <2>2. PICK t \in {0} \cup ThreadOfStats(IdOf(c), waits) : Adopt(c, IdOf(c), t)
    BY <1>5 DEF Stats
  <2>3. waits \in BOOLEAN
    OBVIOUS
  <2> HIDE DEF waits
  <2>4. id' = [id EXCEPT ![c] = IF t = 0 THEN IdOf(c) ELSE t]
    BY <2>2 DEF Adopt
  <2>5. CASE d = c
    <3>1. SUFFICES ASSUME kept[c] # 0
                   PROVE  id'[c] = kept[c] /\ c \in history' /\ record'[c] = kept[c]
      BY <2>1, <2>5 DEF Follows, IdOf, HistoryOf
    <3>2. IdOf(c) = kept[c] /\ HistoryOf(c) /\ record[c] = kept[c]
      BY <2>1, <3>1 DEF Following, Follows
    <3>3. IdOf(c) \in Threads
      BY <3>1, <3>2, StoredTyped
    <3>4. t = 0 \/ t = IdOf(c)
      BY <2>2, <2>3, <3>3, StatsLooks
    <3> QED BY <2>1, <2>4, <3>2, <3>4 DEF With
  <2>6. CASE d # c
    <3>1. d \in history' <=> d \in history
      BY <2>1, <2>6 DEF With
    <3> QED BY <2>1, <2>4, <2>6, <3>1, OthersFollow DEF Following
  <2> QED BY <2>5, <2>6
<1>6. ASSUME NEW c \in Callers, Model(c), NEW d \in Callers PROVE Follows(d)'
  <2>1. /\ turn[c] = "idle" /\ live' = live \cup {c}
        /\ history' = With(history, c, HistoryOf(c))
        /\ id' = [id EXCEPT ![c] = IdOf(c)] /\ record' = [record EXCEPT ![c] = IdOf(c)]
        /\ UNCHANGED <<turn, tries, at, kept>>
    BY <1>6 DEF Model, threadMemory
  <2>2. CASE d = c
    <3>1. SUFFICES ASSUME kept[c] # 0
                   PROVE  id'[c] = kept[c] /\ c \in history' /\ record'[c] = kept[c]
      BY <2>1, <2>2 DEF Follows, IdOf, HistoryOf
    <3>2. IdOf(c) = kept[c] /\ HistoryOf(c)
      BY <2>1, <3>1 DEF Following, Follows
    <3> QED BY <2>1, <3>2 DEF With
  <2>3. CASE d # c
    <3>1. d \in history' <=> d \in history
      BY <2>1, <2>3 DEF With
    <3> QED BY <2>1, <2>3, <3>1, OthersFollow DEF Following
  <2> QED BY <2>2, <2>3
<1>7. ASSUME NEW c \in Callers, IdleCleanup(c), NEW d \in Callers PROVE Follows(d)'
  <2>1. /\ turn[c] = "idle" /\ live' = live \ {c} /\ history' = history \ {c}
        /\ id' = [e \in Callers |-> IF e = c THEN 0 ELSE id[e]]
        /\ UNCHANGED <<turn, tries, at, kept, record>>
    BY <1>7 DEF IdleCleanup, Dismiss, threadMemory
  <2>2. CASE d = c
    <3>1. kept[c] # 0 => record[c] = kept[c]
      BY <2>1 DEF Following, Follows
    <3>2. kept[c] # 0 => kept[c] # NoThread
      BY ThreadsAssumption
    <3> QED BY <2>1, <2>2, <3>1, <3>2 DEF Follows, IdOf, HistoryOf, Stored
  <2>3. CASE d # c
    BY <2>1, <2>3, OthersFollow DEF Following
  <2> QED BY <2>2, <2>3
<1>8. ASSUME NEW c \in Callers, NewSession(c), NEW d \in Callers PROVE Follows(d)'
  <2>1. /\ turn[c] = "idle" /\ live' = live \ {c} /\ history' = history \ {c}
        /\ id' = [e \in Callers |-> IF e = c THEN 0 ELSE id[e]]
        /\ kept' = [kept EXCEPT ![c] = 0] /\ record' = [record EXCEPT ![c] = NoThread]
        /\ UNCHANGED <<turn, tries, at>>
    BY <1>8 DEF NewSession, Dismiss
  <2>2. CASE d = c
    BY <2>1, <2>2 DEF Follows
  <2>3. CASE d # c
    BY <2>1, <2>3, OthersFollow DEF Following
  <2> QED BY <2>2, <2>3
<1>9. ASSUME RestartApp, NEW d \in Callers PROVE Follows(d)'
  <2>1. turn'[d] = "idle" /\ kept'[d] = 0
    BY <1>9 DEF RestartApp, EndTurn
  <2> QED BY <2>1 DEF Follows
<1> QED
  BY <1>1, <1>2, <1>3, <1>4, <1>5, <1>6, <1>7, <1>8, <1>9 DEF ThreadsNext, Following

\* So does a stutter.
LEMMA FollowingStutters ==
  ASSUME Following, UNCHANGED threadVars
  PROVE  Following'
BY DEF Following, Follows, IdOf, HistoryOf, Stored, threadVars, database, codexWrappers,
       threadMemory

\* At first there is none.
LEMMA FollowingInit ==
  ASSUME ThreadsInit
  PROVE  Following
BY DEF ThreadsInit, Following, Follows

\* Of CodexThreads: a message follows the last one that was saved into its thread,
\* through idle cleanups and commands, while codex lists every thread of the
\* workspace (codex.py:721 asks for 20).
THEOREM MessagesFollow ==
  ASSUME MaxThreads <= Listed
  PROVE  ThreadsSpec => []ThreadKept
<1>1. ThreadsInit => ThreadsTyped /\ Following
  BY ThreadsTypedInit, FollowingInit
<1>2. ThreadsTyped /\ Following /\ [ThreadsNext]_threadVars => (ThreadsTyped /\ Following)'
  BY ThreadsTypedStep, ThreadsTypedStutters, FollowingStep, FollowingStutters
<1>3. ThreadsTyped /\ Following => ThreadKept
  BY DEF Following, Follows, ThreadKept
<1> QED
  BY <1>1, <1>2, <1>3, PTL DEF ThreadsSpec

-----------------------------------------------------------------------------
\* A thread that a channel goes on with is its own.  What /stats has seen may be
\* another's, and it becomes the record of the channel only with /model.
Mine(c, t) == t \in Threads /\ owner[t] = c

Owns(c) ==
  /\ turn[c] # "idle" => Mine(c, at[c])
  /\ c \in history => Mine(c, id[c])
  /\ record[c] # NoThread /\ record[c] # 0 => Mine(c, record[c])
  /\ "model" \in use /\ id[c] # 0 => Mine(c, id[c])

OneCommand == ~("stats" \in use /\ "model" \in use)
Owned == OneCommand /\ \A c \in Callers : Owns(c)

\* A step of another channel, or one that only ends a turn, leaves what is owned.
LEMMA OthersOwn ==
  ASSUME NEW d \in Callers, Owns(d), UNCHANGED <<use, owner>>,
         id'[d] = id[d], at'[d] = at[d], record'[d] = record[d],
         turn'[d] = turn[d] \/ turn'[d] = "idle",
         d \in history' => d \in history
  PROVE  Owns(d)'
BY DEF Owns, Mine, Threads

\* What a wrapper is made from is the channel's own.
LEMMA OwnIdOf ==
  ASSUME ThreadsTyped, NEW c \in Callers, Owns(c)
  PROVE  /\ HistoryOf(c) => Mine(c, IdOf(c))
         /\ "model" \in use /\ IdOf(c) # 0 => Mine(c, IdOf(c))
         /\ Stored(c) # 0 => Mine(c, Stored(c))
<1>1. Stored(c) # 0 => Mine(c, Stored(c))
  BY DEF Owns, Stored
<1>2. CASE c \in live
  BY <1>1, <1>2 DEF Owns, HistoryOf, IdOf
<1>3. CASE c \notin live
  BY <1>1, <1>3 DEF HistoryOf, IdOf
<1> QED
  BY <1>1, <1>2, <1>3

\* Every step leaves the channels threads of their own.
LEMMA OwnedStep ==
  ASSUME ThreadsTyped, MaxThreads <= Listed, Following, Owned, ThreadsNext
  PROVE  Owned'
<1> USE ThreadsTypedFacts
<1>1. ASSUME NEW c \in Callers, Send(c), NEW d \in Callers PROVE Owns(d)'
  <2>1. PICK u \in Nat : /\ u \in Threads \/ (u = NewThread /\ u <= MaxThreads)
                         /\ Run(c, u)
    BY <1>1, SendTyped
  <2>2. /\ id' = [id EXCEPT ![c] = u] /\ at' = [at EXCEPT ![c] = u]
        /\ turn' = [turn EXCEPT ![c] = "running"] /\ use' = use
        /\ record' = [record EXCEPT ![c] = IF c \in live THEN @ ELSE IdOf(c)]
    BY <1>1, <2>1 DEF Send, Run
  <2>3. /\ Len(owner') \in Nat /\ Len(owner) <= Len(owner') /\ u \in 1..Len(owner')
        /\ \A j \in Threads : owner'[j] = owner[j]
        /\ u = NewThread => owner'[u] = c
    BY <2>1, RunMakesThread
  <2>4. ASSUME NEW e \in Callers, NEW t, Mine(e, t)
        PROVE  t \in 1..Len(owner') /\ owner'[t] = e
    BY <2>3, <2>4, SMTT(30) DEF Mine, Threads
  <2>5. \/ HistoryOf(c) /\ Run(c, IdOf(c))
        \/ Run(c, NewThread)
    BY <1>1 DEF Send
  <2>6. owner'[u] = c
    <3>1. CASE HistoryOf(c) /\ Run(c, IdOf(c))
      <4>1. id'[c] = IdOf(c)
        BY <3>1 DEF Run
      <4>2. u = IdOf(c)
        BY <2>2, <4>1
      <4>3. Mine(c, IdOf(c))
        BY <3>1, OwnIdOf DEF Owned
      <4> QED BY <2>4, <4>2, <4>3
    <3>2. CASE Run(c, NewThread)
      <4>1. id'[c] = NewThread
        BY <3>2 DEF Run
      <4>2. u = NewThread
        BY <2>2, <4>1
      <4> QED BY <2>3, <4>2
    <3> QED BY <2>5, <3>1, <3>2
  <2>7. CASE d = c
    <3>1. id'[c] = u /\ at'[c] = u
      BY <2>2
    <3>2. ASSUME record'[c] # NoThread, record'[c] # 0
          PROVE  record'[c] \in 1..Len(owner') /\ owner'[record'[c]] = c
      <4>1. CASE c \in live
        <5>1. record'[c] = record[c] /\ Mine(c, record[c])
          BY <2>2, <3>2, <4>1 DEF Owned, Owns
        <5> QED BY <2>4, <5>1
      <4>2. CASE c \notin live
        <5>1. record'[c] = IdOf(c) /\ IdOf(c) = Stored(c)
          BY <2>2, <4>2 DEF IdOf
        <5>2. Mine(c, Stored(c))
          BY <3>2, <5>1, OwnIdOf DEF Owned
        <5> QED BY <2>4, <5>1, <5>2
      <4> QED BY <4>1, <4>2
    <3> QED BY <2>3, <2>6, <2>7, <3>1, <3>2 DEF Owns, Mine, Threads
  <2>8. CASE d # c
    <3>1. d \in history' => d \in history
      BY <1>1, <2>8 DEF Send, With
    <3>2. id'[d] = id[d] /\ at'[d] = at[d] /\ turn'[d] = turn[d] /\ record'[d] = record[d]
      BY <2>2, <2>8
    <3>3. Owns(d)
      BY DEF Owned
    <3> QED BY <2>2, <2>4, <3>1, <3>2, <3>3, SMTT(30) DEF Owns, Mine, Threads
  <2> QED BY <2>7, <2>8
<1>2. ASSUME NEW c \in Callers, AnswerRead(c), NEW d \in Callers PROVE Owns(d)'
  <2>1. id[c] = at[c] /\ at[c] # 0 /\ turn[c] = "running"
    BY <1>2 DEF AnswerRead, Following, Follows
  <2>2. id[c] \in Threads
    BY <2>1 DEF Threads
  <2>3. \E t \in {0} \cup {id[c]} : Adopt(c, id[c], t)
    BY <1>2, <2>2, TurnLooks DEF AnswerRead
  <2>4. id' = id
    BY <2>3 DEF Adopt
  <2>5. UNCHANGED <<use, owner, at, record>> /\ turn' = [turn EXCEPT ![c] = "answered"]
    BY <1>2 DEF AnswerRead, threadMemory, database
  <2>6. d # c /\ d \in history' => d \in history
    BY <1>2 DEF AnswerRead, With
  <2>7. Mine(c, id[c])
    BY <2>1 DEF Owned, Owns
  <2>8. CASE d = c
    BY <2>1, <2>4, <2>5, <2>7, <2>8 DEF Owned, Owns, Mine, Threads
  <2>9. CASE d # c
    BY <2>4, <2>5, <2>6, <2>9, OthersOwn DEF Owned
  <2> QED BY <2>8, <2>9
<1>3. ASSUME NEW c \in Callers, Save(c), NEW d \in Callers PROVE Owns(d)'
  <2>1. /\ turn[c] = "answered" /\ record' = [record EXCEPT ![c] = id[c]]
        /\ UNCHANGED <<use, owner, id, history>>
        /\ turn' = [e \in Callers |-> IF e = c THEN "idle" ELSE turn[e]]
        /\ at' = [e \in Callers |-> IF e = c THEN 0 ELSE at[e]]
    BY <1>3 DEF Save, EndTurn, codexWrappers, database
  <2>2. c \in history
    BY <2>1 DEF Following, Follows
  <2>3. CASE d = c
    <3>1. Mine(c, id[c])
      BY <2>2 DEF Owned, Owns
    <3> QED BY <2>1, <2>3, <3>1 DEF Owned, Owns, Mine, Threads
  <2>4. CASE d # c
    BY <2>1, <2>4, OthersOwn DEF Owned
  <2> QED BY <2>3, <2>4
<1>4. ASSUME NEW c \in Callers, TurnBreaks(c), NEW d \in Callers PROVE Owns(d)'
  <2>1. /\ UNCHANGED <<use, owner, id, history, record>>
        /\ turn' = [e \in Callers |-> IF e = c THEN "idle" ELSE turn[e]]
        /\ at' = [e \in Callers |-> IF e = c THEN 0 ELSE at[e]]
    BY <1>4 DEF TurnBreaks, EndTurn, codexWrappers, database
  <2>2. CASE d = c
    BY <2>1, <2>2 DEF Owned, Owns, Mine, Threads
  <2>3. CASE d # c
    BY <2>1, <2>3, OthersOwn DEF Owned
  <2> QED BY <2>2, <2>3
<1>5. ASSUME NEW c \in Callers, Stats(c), NEW d \in Callers PROVE Owns(d)'
  <2> DEFINE waits == PendingOf(c) /\ c \notin stirred
  <2>1. /\ turn[c] = "idle" /\ "stats" \in use
        /\ history' = With(history, c, HistoryOf(c))
        /\ record' = [record EXCEPT ![c] = IF c \in live THEN @ ELSE IdOf(c)]
        /\ UNCHANGED <<use, owner, turn, at>>
    BY <1>5 DEF Stats, threadMemory, database
  <2>2. PICK t \in {0} \cup ThreadOfStats(IdOf(c), waits) : Adopt(c, IdOf(c), t)
    BY <1>5 DEF Stats
  <2>3. waits \in BOOLEAN
    OBVIOUS
  <2> HIDE DEF waits
  <2>4. id' = [id EXCEPT ![c] = IF t = 0 THEN IdOf(c) ELSE t]
    BY <2>2 DEF Adopt
  <2>5. "model" \notin use
    BY <2>1 DEF Owned, OneCommand
  <2>6. CASE d = c
    <3>1. ASSUME HistoryOf(c) PROVE Mine(c, id'[c])
      <4>1. Mine(c, IdOf(c))
        BY <3>1, OwnIdOf DEF Owned
      <4>2. t = 0 \/ t = IdOf(c)
        BY <2>2, <2>3, <4>1, StatsLooks DEF Mine
      <4> QED BY <2>4, <4>1, <4>2
    <3>2. ASSUME record'[c] # NoThread, record'[c] # 0 PROVE Mine(c, record'[c])
      <4>1. CASE c \in live
        BY <2>1, <3>2, <4>1 DEF Owned, Owns
      <4>2. CASE c \notin live
        <5>1. record'[c] = Stored(c)
          BY <2>1, <4>2 DEF IdOf
        <5>2. Stored(c) # 0 => Mine(c, Stored(c))
          BY OwnIdOf DEF Owned
        <5> QED BY <3>2, <5>1, <5>2
      <4> QED BY <4>1, <4>2
    <3>3. c \in history' => HistoryOf(c)
      BY <2>1 DEF With
    <3> QED BY <2>1, <2>5, <2>6, <3>1, <3>2, <3>3 DEF Owns, Mine, Threads
  <2>7. CASE d # c
    <3>1. d \in history' => d \in history
      BY <2>1, <2>7 DEF With
    <3> QED BY <2>1, <2>4, <2>7, <3>1, OthersOwn DEF Owned
  <2> QED BY <2>6, <2>7
<1>6. ASSUME NEW c \in Callers, Model(c), NEW d \in Callers PROVE Owns(d)'
  <2>1. /\ turn[c] = "idle" /\ "model" \in use
        /\ history' = With(history, c, HistoryOf(c))
        /\ id' = [id EXCEPT ![c] = IdOf(c)] /\ record' = [record EXCEPT ![c] = IdOf(c)]
        /\ UNCHANGED <<use, owner, turn, at>>
    BY <1>6 DEF Model, threadMemory, database
  <2>2. CASE d = c
    <3>1. IdOf(c) # 0 => Mine(c, IdOf(c))
      BY <2>1, OwnIdOf DEF Owned
    <3>2. c \in history' => Mine(c, IdOf(c))
      BY <2>1, OwnIdOf DEF Owned, With
    <3> QED BY <2>1, <2>2, <3>1, <3>2 DEF Owns, Mine, Threads
  <2>3. CASE d # c
    <3>1. d \in history' => d \in history
      BY <2>1, <2>3 DEF With
    <3> QED BY <2>1, <2>3, <3>1, OthersOwn DEF Owned
  <2> QED BY <2>2, <2>3
<1>7. ASSUME NEW c \in Callers, IdleCleanup(c), NEW d \in Callers PROVE Owns(d)'
  <2>1. /\ turn[c] = "idle" /\ history' = history \ {c}
        /\ id' = [e \in Callers |-> IF e = c THEN 0 ELSE id[e]]
        /\ UNCHANGED <<use, owner, turn, at, record>>
    BY <1>7 DEF IdleCleanup, Dismiss, threadMemory, database
  <2>2. CASE d = c
    BY <2>1, <2>2 DEF Owned, Owns, Mine, Threads
  <2>3. CASE d # c
    BY <2>1, <2>3, OthersOwn DEF Owned
  <2> QED BY <2>2, <2>3
<1>8. ASSUME NEW c \in Callers, NewSession(c), NEW d \in Callers PROVE Owns(d)'
  <2>1. /\ turn[c] = "idle" /\ history' = history \ {c}
        /\ id' = [e \in Callers |-> IF e = c THEN 0 ELSE id[e]]
        /\ record' = [record EXCEPT ![c] = NoThread]
        /\ UNCHANGED <<use, owner, turn, at>>
    BY <1>8 DEF NewSession, Dismiss, database
  <2>2. CASE d = c
    BY <2>1, <2>2 DEF Owns
  <2>3. CASE d # c
    BY <2>1, <2>3, OthersOwn DEF Owned
  <2> QED BY <2>2, <2>3
<1>9. ASSUME RestartApp, NEW d \in Callers PROVE Owns(d)'
  <2>1. turn'[d] = "idle" /\ d \notin history' /\ id'[d] = 0 /\ record'[d] = NoThread
    BY <1>9 DEF RestartApp, EndTurn, Dismiss
  <2> QED BY <2>1 DEF Owns
<1>10. use' = use
  BY DEF ThreadsNext, Send, AnswerRead, Save, TurnBreaks, Stats, Model, IdleCleanup,
         NewSession, RestartApp, database
<1> QED
  BY <1>1, <1>2, <1>3, <1>4, <1>5, <1>6, <1>7, <1>8, <1>9, <1>10
     DEF ThreadsNext, Owned, OneCommand

\* So does a stutter.
LEMMA OwnedStutters ==
  ASSUME Owned, UNCHANGED threadVars
  PROVE  Owned'
BY DEF Owned, OneCommand, Owns, Mine, Threads, threadVars, database, codexWrappers,
       threadMemory

\* At first they have none.
LEMMA OwnedInit ==
  ASSUME ThreadsInit, OneCommand
  PROVE  Owned
BY DEF ThreadsInit, Owned, Owns

\* Of CodexThreads: codex never gets a channel's message in another channel's
\* thread, while it lists every thread of the workspace and not both /stats and
\* /model are used.  Each of the two conditions is needed.
THEOREM ThreadsAreOwn ==
  ASSUME MaxThreads <= Listed
  PROVE  ThreadsSpec /\ OneCommand => []OwnThread
<1> DEFINE IInv == ThreadsTyped /\ Following /\ Owned
<1>1. ThreadsInit /\ OneCommand => IInv
  BY ThreadsTypedInit, FollowingInit, OwnedInit
<1>2. IInv /\ [ThreadsNext]_threadVars => IInv'
  <2>1. IInv /\ ThreadsNext => IInv'
    BY ThreadsTypedStep, FollowingStep, OwnedStep
  <2>2. IInv /\ UNCHANGED threadVars => IInv'
    BY ThreadsTypedStutters, FollowingStutters, OwnedStutters
  <2> QED BY <2>1, <2>2
<1>3. IInv => OwnThread
  BY DEF Owned, Owns, Mine, OwnThread
<1> HIDE DEF IInv
<1> QED
  BY <1>1, <1>2, <1>3, PTL DEF ThreadsSpec

-----------------------------------------------------------------------------
(***************************************************************************)
(* Memory: what was appended stays, full files are left, runs are kept.    *)
(***************************************************************************)

\* The files of a day.
LEMMA NumbersFinite ==
  /\ Cardinality(Turns) \in Nat /\ Cardinality(Runs) \in Nat
  /\ Numbers \subseteq Nat \ {0} /\ IsFiniteSet(Numbers)
  /\ Numbers = 1..(2 * Cardinality(Turns) + Cardinality(Runs))
  /\ DayFiles \subseteq Numbers /\ RunFiles \subseteq Numbers
  /\ IsFiniteSet(DayFiles) /\ IsFiniteSet(RunFiles)
  /\ Cardinality(DayFiles) \in Nat /\ Cardinality(RunFiles) \in Nat
<1>1. Cardinality(Turns) \in Nat /\ Cardinality(Runs) \in Nat
  BY MemoryAssumption, FS_CardinalityType
<1>2. Numbers \subseteq Nat \ {0} /\ IsFiniteSet(Numbers)
  <2> DEFINE top == 2 * Cardinality(Turns) + Cardinality(Runs)
  <2>1. top \in Nat
    BY <1>1
  <2> HIDE DEF top
  <2>2. Numbers = 1..top
    BY DEF Numbers, top
  <2> QED BY <2>1, <2>2, FS_Interval
<1>3. DayFiles \subseteq Numbers /\ RunFiles \subseteq Numbers
  BY DEF DayFiles, RunFiles
<1>4. IsFiniteSet(DayFiles) /\ IsFiniteSet(RunFiles)
  BY <1>2, <1>3, FS_Subset
<1>5. Cardinality(DayFiles) \in Nat /\ Cardinality(RunFiles) \in Nat
  BY <1>4, FS_CardinalityType
<1> QED
  BY <1>1, <1>2, <1>3, <1>4, <1>5 DEF Numbers

\* A day has a last file: there is a smallest number that none exceeds.
LEMMA LastThere ==
  ASSUME NEW S, S \subseteq Numbers, S # {}
  PROVE  LastOf(S) \in S /\ \A m \in S : m <= LastOf(S)
<1> DEFINE top == 2 * Cardinality(Turns) + Cardinality(Runs)
           Above == {u \in Nat : \A m \in S : m <= u}
<1>1. top \in Nat /\ S \subseteq Nat \ {0} /\ \A m \in S : m <= top
  <2>1. top \in Nat
    BY NumbersFinite
  <2> HIDE DEF top
  <2>2. Numbers = 1..top
    BY NumbersFinite DEF top
  <2> QED BY <2>1, <2>2
<1> HIDE DEF top
<1>2. top \in Above
  BY <1>1
<1>3. PICK u \in Above : \A y \in Above : <<y, u>> \notin OpToRel(<, Nat)
  <2>1. Above \subseteq Nat /\ Above # {}
    BY <1>2
  <2> HIDE DEF Above
  <2> QED BY <2>1, NatLessThanWellFounded, WFMin
<1>4. u \in S
  <2> SUFFICES ASSUME u \notin S PROVE FALSE
    OBVIOUS
  <2>1. \A m \in S : m < u
    <3> SUFFICES ASSUME NEW m \in S PROVE m < u
      OBVIOUS
    <3>1. m \in Nat /\ u \in Nat /\ m # u
      BY <1>1
    <3>2. m <= u
      <4>1. u \in Above
        BY <1>3
      <4> QED BY <4>1
    <3> QED BY <3>1, <3>2
  <2>2. u # 0
    <3>1. PICK m \in S : TRUE
      OBVIOUS
    <3>2. m \in Nat /\ m < u
      BY <1>1, <2>1
    <3> QED BY <3>2
  <2>3. u - 1 \in Above
    BY <1>1, <2>1, <2>2
  <2>4. <<u - 1, u>> \in OpToRel(<, Nat)
    BY <2>2 DEF OpToRel
  <2> QED BY <1>3, <2>3, <2>4
<1>5. \E n \in S : \A m \in S : m <= n
  BY <1>4
<1> QED
  BY <1>5 DEF LastOf

-----------------------------------------------------------------------------
Recorded == Entry \cup {Litter}

MemoryTyped ==
  /\ conversations \in [Numbers -> [body : Seq(Recorded), dashed : BOOLEAN, there : BOOLEAN]]
  /\ \A n \in Numbers : ~conversations[n].there => Body(n) = <<>>
  /\ jobRuns \in [Numbers -> Runs \cup {NoWriter}]
  /\ holder \in Turns \cup Runs \cup {NoWriter}
  /\ target \in [Turns \cup Runs -> Nat]
  /\ draft \in [Turns -> Seq(Recorded)]
  /\ next \in [Turns \cup Runs -> Roles \cup {"done", "failed"}]
  /\ log \in Seq(Entry)
  /\ removals \in Nat

\* Who writes has the lock, and what it read is still so.
Chosen ==
  /\ \A w \in Turns \cup Runs : target[w] # 0 => holder = w
  /\ \A t \in Turns : holder = t =>
       /\ target[t] = SelectFile /\ next[t] \in Roles
       /\ draft[t] = Append(BodyOf(conversations[SelectFile]), <<t, next[t]>>)
  /\ \A r \in Runs : holder = r => target[r] = SelectRunFile

\* What a turn appends next is not there yet, files that are there hold an entry,
\* and without removals they are numbered without a gap.
Filed ==
  /\ \A t \in Turns :
       /\ next[t] \in Roles => <<t, next[t]>> \notin ToSet(log)
       /\ next[t] = "user" => <<t, "assistant">> \notin ToSet(log)
  /\ gone \subseteq ToSet(log) \cup {Litter}
  /\ \A n \in DayFiles : \E i \in DOMAIN Body(n) : Body(n)[i] # Litter
  /\ removals = 0 => \E k \in Nat : DayFiles = 1..k

MemoryInv == MemoryTyped /\ Chosen /\ Filed /\ EntriesKept

\* What is left of a header is no entry.
LEMMA LitterIsNoEntry ==
  Litter \notin Entry
BY DEF Litter, Entry, Roles

\* The chosen number is a file's: each file has an entry of its own, and the next
\* one is in none of them, so there are fewer files than entries.
LEMMA SelectFileTyped ==
  ASSUME MemoryTyped, Filed, EntriesKept, NEW t \in Turns, next[t] \in Roles
  PROVE  SelectFile \in Numbers
<1> DEFINE c == Cardinality(Turns)
           d == Cardinality(DayFiles)
           e == <<t, next[t]>>
<1>1. c \in Nat \ {0}
  <2>1. c \in Nat /\ c # 0
    BY NumbersFinite, MemoryAssumption, FS_EmptySet
  <2> QED BY <2>1
<1>2. d + 1 \in Numbers
  <2> DEFINE T == Entry \ {e}
             Spot(n) == CHOOSE i \in DOMAIN Body(n) : Body(n)[i] # Litter
             f == [n \in DayFiles |-> Body(n)[Spot(n)]]
  <2>1. IsFiniteSet(T) /\ Cardinality(T) = 2 * c - 1
    <3>1. IsFiniteSet(Roles) /\ Cardinality(Roles) = 2
      <4>1. IsFiniteSet({"user"}) /\ Cardinality({"user"}) = 1
        BY FS_Singleton
      <4>2. Roles = {"user"} \cup {"assistant"} /\ "assistant" \notin {"user"}
        BY DEF Roles
      <4> QED BY <4>1, <4>2, FS_AddElement, SMTT(30)
    <3>2. IsFiniteSet(Entry) /\ Cardinality(Entry) = c * 2
      BY <3>1, MemoryAssumption, FS_Product DEF Entry
    <3>3. e \in Entry
      BY DEF Entry
    <3>4. IsFiniteSet(T) /\ Cardinality(T) = Cardinality(Entry) - 1
      BY <3>2, <3>3, FS_RemoveElement
    <3> QED BY <1>1, <3>2, <3>4
  <2>2. ASSUME NEW n \in DayFiles
        PROVE  Spot(n) \in DOMAIN Body(n) /\ f[n] = Body(n)[Spot(n)] /\ f[n] # Litter
    <3>1. \E i \in DOMAIN Body(n) : Body(n)[i] # Litter
      BY DEF Filed
    <3> QED BY <3>1
  <2>3. f \in [DayFiles -> T]
    <3> SUFFICES ASSUME NEW n \in DayFiles PROVE f[n] \in T
      OBVIOUS
    <3>1. n \in Numbers
      BY NumbersFinite
    <3>2. f[n] \in ToSet(log)
      BY <2>2, <3>1 DEF EntriesKept
    <3>3. e \notin ToSet(log)
      BY DEF Filed
    <3>4. f[n] \in Entry
      BY <3>2 DEF MemoryTyped, ToSet
    <3> QED BY <3>2, <3>3, <3>4
  <2>4. ASSUME NEW n \in DayFiles, NEW m \in DayFiles, f[n] = f[m]
        PROVE  n = m
    <3>1. n \in Numbers /\ m \in Numbers
      BY NumbersFinite
    <3>2. Body(m)[Spot(m)] = Body(n)[Spot(n)] /\ Body(n)[Spot(n)] # Litter
      BY <2>2, <2>4
    <3> QED BY <2>2, <3>1, <3>2 DEF EntriesKept
  <2>5. f \in Injection(DayFiles, T)
    BY <2>3, <2>4 DEF Injection, IsInjective
  <2> HIDE DEF f, T
  <2>6. d <= Cardinality(T)
    BY <2>1, <2>5, FS_Injection
  <2> HIDE DEF c, d
  <2>7. d \in Nat /\ Cardinality(Runs) \in Nat
    BY NumbersFinite DEF d
  <2>8. d + 1 \in 1..(2 * c + Cardinality(Runs))
    BY <1>1, <2>1, <2>6, <2>7
  <2> QED BY <2>8 DEF c, Numbers
<1>3. 1 \in Numbers
  <2>1. 1 \in 1..(2 * c + Cardinality(Runs))
    <3>1. Cardinality(Runs) \in Nat
      BY NumbersFinite
    <3> HIDE DEF c
    <3> QED BY <1>1, <3>1
  <2> QED BY <2>1 DEF Numbers
<1>4. DayFiles # {} => LastOf(DayFiles) \in Numbers
  BY NumbersFinite, LastThere
<1> QED
  BY <1>2, <1>3, <1>4 DEF SelectFile

-----------------------------------------------------------------------------
\* The body of a file after an append: what was there, one further back when a
\* header was read wrongly, and the entry.
Extends(r, b, e, sh) ==
  /\ r \in Seq(Recorded) /\ Len(b) \in Nat /\ Len(r) = Len(b) + sh + 1
  /\ DOMAIN r = 1..(Len(b) + sh + 1) /\ r[Len(b) + sh + 1] = e
  /\ \A i \in 1..Len(b) : r[i + sh] = b[i]
  /\ sh = 1 => r[1] = Litter

\* An append extends the body.
LEMMA AppendedBody ==
  ASSUME NEW b \in Seq(Recorded), NEW document, document.body = b, NEW e \in Entry,
         NEW r, r = Append(BodyOf(document), e)
  PROVE  \E sh \in {0, 1} : Extends(r, b, e, sh)
<1> DEFINE n == Len(b)
           sh == IF document.dashed THEN 1 ELSE 0
           h == BodyOf(document)
<1>1. n \in Nat /\ DOMAIN b = 1..n /\ sh \in {0, 1} /\ e \in Recorded
  BY DEF Recorded
<1>2. /\ h \in Seq(Recorded) /\ Len(h) = n + sh
      /\ \A i \in 1..n : h[i + sh] = b[i]
      /\ sh = 1 => h[1] = Litter
  <2>1. CASE document.dashed
    <3>1. h = <<Litter>> \o b /\ Litter \in Recorded /\ sh = 1
      BY <2>1 DEF BodyOf, Recorded
    <3> HIDE DEF h, n
    <3>2. /\ h \in Seq(Recorded) /\ Len(h) = Len(b) + 1 /\ h[1] = Litter
          /\ \A i \in 1..Len(b) : h[i + 1] = b[i]
      BY <3>1, InFront
    <3> QED BY <3>1, <3>2 DEF n
  <2>2. CASE ~document.dashed
    <3>1. h = b /\ sh = 0
      BY <2>2 DEF BodyOf
    <3> HIDE DEF h, sh
    <3>2. ASSUME NEW i \in 1..n PROVE h[i + sh] = b[i]
      <4>1. i + sh = i
        BY <1>1, <3>1
      <4> QED BY <3>1, <4>1
    <3>3. h \in Seq(Recorded) /\ Len(h) = n + sh
      BY <1>1, <3>1
    <3>4. ~(sh = 1)
      BY <3>1
    <3> QED BY <3>2, <3>3, <3>4
  <2> QED BY <2>1, <2>2
<1> HIDE DEF sh, h
<1>3. /\ r \in Seq(Recorded) /\ Len(r) = Len(h) + 1
      /\ \A i \in 1..Len(h) : r[i] = h[i] /\ r[Len(h) + 1] = e
  BY <1>1, <1>2, AppendProperties DEF h
<1>4. r[Len(h) + 1] = e
  BY <1>1, <1>2, AppendProperties DEF h
<1> HIDE DEF n
<1>5. Len(r) = n + sh + 1 /\ DOMAIN r = 1..(n + sh + 1) /\ r[n + sh + 1] = e
  BY <1>1, <1>2, <1>3, <1>4, LenProperties
<1>6. \A i \in 1..n : r[i + sh] = b[i]
  <2> SUFFICES ASSUME NEW i \in 1..n PROVE r[i + sh] = b[i]
    OBVIOUS
  <2>1. i + sh \in 1..Len(h)
    BY <1>1, <1>2
  <2> QED BY <1>2, <1>3, <2>1
<1>7. sh = 1 => r[1] = Litter
  <2> SUFFICES ASSUME sh = 1 PROVE r[1] = Litter
    OBVIOUS
  <2>1. 1 \in 1..Len(h)
    BY <1>1, <1>2
  <2> QED BY <1>2, <1>3, <2>1
<1> QED
  BY <1>1, <1>3, <1>5, <1>6, <1>7 DEF n, Extends

\* What the steps of a writer leave of the files, and what it does to the turns.
LEMMA FilesKept ==
  ASSUME MemoryInv, UNCHANGED <<conversations, log, gone, removals>>,
         next' \in [Turns \cup Runs -> Roles \cup {"done", "failed"}],
         \A t \in Turns : next'[t] \in Roles => next'[t] = next[t]
  PROVE  Filed' /\ EntriesKept'
<1>1. EntriesKept'
  BY DEF MemoryInv, EntriesKept, Body
<1>2. \A t \in Turns : /\ next'[t] \in Roles => <<t, next'[t]>> \notin ToSet(log')
                       /\ next'[t] = "user" => <<t, "assistant">> \notin ToSet(log')
  BY DEF MemoryInv, Filed, Roles
<1>3. DayFiles' = DayFiles /\ \A n : Body(n)' = Body(n)
  BY DEF DayFiles, Body
<1>4. gone' \subseteq ToSet(log') \cup {Litter}
  BY DEF MemoryInv, Filed
<1>5. \A n \in DayFiles' : \E i \in DOMAIN Body(n)' : Body(n)'[i] # Litter
  BY <1>3 DEF MemoryInv, Filed
<1>6. removals' = 0 => \E k \in Nat : DayFiles' = 1..k
  BY <1>3 DEF MemoryInv, Filed
<1>7. Filed'
  BY <1>2, <1>3, <1>4, <1>5, <1>6 DEF Filed
<1> QED
  BY <1>1, <1>7

\* What is typed, for the provers.
LEMMA MemoryTypedFacts ==
  ASSUME MemoryTyped
  PROVE  /\ \A n \in Numbers : Body(n) \in Seq(Recorded) /\ conversations[n].there \in BOOLEAN
         /\ \A t \in Turns : next[t] \in Roles => <<t, next[t]>> \in Entry
<1>1. \A n \in Numbers : conversations[n] \in [body : Seq(Recorded), dashed : BOOLEAN, there : BOOLEAN]
  BY DEF MemoryTyped
<1>2. \A n \in Numbers : conversations[n].body \in Seq(Recorded) /\ conversations[n].there \in BOOLEAN
  <2> DEFINE S == Seq(Recorded)
  <2> HIDE DEF S
  <2>1. \A n \in Numbers : conversations[n] \in [body : S, dashed : BOOLEAN, there : BOOLEAN]
    BY <1>1 DEF S
  <2>2. \A n \in Numbers : conversations[n].body \in S /\ conversations[n].there \in BOOLEAN
    BY <2>1
  <2> QED BY <2>2 DEF S
<1> QED
  BY <1>2 DEF Body, Entry

\* A turn that takes the lock and reads: what it will write is what is there and
\* its entry.
LEMMA StartAppendKeeps ==
  ASSUME MemoryInv, NEW t \in Turns, StartAppend(t)
  PROVE  MemoryInv'
<1>1. /\ next[t] \in Roles /\ holder = NoWriter /\ holder' = t
      /\ target' = [target EXCEPT ![t] = SelectFile]
      /\ draft' = [draft EXCEPT ![t] = Append(BodyOf(conversations[SelectFile]), <<t, next[t]>>)]
      /\ UNCHANGED <<conversations, jobRuns, next, log, gone, removals>>
  BY DEF StartAppend, Writing
<1>2. SelectFile \in Numbers /\ SelectFile \in Nat /\ <<t, next[t]>> \in Entry
  BY <1>1, SelectFileTyped, NumbersFinite, MemoryTypedFacts DEF MemoryInv
<1>3. Append(BodyOf(conversations[SelectFile]), <<t, next[t]>>) \in Seq(Recorded)
  <2>1. Body(SelectFile) \in Seq(Recorded)
    BY <1>2, MemoryTypedFacts DEF MemoryInv
  <2> QED BY <1>2, <2>1, AppendedBody DEF Body, Extends
<1>4. MemoryTyped'
  BY <1>1, <1>2, <1>3 DEF MemoryInv, MemoryTyped, Body
<1>5. SelectFile' = SelectFile
  BY <1>1 DEF SelectFile, DayFiles
<1>6. \A w \in Turns \cup Runs : target[w] = 0
  BY <1>1, MemoryAssumption DEF MemoryInv, Chosen
<1>7. Chosen'
  <2>1. \A w \in Turns \cup Runs : target'[w] # 0 => holder' = w
    BY <1>1, <1>6 DEF MemoryInv, MemoryTyped
  <2>2. target'[t] = SelectFile
    BY <1>1 DEF MemoryInv, MemoryTyped
  <2>3. draft'[t] = Append(BodyOf(conversations[SelectFile]), <<t, next[t]>>)
    BY <1>1 DEF MemoryInv, MemoryTyped
  <2>4. \A r \in Runs : holder' # r
    BY <1>1, MemoryAssumption
  <2>5. draft'[t] = Append(BodyOf(conversations'[SelectFile']), <<t, next'[t]>>)
    BY <1>1, <1>5, <2>3
  <2> QED BY <1>1, <1>5, <2>1, <2>2, <2>4, <2>5 DEF Chosen
<1>8. Filed' /\ EntriesKept'
  BY <1>1, FilesKept DEF MemoryInv, MemoryTyped
<1> QED
  BY <1>4, <1>7, <1>8 DEF MemoryInv

\* Who leaves the lock leaves types.
LEMMA LeavesLockTyped ==
  ASSUME MemoryTyped, NEW W, LeavesLock(W)
  PROVE  /\ holder' \in Turns \cup Runs \cup {NoWriter} /\ target' \in [Turns \cup Runs -> Nat]
         /\ draft' \in [Turns -> Seq(Recorded)]
<1>1. <<>> \in Seq(Recorded)
  OBVIOUS
<1> QED
  BY <1>1 DEF LeavesLock, MemoryTyped

\* Who writes had the lock; afterwards nobody has it.
LEMMA WriterLeaves ==
  ASSUME MemoryInv, NEW w \in Turns \cup Runs, target[w] # 0, LeavesLock({w})
  PROVE  /\ holder = w /\ holder' = NoWriter
         /\ \A v \in Turns \cup Runs : target'[v] = 0
         /\ Chosen'
<1>1. holder = w /\ holder' = NoWriter
  BY DEF MemoryInv, Chosen, LeavesLock
<1>2. \A v \in Turns \cup Runs : target'[v] = 0
  BY <1>1 DEF MemoryInv, Chosen, LeavesLock
<1>3. \A v \in Turns \cup Runs : holder' # v
  BY <1>1, MemoryAssumption
<1>4. Chosen'
  BY <1>2, <1>3 DEF Chosen
<1> QED
  BY <1>1, <1>2, <1>4

\* An append: nothing is lost, nothing is doubled, and the entry is the last of
\* all where no file was removed.
LEMMA AppendedKeeps ==
  ASSUME MemoryInv, NEW t \in Turns, Appended(t)
  PROVE  MemoryInv'
<1>0. PICK k, e, b, r : k = target[t] /\ e = <<t, next[t]>> /\ b = Body(k) /\ r = draft[t]
  OBVIOUS
<1>1. PICK dashed \in BOOLEAN :
        conversations' = [conversations EXCEPT ![k] = [body |-> r, dashed |-> dashed, there |-> TRUE]]
  BY <1>0 DEF Appended
<1>2. /\ k # 0 /\ log' = Append(log, e)
      /\ next' = [next EXCEPT ![t] = IF @ = "user" THEN "assistant" ELSE "done"]
      /\ LeavesLock({t}) /\ UNCHANGED <<jobRuns, gone, removals>>
  BY <1>0 DEF Appended
<1>3. holder = t /\ holder' = NoWriter /\ Chosen'
  BY <1>0, <1>2, WriterLeaves
<1>4. /\ k = SelectFile /\ next[t] \in Roles
      /\ r = Append(BodyOf(conversations[k]), e)
  BY <1>0, <1>3 DEF MemoryInv, Chosen
<1>5. k \in Numbers /\ e \in Entry /\ b \in Seq(Recorded) /\ log \in Seq(Entry)
  BY <1>0, <1>4, SelectFileTyped, MemoryTypedFacts DEF MemoryInv, MemoryTyped
<1>6. PICK sh \in {0, 1} :
        /\ r \in Seq(Recorded) /\ Len(b) \in Nat /\ Len(r) = Len(b) + sh + 1
        /\ DOMAIN r = 1..(Len(b) + sh + 1) /\ r[Len(b) + sh + 1] = e
        /\ \A i \in 1..Len(b) : r[i + sh] = b[i]
        /\ sh = 1 => r[1] = Litter
  <2>1. PICK document : document = conversations[k]
    OBVIOUS
  <2>2. document.body = b /\ r = Append(BodyOf(document), e)
    BY <1>0, <1>4, <2>1 DEF Body
  <2>3. \E sh \in {0, 1} : Extends(r, b, e, sh)
    BY <1>5, <2>2, AppendedBody
  <2> QED BY <2>3 DEF Extends
<1> DEFINE l == Len(b)
           last == l + sh + 1
<1>7. l \in Nat /\ DOMAIN b = 1..l /\ sh \in {0, 1} /\ last \in Nat
  BY <1>5, <1>6
<1>8. e \notin ToSet(log) /\ e # Litter /\ e \notin gone
  BY <1>0, <1>4, <1>5, LitterIsNoEntry DEF MemoryInv, Filed
<1>9. /\ Len(log) \in Nat /\ DOMAIN log = 1..Len(log)
      /\ DOMAIN log' = 1..(Len(log) + 1) /\ log'[Len(log) + 1] = e
      /\ \A a \in 1..Len(log) : log'[a] = log[a]
      /\ ToSet(log') = ToSet(log) \cup {e} /\ log' \in Seq(Entry)
  <2>1. /\ Len(log) \in Nat /\ DOMAIN log = 1..Len(log)
        /\ DOMAIN log' = 1..(Len(log) + 1) /\ log'[Len(log) + 1] = e
        /\ \A a \in 1..Len(log) : log'[a] = log[a]
        /\ log' \in Seq(Entry)
    BY <1>2, <1>5, AppendProperties, LenProperties
  <2>2. ToSet(log') = ToSet(log) \cup {e}
    <3>1. \A a \in DOMAIN log' : log'[a] = e \/ \E c \in DOMAIN log : log'[a] = log[c]
      <4> SUFFICES ASSUME NEW a \in DOMAIN log', a # Len(log) + 1 PROVE a \in DOMAIN log /\ log'[a] = log[a]
        BY <2>1
      <4>1. a \in 1..Len(log)
        BY <2>1
      <4> QED BY <2>1, <4>1
    <3>2. \A c \in DOMAIN log : c \in DOMAIN log' /\ log'[c] = log[c]
      BY <2>1
    <3>3. Len(log) + 1 \in DOMAIN log'
      BY <2>1
    <3>4. ToSet(log') \subseteq ToSet(log) \cup {e}
      BY <3>1 DEF ToSet
    <3>5. ToSet(log) \subseteq ToSet(log')
      BY <3>2 DEF ToSet
    <3>6. e \in ToSet(log')
      BY <2>1, <3>3 DEF ToSet
    <3> QED BY <3>4, <3>5, <3>6
  <2> QED BY <2>1, <2>2
<1>10. \A n \in Numbers : Body(n)' = IF n = k THEN r ELSE Body(n)
  BY <1>1, <1>5 DEF Body, MemoryInv, MemoryTyped
<1> HIDE DEF l, last
\* Where an entry stands now, and where it stood.
<1> DEFINE Stood(n, i) == IF n = k THEN i - sh ELSE i
<1>11. ASSUME NEW n \in Numbers, NEW i \in DOMAIN Body(n)', Body(n)'[i] # Litter
       PROVE  \/ n = k /\ i = last /\ Body(n)'[i] = e
              \/ Stood(n, i) \in DOMAIN Body(n) /\ Body(n)'[i] = Body(n)[Stood(n, i)]
  <2>1. CASE n # k
    BY <1>10, <2>1
  <2>2. CASE n = k
    <3>1. Body(n)' = r /\ Body(n) = b
      BY <1>0, <1>10, <2>2
    <3>2. i \in 1..last
      BY <1>6, <3>1 DEF last, l
    <3>3. CASE i = last
      BY <1>6, <2>2, <3>1, <3>3 DEF last, l
    <3>4. CASE i # last
      <4>1. i - sh \in 1..l
        <5>1. ~(sh = 1 /\ i = 1)
          BY <1>6, <1>11, <3>1
        <5> QED BY <1>7, <3>2, <3>4, <5>1 DEF last
      <4>2. r[(i - sh) + sh] = b[i - sh] /\ (i - sh) + sh = i
        BY <1>6, <1>7, <3>2, <4>1 DEF l
      <4>3. Body(n)'[i] = Body(n)[i - sh] /\ i - sh \in DOMAIN Body(n)
        BY <1>7, <3>1, <4>1, <4>2
      <4> QED BY <2>2, <4>3
    <3> QED BY <3>3, <3>4
  <2> QED BY <2>1, <2>2
<1>12. ASSUME NEW n \in Numbers, NEW i \in DOMAIN Body(n)
       PROVE  \E j \in DOMAIN Body(n)' : Body(n)'[j] = Body(n)[i]
  <2>1. CASE n # k
    BY <1>10, <2>1
  <2>2. CASE n = k
    <3>1. Body(n)' = r /\ Body(n) = b
      BY <1>0, <1>10, <2>2
    <3>2. i \in 1..l
      BY <1>7, <3>1
    <3>3. i + sh \in 1..last /\ r[i + sh] = b[i]
      BY <1>6, <1>7, <3>2, SMTT(30) DEF l, last
    <3> QED BY <1>6, <3>1, <3>3 DEF l, last
  <2> QED BY <2>1, <2>2
<1>13. last \in DOMAIN Body(k)' /\ Body(k)'[last] = e
  <2>1. last \in DOMAIN r /\ r[last] = e
    <3> l = Len(b) /\ last = l + sh + 1
      BY DEF last, l
    <3> HIDE DEF last, l
    <3> QED BY <1>6, <1>7
  <2>2. Body(k)' = r
    BY <1>5, <1>10
  <2> QED BY <2>1, <2>2
<1>14. \A n \in Numbers : \A i \in DOMAIN Body(n) : Body(n)[i] # e
  BY <1>8 DEF MemoryInv, EntriesKept
<1>15. ASSUME NEW n \in Numbers, NEW i \in DOMAIN Body(n)', Body(n)'[i] = e
       PROVE  n = k /\ i = last
  BY <1>8, <1>11, <1>14, <1>15
<1>16. ASSUME NEW x \in ToSet(log') \ gone'
       PROVE  \E n \in Numbers : \E i \in DOMAIN Body(n)' : Body(n)'[i] = x
  <2>1. CASE x = e
    BY <1>5, <1>13, <2>1
  <2>2. CASE x # e
    <3>1. x \in ToSet(log) \ gone
      BY <1>2, <1>9, <2>2
    <3>2. PICK n \in Numbers : \E i \in DOMAIN Body(n) : Body(n)[i] = x
      BY <3>1 DEF MemoryInv, EntriesKept, ToSet
    <3> QED BY <1>12, <3>2
  <2> QED BY <2>1, <2>2
<1>17. ASSUME NEW n \in Numbers, NEW i \in DOMAIN Body(n)', Body(n)'[i] # Litter
       PROVE  Body(n)'[i] \in ToSet(log') \ gone'
  <2>1. CASE n = k /\ i = last /\ Body(n)'[i] = e
    BY <1>2, <1>8, <1>9, <2>1
  <2>2. CASE Stood(n, i) \in DOMAIN Body(n) /\ Body(n)'[i] = Body(n)[Stood(n, i)]
    <3> HIDE DEF Stood
    <3>1. Body(n)'[i] \in ToSet(log) \ gone
      BY <1>17, <2>2 DEF MemoryInv, EntriesKept
    <3> QED BY <1>2, <1>9, <3>1
  <2> HIDE DEF Stood
  <2> QED BY <1>11, <1>17, <2>1, <2>2
<1>18. ASSUME NEW n \in Numbers, NEW i \in DOMAIN Body(n)', Body(n)'[i] # Litter,
              NEW m \in Numbers, NEW j \in DOMAIN Body(m)', Body(m)'[j] = Body(n)'[i]
       PROVE  m = n /\ j = i
  <2>1. CASE Body(n)'[i] = e
    BY <1>15, <1>18, <2>1
  <2>2. CASE Body(n)'[i] # e
    <3>1. Stood(n, i) \in DOMAIN Body(n) /\ Body(n)'[i] = Body(n)[Stood(n, i)]
      BY <1>11, <1>18, <2>2
    <3>2. Stood(m, j) \in DOMAIN Body(m) /\ Body(m)'[j] = Body(m)[Stood(m, j)]
      BY <1>11, <1>18, <2>2
    <3>3. m = n /\ Stood(m, j) = Stood(n, i)
      <4> HIDE DEF Stood
      <4>1. \A x \in DOMAIN Body(n) : \A y \in DOMAIN Body(m) :
              Body(n)[x] # Litter /\ Body(m)[y] = Body(n)[x] => m = n /\ y = x
        BY DEF MemoryInv, EntriesKept
      <4>2. Body(n)[Stood(n, i)] # Litter /\ Body(m)[Stood(m, j)] = Body(n)[Stood(n, i)]
        BY <1>18, <3>1, <3>2
      <4> QED BY <3>1, <3>2, <4>1, <4>2
    <3>4. i \in Nat /\ j \in Nat
      <4>1. \A v \in Numbers : Body(v)' \in Seq(Recorded)
        BY <1>6, <1>10, MemoryTypedFacts DEF MemoryInv
      <4>2. \A v \in Numbers : DOMAIN Body(v)' \subseteq Nat
        <5> SUFFICES ASSUME NEW v \in Numbers PROVE DOMAIN Body(v)' \subseteq Nat
          OBVIOUS
        <5>1. DOMAIN Body(v)' = 1..Len(Body(v)')
          BY <4>1, LenProperties
        <5> QED BY <5>1
      <4> QED BY <4>2
    <3>5. i = j
      BY <1>7, <3>3, <3>4
    <3> QED BY <3>3, <3>5
  <2> QED BY <2>1, <2>2
<1>19. ASSUME removals = 0, NEW n \in DayFiles PROVE n <= k
  <2>1. DayFiles # {} /\ n \in Numbers /\ n \in Nat
    BY NumbersFinite
  <2>2. n <= LastOf(DayFiles) /\ LastOf(DayFiles) \in DayFiles
    BY <2>1, NumbersFinite, LastThere
  <2>3. PICK c \in Nat : DayFiles = 1..c
    BY <1>19 DEF MemoryInv, Filed
  <2>4. Cardinality(DayFiles) = c
    BY <2>1, <2>3, FS_Interval
  <2>5. n <= Cardinality(DayFiles) + 1
    BY <2>1, <2>3, <2>4
  <2>6. k = Cardinality(DayFiles) + 1 \/ k = LastOf(DayFiles)
    BY <1>4, <2>1 DEF SelectFile
  <2> QED BY <2>2, <2>5, <2>6
<1>20. ASSUME removals = 0, NEW n \in Numbers, NEW i \in DOMAIN Body(n)'
       PROVE  n < k \/ (n = k /\ i <= last)
  <2>1. n \in Nat /\ k \in Nat
    BY <1>5, NumbersFinite
  <2>2. CASE n = k
    <3>1. i \in 1..last
      BY <1>0, <1>5, <1>6, <1>10, <2>2 DEF last, l
    <3> QED BY <1>7, <2>2, <3>1
  <2>3. CASE n # k
    <3>1. Body(n)' = Body(n) /\ i \in DOMAIN Body(n)
      BY <1>10, <2>3
    <3>2. Body(n) # <<>>
      BY <3>1
    <3>3. n \in DayFiles
      BY <3>2, MemoryTypedFacts DEF MemoryInv, MemoryTyped, DayFiles
    <3> QED BY <1>19, <1>20, <2>1, <2>3, <3>3
  <2> QED BY <2>2, <2>3
<1>21. ASSUME removals = 0, NEW x \in DOMAIN log', NEW y \in DOMAIN log', x < y,
              NEW n \in Numbers, NEW m \in Numbers,
              NEW i \in DOMAIN Body(n)', NEW j \in DOMAIN Body(m)',
              log'[x] = Body(n)'[i], log'[y] = Body(m)'[j]
       PROVE  n < m \/ (n = m /\ i < j)
  <2>1. x \in 1..Len(log) /\ log'[x] = log[x] /\ log[x] \in ToSet(log)
    <3>1. x \in 1..Len(log)
      BY <1>9, <1>21
    <3> QED BY <1>9, <3>1 DEF ToSet
  <2>2. log[x] # e /\ log[x] # Litter
    BY <1>5, <1>8, <2>1, LitterIsNoEntry DEF ToSet
  <2>3. i \in Nat /\ j \in Nat /\ n \in Nat /\ m \in Nat
    <3>1. \A v \in Numbers : Body(v)' \in Seq(Recorded)
      BY <1>6, <1>10, MemoryTypedFacts DEF MemoryInv
    <3>2. DOMAIN Body(n)' = 1..Len(Body(n)') /\ DOMAIN Body(m)' = 1..Len(Body(m)')
      BY <3>1, LenProperties
    <3> QED BY <3>2, NumbersFinite
  <2>4. CASE y = Len(log) + 1
    <3>1. m = k /\ j = last
      BY <1>9, <1>15, <1>21, <2>4
    <3>2. ~(n = k /\ i = last)
      BY <1>13, <1>21, <2>1, <2>2
    <3>3. n < k \/ (n = k /\ i <= last)
      BY <1>20, <1>21
    <3> QED BY <1>7, <2>3, <3>1, <3>2, <3>3
  <2>5. CASE y # Len(log) + 1
    <3>1. y \in 1..Len(log) /\ log'[y] = log[y] /\ log[y] \in ToSet(log)
      <4>1. y \in 1..Len(log)
        BY <1>9, <2>5
      <4> QED BY <1>9, <4>1 DEF ToSet
    <3>2. log[y] # e /\ log[y] # Litter
      BY <1>5, <1>8, <3>1, LitterIsNoEntry DEF ToSet
    <3>3. Stood(n, i) \in DOMAIN Body(n) /\ log[x] = Body(n)[Stood(n, i)]
      BY <1>11, <1>21, <2>1, <2>2
    <3>4. Stood(m, j) \in DOMAIN Body(m) /\ log[y] = Body(m)[Stood(m, j)]
      BY <1>11, <1>21, <3>1, <3>2
    <3>5. n < m \/ (n = m /\ Stood(n, i) < Stood(m, j))
      <4> HIDE DEF Stood
      <4>1. \A c, d \in DOMAIN log : \A f \in DOMAIN Body(n) : \A g \in DOMAIN Body(m) :
              log[c] = Body(n)[f] /\ log[d] = Body(m)[g] /\ c < d => n < m \/ (n = m /\ f < g)
        BY <1>21 DEF MemoryInv, EntriesKept
      <4> QED BY <1>9, <1>21, <2>1, <3>1, <3>3, <3>4, <4>1
    <3> QED BY <1>7, <2>3, <3>5
  <2> QED BY <2>4, <2>5
<1>22. EntriesKept'
  <2>1. \A x \in ToSet(log') \ gone' : \E n \in Numbers : x \in ToSet(Body(n))'
    BY <1>16 DEF ToSet
  <2>2. \A n \in Numbers : \A i \in DOMAIN Body(n)' : Body(n)'[i] # Litter =>
          /\ Body(n)'[i] \in ToSet(log') \ gone'
          /\ \A m \in Numbers : \A j \in DOMAIN Body(m)' :
               Body(m)'[j] = Body(n)'[i] => m = n /\ j = i
    BY <1>17, <1>18
  <2>3. removals' = 0 =>
          \A x, y \in DOMAIN log' : \A n, m \in Numbers :
            \A i \in DOMAIN Body(n)' : \A j \in DOMAIN Body(m)' :
              log'[x] = Body(n)'[i] /\ log'[y] = Body(m)'[j] /\ x < y => n < m \/ (n = m /\ i < j)
    <3>1. removals' = removals
      BY <1>2
    <3> QED BY <1>21, <3>1
  <2> QED BY <2>1, <2>2, <2>3 DEF EntriesKept
<1>23. DayFiles' = DayFiles \cup {k}
  BY <1>1, <1>5 DEF DayFiles, MemoryInv, MemoryTyped
<1>24. Filed'
  <2>1. ASSUME NEW u \in Turns
        PROVE  /\ next'[u] \in Roles => <<u, next'[u]>> \notin ToSet(log')
               /\ next'[u] = "user" => <<u, "assistant">> \notin ToSet(log')
    <3>1. CASE u = t
      <4>1. next'[t] = (IF next[t] = "user" THEN "assistant" ELSE "done")
        BY <1>2 DEF MemoryInv, MemoryTyped
      <4>2. CASE next[t] = "user"
        <5>1. next'[t] = "assistant" /\ <<t, "assistant">> \notin ToSet(log)
          BY <4>1, <4>2 DEF MemoryInv, Filed
        <5>2. <<t, "assistant">> # e
          BY <1>0, <4>2
        <5> QED BY <1>9, <3>1, <5>1, <5>2
      <4>3. CASE next[t] # "user"
        BY <3>1, <4>1, <4>3 DEF Roles
      <4> QED BY <4>2, <4>3
    <3>2. CASE u # t
      <4>1. next'[u] = next[u]
        BY <1>2, <3>2 DEF MemoryInv, MemoryTyped
      <4>2. \A v : <<u, v>> # e
        BY <1>0, <3>2
      <4> QED BY <1>9, <4>1, <4>2 DEF MemoryInv, Filed
    <3> QED BY <3>1, <3>2
  <2>2. gone' \subseteq ToSet(log') \cup {Litter}
    BY <1>2, <1>9 DEF MemoryInv, Filed
  <2>3. ASSUME NEW n \in DayFiles' PROVE \E i \in DOMAIN Body(n)' : Body(n)'[i] # Litter
    <3>1. CASE n = k
      BY <1>8, <1>13, <3>1
    <3>2. CASE n # k
      <4>1. n \in DayFiles /\ n \in Numbers
        BY <1>23, <3>2, NumbersFinite
      <4>2. Body(n)' = Body(n)
        BY <1>10, <3>2, <4>1
      <4> QED BY <4>1, <4>2 DEF MemoryInv, Filed
    <3> QED BY <3>1, <3>2
  <2>4. ASSUME removals' = 0 PROVE \E c \in Nat : DayFiles' = 1..c
    <3>1. PICK c \in Nat : DayFiles = 1..c
      BY <1>2, <2>4 DEF MemoryInv, Filed
    <3>2. Cardinality(DayFiles) = c
      BY <3>1, FS_Interval
    <3>3. CASE k \in DayFiles
      BY <1>23, <3>1, <3>3
    <3>4. CASE k \notin DayFiles
      <4>1. k = c + 1
        <5>1. DayFiles # {} => LastOf(DayFiles) \in DayFiles
          BY NumbersFinite, LastThere
        <5>2. DayFiles = {} => k = 1 /\ c = 0
          BY <1>4, <3>1, <3>2, FS_EmptySet DEF SelectFile
        <5> QED BY <1>4, <3>2, <3>4, <5>1, <5>2 DEF SelectFile
      <4>2. DayFiles' = 1..(c + 1)
        BY <1>23, <3>1, <4>1
      <4> QED BY <4>2
    <3> QED BY <3>3, <3>4
  <2> QED BY <2>1, <2>2, <2>3, <2>4 DEF Filed
<1>25. MemoryTyped'
  <2>1. conversations' \in [Numbers -> [body : Seq(Recorded), dashed : BOOLEAN, there : BOOLEAN]]
    BY <1>1, <1>5, <1>6 DEF MemoryInv, MemoryTyped
  <2>2. \A n \in Numbers : ~conversations'[n].there => Body(n)' = <<>>
    <3> SUFFICES ASSUME NEW n \in Numbers, ~conversations'[n].there PROVE Body(n)' = <<>>
      OBVIOUS
    <3>1. n # k
      BY <1>1, <1>5 DEF MemoryInv, MemoryTyped
    <3>2. conversations'[n] = conversations[n]
      BY <1>1, <3>1 DEF MemoryInv, MemoryTyped
    <3> QED BY <3>2 DEF Body, MemoryInv, MemoryTyped
  <2>3. next' \in [Turns \cup Runs -> Roles \cup {"done", "failed"}]
    BY <1>2 DEF MemoryInv, MemoryTyped, Roles
  <2>4. /\ holder' \in Turns \cup Runs \cup {NoWriter} /\ target' \in [Turns \cup Runs -> Nat]
        /\ draft' \in [Turns -> Seq(Recorded)]
    BY <1>2, LeavesLockTyped DEF MemoryInv
  <2>5. jobRuns' \in [Numbers -> Runs \cup {NoWriter}] /\ removals' \in Nat
    BY <1>2 DEF MemoryInv, MemoryTyped
  <2> QED BY <1>9, <2>1, <2>2, <2>3, <2>4, <2>5 DEF MemoryTyped
<1> QED
  BY <1>3, <1>22, <1>24, <1>25 DEF MemoryInv

\* The other steps leave what is filed as it is.
LEMMA StartRunKeeps ==
  ASSUME MemoryInv, NEW r \in Runs, StartRun(r)
  PROVE  MemoryInv'
<1>1. /\ holder = NoWriter /\ holder' = r /\ target' = [target EXCEPT ![r] = SelectRunFile]
      /\ UNCHANGED <<conversations, jobRuns, draft, next, log, gone, removals>>
  BY DEF StartRun, Writing
<1>2. SelectRunFile \in Nat /\ SelectRunFile' = SelectRunFile
  BY <1>1, NumbersFinite DEF SelectRunFile, RunFiles
<1>3. MemoryTyped'
  BY <1>1, <1>2 DEF MemoryInv, MemoryTyped, Body
<1>4. \A w \in Turns \cup Runs : target[w] = 0
  BY <1>1, MemoryAssumption DEF MemoryInv, Chosen
<1>5. \A t \in Turns : holder' # t
  BY <1>1, MemoryAssumption
<1>6. \A w \in Turns \cup Runs : target'[w] # 0 => holder' = w
  BY <1>1, <1>4 DEF MemoryInv, MemoryTyped
<1>7. target'[r] = SelectRunFile'
  BY <1>1, <1>2 DEF MemoryInv, MemoryTyped
<1>8. Chosen'
  BY <1>1, <1>5, <1>6, <1>7 DEF Chosen
<1>9. Filed' /\ EntriesKept'
  BY <1>1, FilesKept DEF MemoryInv, MemoryTyped
<1> QED
  BY <1>3, <1>8, <1>9 DEF MemoryInv

\* A run that writes has the lock, and the number after the count.
LEMMA RunFileFits ==
  ASSUME MemoryInv, NEW r \in Runs, target[r] # 0
  PROVE  holder = r /\ target[r] = Cardinality(RunFiles) + 1
BY DEF MemoryInv, Chosen, SelectRunFile

\* A run's document is none of the day's conversation.
LEMMA RunWrittenKeeps ==
  ASSUME MemoryInv, NEW r \in Runs, RunWritten(r)
  PROVE  MemoryInv'
<1>1. /\ target[r] # 0 /\ jobRuns' = [jobRuns EXCEPT ![target[r]] = r]
      /\ next' = [next EXCEPT ![r] = "done"] /\ LeavesLock({r})
      /\ UNCHANGED <<conversations, log, gone, removals>>
  BY DEF RunWritten
<1>2. Chosen'
  BY <1>1, WriterLeaves
<1>3. next' \in [Turns \cup Runs -> Roles \cup {"done", "failed"}]
  BY <1>1 DEF MemoryInv, MemoryTyped
<1>4. \A t \in Turns : next'[t] = next[t]
  BY <1>1, MemoryAssumption DEF MemoryInv, MemoryTyped
<1>5. Filed' /\ EntriesKept'
  BY <1>1, <1>3, <1>4, FilesKept
<1>6. /\ holder' \in Turns \cup Runs \cup {NoWriter} /\ target' \in [Turns \cup Runs -> Nat]
      /\ draft' \in [Turns -> Seq(Recorded)]
  BY <1>1, LeavesLockTyped DEF MemoryInv
<1>7. jobRuns' \in [Numbers -> Runs \cup {NoWriter}]
  BY <1>1 DEF MemoryInv, MemoryTyped
<1>8. MemoryTyped'
  BY <1>1, <1>3, <1>6, <1>7 DEF MemoryInv, MemoryTyped, Body
<1> QED
  BY <1>2, <1>5, <1>8 DEF MemoryInv

\* A write that fails leaves the files.
LEMMA WriteFailsKeeps ==
  ASSUME MemoryInv, NEW w \in Turns \cup Runs, WriteFails(w)
  PROVE  MemoryInv'
<1>1. /\ target[w] # 0 /\ next' = [next EXCEPT ![w] = "failed"] /\ LeavesLock({w})
      /\ UNCHANGED <<conversations, jobRuns, log, gone, removals>>
  BY DEF WriteFails
<1>2. Chosen'
  BY <1>1, WriterLeaves
<1>3. next' \in [Turns \cup Runs -> Roles \cup {"done", "failed"}]
  BY <1>1 DEF MemoryInv, MemoryTyped
<1>4. \A t \in Turns : next'[t] \in Roles => next'[t] = next[t]
  BY <1>1 DEF MemoryInv, MemoryTyped, Roles
<1>5. Filed' /\ EntriesKept'
  BY <1>1, <1>3, <1>4, FilesKept
<1>6. /\ holder' \in Turns \cup Runs \cup {NoWriter} /\ target' \in [Turns \cup Runs -> Nat]
      /\ draft' \in [Turns -> Seq(Recorded)]
  BY <1>1, LeavesLockTyped DEF MemoryInv
<1>7. MemoryTyped'
  BY <1>1, <1>3, <1>6 DEF MemoryInv, MemoryTyped, Body
<1> QED
  BY <1>2, <1>5, <1>7 DEF MemoryInv

\* A crash leaves the files, and nobody with the lock.
LEMMA WriterDiesKeeps ==
  ASSUME MemoryInv, WriterDies
  PROVE  MemoryInv'
<1>1. PICK W \in SUBSET {w \in Turns \cup Runs : next[w] \in Roles} :
        /\ {w \in Turns \cup Runs : target[w] # 0 \/ next[w] = "assistant"} \subseteq W
        /\ next' = [w \in Turns \cup Runs |-> IF w \in W THEN "failed" ELSE next[w]]
        /\ LeavesLock(W)
        /\ UNCHANGED <<conversations, jobRuns, log, gone, removals>>
  BY DEF WriterDies
<1>2. target' = [w \in Turns \cup Runs |-> 0]
  BY <1>1 DEF LeavesLock, MemoryInv, MemoryTyped
<1>3. \A w \in Turns \cup Runs : holder' # w
  <2>1. \A w \in Turns \cup Runs : holder = w => target[w] # 0
    <3>1. SelectRunFile # 0
      BY NumbersFinite DEF SelectRunFile
    <3>2. \A t \in Turns : next[t] \in Roles => SelectFile # 0
      <4> SUFFICES ASSUME NEW t \in Turns, next[t] \in Roles PROVE SelectFile # 0
        OBVIOUS
      <4>1. SelectFile \in Numbers
        BY SelectFileTyped DEF MemoryInv
      <4> QED BY <4>1, NumbersFinite
    <3> QED BY <3>1, <3>2 DEF MemoryInv, Chosen
  <2>2. \A w \in Turns \cup Runs : holder = w => w \in W
    BY <1>1, <2>1
  <2> QED BY <1>1, <2>2, MemoryAssumption DEF LeavesLock
<1>4. Chosen'
  BY <1>2, <1>3 DEF Chosen
<1>5. next' \in [Turns \cup Runs -> Roles \cup {"done", "failed"}]
  BY <1>1 DEF MemoryInv, MemoryTyped
<1>6. \A t \in Turns : next'[t] \in Roles => next'[t] = next[t]
  BY <1>1 DEF MemoryInv, MemoryTyped, Roles
<1>7. Filed' /\ EntriesKept'
  BY <1>1, <1>5, <1>6, FilesKept
<1>8. /\ holder' \in Turns \cup Runs \cup {NoWriter} /\ target' \in [Turns \cup Runs -> Nat]
      /\ draft' \in [Turns -> Seq(Recorded)]
  BY <1>1, LeavesLockTyped DEF MemoryInv
<1>9. MemoryTyped'
  BY <1>1, <1>5, <1>8 DEF MemoryInv, MemoryTyped, Body
<1> QED
  BY <1>4, <1>7, <1>9 DEF MemoryInv

\* Nobody writes without the lock.
LEMMA LockFree ==
  ASSUME MemoryInv, holder = NoWriter
  PROVE  \A w \in Turns \cup Runs : holder # w /\ target[w] = 0
BY MemoryAssumption DEF MemoryInv, Chosen

\* A file that is removed takes its entries with it, and no other: none is in two.
LEMMA RemoveFileKeeps ==
  ASSUME MemoryInv, NEW k \in Numbers, RemoveFile(k)
  PROVE  MemoryInv'
<1>1. /\ holder = NoWriter /\ conversations' = [conversations EXCEPT ![k] = Absent]
      /\ gone' = gone \cup ToSet(Body(k)) /\ removals' = removals + 1
      /\ UNCHANGED <<jobRuns, holder, target, draft, next, log>>
  BY DEF RemoveFile, Writing, Body
<1>2. \A n \in Numbers : conversations'[n] = IF n = k THEN Absent ELSE conversations[n]
  BY <1>1 DEF MemoryInv, MemoryTyped
<1>3. \A n \in Numbers : Body(n)' = IF n = k THEN <<>> ELSE Body(n)
  BY <1>2 DEF Body, Absent
<1>4. removals' \in Nat /\ removals' # 0
  BY <1>1 DEF MemoryInv, MemoryTyped
<1>5. MemoryTyped'
  <2>1. Absent \in [body : Seq(Recorded), dashed : BOOLEAN, there : BOOLEAN]
    BY DEF Absent
  <2>2. conversations' \in [Numbers -> [body : Seq(Recorded), dashed : BOOLEAN, there : BOOLEAN]]
    <3> DEFINE D == [body : Seq(Recorded), dashed : BOOLEAN, there : BOOLEAN]
    <3> HIDE DEF D
    <3>1. conversations \in [Numbers -> D] /\ Absent \in D
      BY <2>1 DEF MemoryInv, MemoryTyped, D
    <3>2. conversations' \in [Numbers -> D]
      BY <1>1, <3>1
    <3> QED BY <3>2 DEF D
  <2>3. \A n \in Numbers : ~conversations'[n].there => Body(n)' = <<>>
    <3> SUFFICES ASSUME NEW n \in Numbers, n # k, ~conversations'[n].there PROVE Body(n)' = <<>>
      BY <1>3
    <3>1. conversations'[n] = conversations[n] /\ Body(n)' = Body(n)
      BY <1>2, <1>3
    <3> QED BY <3>1 DEF MemoryInv, MemoryTyped
  <2> QED BY <1>1, <1>4, <2>2, <2>3 DEF MemoryInv, MemoryTyped
<1>6. Chosen'
  BY <1>1, LockFree DEF Chosen
<1>7. Filed'
  <2>1. DayFiles' = DayFiles \ {k}
    BY <1>2 DEF DayFiles, Absent
  <2>2. ToSet(Body(k)) \subseteq ToSet(log) \cup {Litter}
    BY DEF MemoryInv, EntriesKept, ToSet
  <2>3. gone' \subseteq ToSet(log') \cup {Litter}
    BY <1>1, <2>2 DEF MemoryInv, Filed
  <2>4. \A n \in DayFiles' : \E i \in DOMAIN Body(n)' : Body(n)'[i] # Litter
    <3> SUFFICES ASSUME NEW n \in DayFiles' PROVE \E i \in DOMAIN Body(n)' : Body(n)'[i] # Litter
      OBVIOUS
    <3>1. n \in DayFiles /\ n # k /\ n \in Numbers
      BY <2>1, NumbersFinite
    <3>2. Body(n)' = Body(n)
      BY <1>3, <3>1
    <3> QED BY <3>1, <3>2 DEF MemoryInv, Filed
  <2>5. \A t \in Turns :
          /\ next'[t] \in Roles => <<t, next'[t]>> \notin ToSet(log')
          /\ next'[t] = "user" => <<t, "assistant">> \notin ToSet(log')
    BY <1>1 DEF MemoryInv, Filed
  <2> QED BY <1>4, <2>3, <2>4, <2>5 DEF Filed
<1>8. EntriesKept'
  <2>1. ASSUME NEW x \in ToSet(log') \ gone' PROVE \E n \in Numbers : x \in ToSet(Body(n))'
    <3>1. x \in ToSet(log) \ gone /\ x \notin ToSet(Body(k))
      BY <1>1
    <3>2. PICK n \in Numbers : x \in ToSet(Body(n))
      BY <3>1 DEF MemoryInv, EntriesKept
    <3>3. n # k
      BY <3>1, <3>2
    <3>4. Body(n)' = Body(n)
      BY <1>3, <3>3
    <3> QED BY <3>2, <3>4 DEF ToSet
  <2>2. ASSUME NEW n \in Numbers, NEW i \in DOMAIN Body(n)', Body(n)'[i] # Litter
        PROVE  /\ Body(n)'[i] \in ToSet(log') \ gone'
               /\ \A m \in Numbers : \A j \in DOMAIN Body(m)' :
                    Body(m)'[j] = Body(n)'[i] => m = n /\ j = i
    <3>1. n # k /\ Body(n)' = Body(n) /\ i \in DOMAIN Body(n)
      BY <1>3, <2>2
    <3>2. \A m \in Numbers : \A j \in DOMAIN Body(m) : Body(m)[j] = Body(n)[i] => m = n /\ j = i
      BY <2>2, <3>1 DEF MemoryInv, EntriesKept
    <3>3. Body(n)[i] \notin ToSet(Body(k))
      BY <3>1, <3>2 DEF ToSet
    <3>4. Body(n)[i] \in ToSet(log) \ gone
      BY <2>2, <3>1 DEF MemoryInv, EntriesKept
    <3>5. \A m \in Numbers : \A j \in DOMAIN Body(m)' :
            j \in DOMAIN Body(m) /\ Body(m)'[j] = Body(m)[j]
      BY <1>3
    <3> QED BY <1>1, <3>1, <3>2, <3>3, <3>4, <3>5
  <2> QED BY <1>4, <2>1, <2>2 DEF EntriesKept
<1> QED
  BY <1>5, <1>6, <1>7, <1>8 DEF MemoryInv

\* A run's document that is removed is none of the day's conversation.
LEMMA RemoveRunKeeps ==
  ASSUME MemoryInv, NEW k \in Numbers, RemoveRun(k)
  PROVE  MemoryInv'
<1>1. /\ holder = NoWriter /\ jobRuns' = [jobRuns EXCEPT ![k] = NoWriter] /\ removals' = removals + 1
      /\ UNCHANGED <<conversations, holder, target, draft, next, log, gone>>
  BY DEF RemoveRun, Writing
<1>2. removals' \in Nat /\ removals' # 0
  BY <1>1 DEF MemoryInv, MemoryTyped
<1>3. MemoryTyped'
  BY <1>1, <1>2 DEF MemoryInv, MemoryTyped, Body
<1>4. Chosen'
  BY <1>1, LockFree DEF Chosen
<1>5. DayFiles' = DayFiles /\ \A n : Body(n)' = Body(n)
  BY <1>1 DEF DayFiles, Body
<1>6. Filed'
  BY <1>1, <1>2, <1>5 DEF MemoryInv, Filed
<1>7. EntriesKept'
  BY <1>1, <1>2, <1>5 DEF MemoryInv, EntriesKept
<1> QED
  BY <1>3, <1>4, <1>6, <1>7 DEF MemoryInv

\* The invariant holds at first.
LEMMA MemoryStarts ==
  MemoryInit => MemoryInv
<1> SUFFICES ASSUME MemoryInit PROVE MemoryInv
  OBVIOUS
<1>1. \A n \in Numbers : Body(n) = <<>> /\ ~conversations[n].there
  BY DEF MemoryInit, Body, Absent
<1>2. DayFiles = {}
  BY <1>1 DEF DayFiles
<1>3. log = <<>> /\ ToSet(log) = {} /\ gone = {} /\ removals = 0
  BY DEF MemoryInit, ToSet
<1>4. MemoryTyped
  <2>1. Absent \in [body : Seq(Recorded), dashed : BOOLEAN, there : BOOLEAN] /\ <<>> \in Seq(Recorded) /\ <<>> \in Seq(Entry)
    BY DEF Absent
  <2>2. conversations \in [Numbers -> [body : Seq(Recorded), dashed : BOOLEAN, there : BOOLEAN]]
    BY <2>1 DEF MemoryInit
  <2> QED BY <1>1, <1>3, <2>1, <2>2 DEF MemoryInit, MemoryTyped, Roles
<1>5. Chosen
  BY MemoryAssumption DEF MemoryInit, Chosen
<1>6. Filed
  <2>1. \E k \in Nat : DayFiles = 1..k
    BY <1>2
  <2> QED BY <1>2, <1>3, <2>1 DEF Filed
<1>7. EntriesKept
  BY <1>1, <1>3 DEF EntriesKept
<1> QED
  BY <1>4, <1>5, <1>6, <1>7 DEF MemoryInv

\* It is inductive.
LEMMA MemoryStep ==
  MemoryInv /\ [MemoryNext]_memoryVars => MemoryInv'
<1> SUFFICES ASSUME MemoryInv, [MemoryNext]_memoryVars PROVE MemoryInv'
  OBVIOUS
<1>1. ASSUME NEW t \in Turns, StartAppend(t) \/ Appended(t) PROVE MemoryInv'
  BY <1>1, StartAppendKeeps, AppendedKeeps
<1>2. ASSUME NEW r \in Runs, StartRun(r) \/ RunWritten(r) PROVE MemoryInv'
  BY <1>2, StartRunKeeps, RunWrittenKeeps
<1>3. ASSUME NEW w \in Turns \cup Runs, WriteFails(w) PROVE MemoryInv'
  BY <1>3, WriteFailsKeeps
<1>4. CASE WriterDies
  BY <1>4, WriterDiesKeeps
<1>5. ASSUME NEW n \in Numbers, RemoveFile(n) \/ RemoveRun(n) PROVE MemoryInv'
  BY <1>5, RemoveFileKeeps, RemoveRunKeeps
<1>6. CASE UNCHANGED memoryVars
  <2>1. DayFiles' = DayFiles /\ (\A n : Body(n)' = Body(n)) /\ SelectFile' = SelectFile
        /\ SelectRunFile' = SelectRunFile
    BY <1>6 DEF memoryVars, DayFiles, Body, SelectFile, SelectRunFile, RunFiles
  <2>2. MemoryTyped'
    BY <1>6, <2>1 DEF MemoryInv, MemoryTyped, memoryVars
  <2>3. Chosen'
    BY <1>6, <2>1 DEF MemoryInv, Chosen, memoryVars
  <2>4. Filed'
    BY <1>6, <2>1 DEF MemoryInv, Filed, memoryVars
  <2>5. EntriesKept'
    BY <1>6, <2>1 DEF MemoryInv, EntriesKept, memoryVars
  <2> QED BY <2>2, <2>3, <2>4, <2>5 DEF MemoryInv
<1> QED
  BY <1>1, <1>2, <1>3, <1>4, <1>5, <1>6 DEF MemoryNext

\* What append_message has returned for stays in the files, once, for any number
\* of turns, runs, failed writes and crashes: _append_message reads and writes the
\* file under the lock, and split_frontmatter leaves the body's entries alone.
THEOREM EntriesStay ==
  MemoryInit /\ [][MemoryNext]_memoryVars => []EntriesKept
<1>1. MemoryInv => EntriesKept
  BY DEF MemoryInv
<1> QED
  BY <1>1, MemoryStarts, MemoryStep, PTL

\* A set of numbers without a gap does not have the number that follows its size.
LEMMA NextIsFree ==
  ASSUME NEW S, IsFiniteSet(S), NoGap(S)
  PROVE  Cardinality(S) + 1 \notin S
<1>1. Cardinality(S) \in Nat
  BY FS_CardinalityType
<1> QED
  BY <1>1 DEF NoGap

\* Who writes a conversation file writes the one _select_file chose, which has
\* room, unless it is a new one.
LEMMA SplitStep ==
  ASSUME MemoryInv, [MemoryNext]_memoryVars, NEW n \in Numbers,
         NoGap(DayFiles), conversations'[n].there, Len(conversations'[n].body) > Len(conversations[n].body)
  PROVE  Len(conversations[n].body) < LineLimit
<1>1. conversations'[n] # conversations[n]
  <2> SUFFICES ASSUME conversations'[n] = conversations[n] PROVE FALSE
    OBVIOUS
  <2>1. Len(conversations[n].body) \in Nat
    BY MemoryTypedFacts DEF MemoryInv, Body
  <2> QED BY <2>1
<1>2. (\E t \in Turns : Appended(t)) \/ \E m \in Numbers : RemoveFile(m)
  BY <1>1 DEF MemoryNext, memoryVars, StartAppend, StartRun, RunWritten, WriteFails, WriterDies, RemoveRun
<1>3. CASE \E m \in Numbers : RemoveFile(m)
  <2>1. PICK m \in Numbers : conversations' = [conversations EXCEPT ![m] = Absent]
    BY <1>3 DEF RemoveFile
  <2>2. n = m
    BY <1>1, <2>1 DEF MemoryInv, MemoryTyped
  <2>3. conversations'[n] = Absent
    BY <2>1, <2>2 DEF MemoryInv, MemoryTyped
  <2> QED BY <2>3 DEF Absent
<1>4. CASE \E t \in Turns : Appended(t)
  <2>1. PICK t \in Turns, dashed \in BOOLEAN :
          /\ target[t] # 0
          /\ conversations' = [conversations EXCEPT ![target[t]] =
                                 [body |-> draft[t], dashed |-> dashed, there |-> TRUE]]
    BY <1>4 DEF Appended
  <2>2. n = SelectFile
    BY <1>1, <2>1 DEF MemoryInv, MemoryTyped, Chosen
  <2>3. LineLimit \in Nat \ {0} /\ Len(Body(n)) \in Nat
    BY MemoryAssumption, MemoryTypedFacts DEF MemoryInv
  <2>4. CASE n \in DayFiles
    <3>1. n # Cardinality(DayFiles) + 1
      BY <2>4, NextIsFree, NumbersFinite
    <3>2. ~(Len(Body(n)) >= LineLimit)
      BY <2>2, <2>4, <3>1 DEF SelectFile, Body
    <3> QED BY <2>3, <3>2 DEF Body
  <2>5. CASE n \notin DayFiles
    <3>1. Body(n) = <<>>
      BY <2>5 DEF DayFiles, MemoryInv, MemoryTyped
    <3> QED BY <2>3, <3>1 DEF Body
  <2> QED BY <2>4, <2>5
<1> QED
  BY <1>2, <1>3, <1>4

\* A conversation file that is full takes no entry, unless a file before it was
\* removed: append_message splits the day at line_limit.
THEOREM FullFilesAreLeft ==
  MemoryInit /\ [][MemoryNext]_memoryVars => FilesSplit
<1>1. MemoryInv /\ [MemoryNext]_memoryVars =>
        [\A n \in Numbers :
           /\ NoGap(DayFiles) /\ conversations'[n].there
           /\ Len(conversations'[n].body) > Len(conversations[n].body)
           => Len(conversations[n].body) < LineLimit]_memoryVars
  BY SplitStep
<1> QED
  BY <1>1, MemoryStarts, MemoryStep, PTL DEF FilesSplit

\* A run's document is written where none is.
LEMMA RunStep ==
  ASSUME MemoryInv, [MemoryNext]_memoryVars, NoGap(RunFiles), NEW n \in RunFiles
  PROVE  jobRuns'[n] \in {jobRuns[n], NoWriter}
<1>1. n \in Numbers
  BY NumbersFinite
<1>2. CASE UNCHANGED jobRuns
  BY <1>2
<1>3. ASSUME NEW r \in Runs, RunWritten(r) PROVE jobRuns'[n] = jobRuns[n]
  <2>1. target[r] = Cardinality(RunFiles) + 1 /\ jobRuns' = [jobRuns EXCEPT ![target[r]] = r]
    BY <1>3, RunFileFits DEF RunWritten
  <2>2. n # target[r]
    BY <2>1, NextIsFree, NumbersFinite
  <2> QED BY <1>1, <2>1, <2>2 DEF MemoryInv, MemoryTyped
<1>4. ASSUME NEW m \in Numbers, RemoveRun(m) PROVE jobRuns'[n] \in {jobRuns[n], NoWriter}
  <2>1. jobRuns' = [jobRuns EXCEPT ![m] = NoWriter]
    BY <1>4 DEF RemoveRun
  <2> QED BY <1>1, <2>1 DEF MemoryInv, MemoryTyped
<1> QED
  BY <1>2, <1>3, <1>4
     DEF MemoryNext, memoryVars, StartAppend, Appended, StartRun, WriteFails, WriterDies, RemoveFile

\* write_job_run overwrites no run's document, unless a file before it was removed.
THEOREM RunsStay ==
  MemoryInit /\ [][MemoryNext]_memoryVars => RunsKept
<1>1. MemoryInv /\ [MemoryNext]_memoryVars =>
        [NoGap(RunFiles) => \A n \in RunFiles : jobRuns'[n] \in {jobRuns[n], NoWriter}]_memoryVars
  BY RunStep
<1> QED
  BY <1>1, MemoryStarts, MemoryStep, PTL DEF RunsKept

-----------------------------------------------------------------------------
(***************************************************************************)
(* Interactions: a ticket of a /model menu makes one switch at most, for   *)
(* any handlers, agents, sessions and numbers of tickets and restarts.  A  *)
(* ticket is in one place only: it waits, or one handler has it, or one    *)
(* switch was made with it, and it never comes back.                       *)
(***************************************************************************)
PickSteps == {"idle", "asking", "switching", "done"}
PickWork == [step : PickSteps, ticket : Nat, agent : MenuAgents \cup {"none"}, scope : Scopes \cup {"none"}]

PickTyped ==
  /\ tickets \in Seq([agent : MenuAgents, scope : Scopes])
  /\ waiting \subseteq DOMAIN tickets
  /\ menus \subseteq DOMAIN tickets
  /\ picker \in [Pickers -> PickWork]
  /\ \A h \in Pickers : picker[h].step \in {"idle", "asking", "switching"}
  /\ \A h \in Pickers : picker[h].step = "asking" =>
       picker[h].agent \in MenuAgents /\ picker[h].scope \in Scopes
  /\ switches \in Seq(PickWork)
  /\ restarts \in Nat

\* The handler is switching with a ticket.
HasTicket(h) == picker[h].step = "switching" /\ picker[h].ticket # NoTicket

\* A piece of work is for the agent and the session its ticket was made for.
MatchesTicket(work) ==
  /\ work.ticket \in DOMAIN tickets \ waiting
  /\ work.agent = tickets[work.ticket].agent
  /\ work.scope = tickets[work.ticket].scope

TicketsInPlace ==
  /\ \A h \in Pickers : HasTicket(h) => MatchesTicket(picker[h])
  /\ \A i \in DOMAIN switches : MatchesTicket(switches[i])

TicketsApart ==
  /\ \A g, h \in Pickers : HasTicket(g) /\ HasTicket(h) /\ picker[g].ticket = picker[h].ticket => g = h
  /\ \A h \in Pickers, i \in DOMAIN switches : HasTicket(h) => picker[h].ticket # switches[i].ticket
  /\ \A i, j \in DOMAIN switches : switches[i].ticket = switches[j].ticket => i = j

PickInv == PickTyped /\ TicketsInPlace /\ TicketsApart

-----------------------------------------------------------------------------
\* At the start there is no ticket.
LEMMA PickStarts == InteractionInit => PickInv
  BY DEF InteractionInit, PickInv, PickTyped, TicketsInPlace, TicketsApart, HasTicket, MatchesTicket, Idle, NoTicket, PickWork, PickSteps

\* Handlers that hold no ticket become handlers that hold none.
LEMMA TicketsUntouched ==
  ASSUME PickInv, PickTyped',
         UNCHANGED <<tickets, switches>>, waiting' \subseteq waiting,
         \A h \in Pickers : HasTicket(h)' => picker'[h] = picker[h] /\ HasTicket(h)
  PROVE  PickInv'
  BY DEF PickInv, TicketsInPlace, TicketsApart, HasTicket, MatchesTicket

\* A handler that asks for the options has no ticket.
LEMMA AskModelKeeps ==
  ASSUME PickInv, NEW h \in Pickers, NEW a \in MenuAgents, NEW s \in Scopes, AskModel(h, a, s)
  PROVE  PickInv'
<1>1. PickTyped'
  BY DEF PickInv, PickTyped, AskModel, Becomes, NoTicket, PickWork, PickSteps
<1>2. \A g \in Pickers : HasTicket(g)' => picker'[g] = picker[g] /\ HasTicket(g)
  BY DEF PickInv, PickTyped, AskModel, Becomes, HasTicket
<1> QED
  BY <1>1, <1>2, TicketsUntouched DEF AskModel

\* A handler that ends without a switch loses its ticket.
LEMMA FinishesKeeps ==
  ASSUME PickInv, NEW h \in Pickers, Finishes(h),
         UNCHANGED <<tickets, waiting, menus, switches, restarts>>
  PROVE  PickInv'
<1>1. PickTyped'
  BY DEF PickInv, PickTyped, Finishes, Idle, NoTicket, PickWork, PickSteps
<1>2. \A g \in Pickers : HasTicket(g)' => picker'[g] = picker[g] /\ HasTicket(g)
  BY DEF PickInv, PickTyped, Finishes, HasTicket, Idle
<1> QED
  BY <1>1, <1>2, TicketsUntouched

\* A new ticket is nobody's.
LEMMA ShowMenuKeeps ==
  ASSUME PickInv, NEW h \in Pickers, NEW taken \in BOOLEAN, ShowMenu(h, taken)
  PROVE  PickInv'
<1> DEFINE t == Len(tickets) + 1
           new == [agent |-> picker[h].agent, scope |-> picker[h].scope]
<1>1. new \in [agent : MenuAgents, scope : Scopes]
  BY DEF PickInv, PickTyped, ShowMenu
<1>2. /\ tickets' \in Seq([agent : MenuAgents, scope : Scopes])
      /\ DOMAIN tickets' = DOMAIN tickets \cup {t}
      /\ t \notin DOMAIN tickets
      /\ \A u \in DOMAIN tickets : tickets'[u] = tickets[u]
  BY <1>1 DEF PickInv, PickTyped, ShowMenu
<1>3. PickTyped'
  BY <1>2 DEF PickInv, PickTyped, ShowMenu, Finishes, Idle, NoTicket, PickWork, PickSteps
<1>4. \A g \in Pickers : HasTicket(g)' => picker'[g] = picker[g] /\ HasTicket(g)
  BY DEF PickInv, PickTyped, ShowMenu, Finishes, HasTicket, Idle
<1>5. waiting' = waiting \cup {t} /\ switches' = switches
  BY DEF ShowMenu
<1>6. TicketsInPlace'
  BY <1>2, <1>4, <1>5 DEF PickInv, TicketsInPlace, MatchesTicket
<1>7. TicketsApart'
  BY <1>4, <1>5 DEF PickInv, TicketsApart
<1> QED
  BY <1>3, <1>6, <1>7 DEF PickInv

\* A ticket that is taken waited, so that nobody had it.
LEMMA AnsweringKeeps ==
  ASSUME PickInv, NEW h \in Pickers, NEW t \in {NoTicket} \cup DOMAIN tickets,
         NEW a \in MenuAgents, NEW c, NEW s \in Scopes, NEW claimed,
         Answering(h, t, a, c, s, claimed)
  PROVE  PickInv'
<1>1. t \in Nat
  BY DEF PickInv, PickTyped, NoTicket
<1>2. waiting' \subseteq waiting /\ UNCHANGED <<tickets, menus, switches, restarts>>
  BY DEF Answering, Consume
<1>3. CASE UNCHANGED picker
  <2>1. PickTyped'
    BY <1>2, <1>3 DEF PickInv, PickTyped
  <2>2. \A g \in Pickers : HasTicket(g)' => picker'[g] = picker[g] /\ HasTicket(g)
    BY <1>3 DEF HasTicket
  <2> QED
    BY <1>2, <2>1, <2>2, TicketsUntouched
<1>4. CASE Becomes(h, "switching", t, a, s)
  <2>1. PickTyped'
    BY <1>1, <1>2, <1>4 DEF PickInv, PickTyped, Becomes, PickWork, PickSteps
  <2>2. \A g \in Pickers \ {h} : picker'[g] = picker[g]
    BY <1>4 DEF PickInv, PickTyped, Becomes
  <2>3. picker'[h] = [step |-> "switching", ticket |-> t, agent |-> a, scope |-> s]
    BY <1>4 DEF PickInv, PickTyped, Becomes
  <2>4. CASE t = NoTicket
    <3>1. \A g \in Pickers : HasTicket(g)' => picker'[g] = picker[g] /\ HasTicket(g)
      BY <2>2, <2>3, <2>4 DEF HasTicket
    <3> QED
      BY <1>2, <2>1, <3>1, TicketsUntouched
  <2>5. CASE t # NoTicket /\ ~UNCHANGED picker
    <3>1. /\ t \in waiting /\ waiting' = waiting \ {t}
          /\ tickets[t].agent = a /\ tickets[t].scope = s
      BY <2>5 DEF Answering, Consume
    <3>2. \A g \in Pickers \ {h} : HasTicket(g)' => HasTicket(g) /\ picker[g].ticket # t
      BY <2>2, <3>1 DEF PickInv, TicketsInPlace, HasTicket, MatchesTicket
    <3>3. \A i \in DOMAIN switches : switches[i].ticket # t
      BY <3>1 DEF PickInv, TicketsInPlace, MatchesTicket
    <3>4. TicketsInPlace'
      <4>1. \A g \in Pickers \ {h} : HasTicket(g)' => MatchesTicket(picker[g])'
        BY <1>2, <2>2, <3>1, <3>2 DEF PickInv, TicketsInPlace, MatchesTicket
      <4>2. MatchesTicket(picker[h])'
        BY <1>2, <2>3, <3>1 DEF PickInv, PickTyped, MatchesTicket
      <4>3. \A i \in DOMAIN switches : MatchesTicket(switches[i])'
        BY <1>2, <3>1, <3>3 DEF PickInv, TicketsInPlace, MatchesTicket
      <4> QED
        BY <1>2, <4>1, <4>2, <4>3 DEF TicketsInPlace
    <3>5. TicketsApart'
      BY <1>2, <2>2, <2>3, <3>2, <3>3 DEF PickInv, TicketsApart, HasTicket
    <3> QED
      BY <2>1, <3>4, <3>5 DEF PickInv
  <2> QED
    BY <1>3, <2>4, <2>5
<1> QED
  BY <1>3, <1>4 DEF Answering

\* A switch is made with the ticket its handler had, and the handler leaves it.
LEMMA SwitchDoneKeeps ==
  ASSUME PickInv, NEW h \in Pickers, SwitchDone(h)
  PROVE  PickInv'
<1>1. CASE picker[h].ticket = NoTicket
  BY <1>1, FinishesKeeps DEF SwitchDone
<1>2. CASE picker[h].ticket # NoTicket
  <2> DEFINE done == [picker[h] EXCEPT !.step = "done"]
             n == Len(switches) + 1
  <2>1. /\ done \in PickWork
        /\ done.ticket = picker[h].ticket /\ done.agent = picker[h].agent
        /\ done.scope = picker[h].scope
    BY DEF PickInv, PickTyped, PickWork, PickSteps
  <2>2. /\ switches' \in Seq(PickWork)
        /\ DOMAIN switches' = DOMAIN switches \cup {n}
        /\ n \notin DOMAIN switches
        /\ switches'[n] = done
        /\ \A i \in DOMAIN switches : switches'[i] = switches[i]
    BY <1>2, <2>1 DEF PickInv, PickTyped, SwitchDone
  <2>3. HasTicket(h)
    BY <1>2 DEF SwitchDone, HasTicket
  <2>4. \A g \in Pickers : HasTicket(g)' => picker'[g] = picker[g] /\ HasTicket(g) /\ g # h
    BY DEF PickInv, PickTyped, SwitchDone, Finishes, HasTicket, Idle
  <2>5. UNCHANGED <<tickets, waiting, menus, restarts>>
    BY DEF SwitchDone
  <2>6. PickTyped'
    BY <2>2, <2>5 DEF PickInv, PickTyped, SwitchDone, Finishes, Idle, NoTicket, PickWork, PickSteps
  <2>7. TicketsInPlace'
    <3>1. \A g \in Pickers : HasTicket(g)' => MatchesTicket(picker[g])'
      BY <2>4, <2>5 DEF PickInv, TicketsInPlace, MatchesTicket
    <3>2. \A i \in DOMAIN switches : MatchesTicket(switches[i])'
      BY <2>2, <2>5 DEF PickInv, TicketsInPlace, MatchesTicket
    <3>3. MatchesTicket(picker[h])
      BY <2>3 DEF PickInv, TicketsInPlace
    <3>4. \A i \in DOMAIN switches' \ DOMAIN switches : MatchesTicket(switches[i])'
      BY <2>1, <2>2, <2>5, <3>3 DEF MatchesTicket
    <3> QED
      BY <2>2, <3>1, <3>2, <3>4 DEF TicketsInPlace
  <2>8. TicketsApart'
    <3>1. \A g \in Pickers : HasTicket(g)' => picker[g].ticket # picker[h].ticket
      BY <2>3, <2>4 DEF PickInv, TicketsApart
    <3>2. \A i \in DOMAIN switches : switches[i].ticket # picker[h].ticket
      BY <2>3 DEF PickInv, TicketsApart
    <3> QED
      <4>1. \A f, g \in Pickers :
              HasTicket(f)' /\ HasTicket(g)' /\ picker'[f].ticket = picker'[g].ticket => f = g
        BY <2>4 DEF PickInv, TicketsApart
      <4>2. \A g \in Pickers, i \in DOMAIN switches : HasTicket(g)' =>
              picker'[g].ticket # switches'[i].ticket
        BY <2>2, <2>4 DEF PickInv, TicketsApart
      <4>3. \A g \in Pickers : HasTicket(g)' => picker'[g].ticket # switches'[n].ticket
        BY <2>1, <2>2, <2>4, <3>1
      <4>4. \A i, j \in DOMAIN switches : switches'[i].ticket = switches'[j].ticket => i = j
        BY <2>2 DEF PickInv, TicketsApart
      <4>5. \A i \in DOMAIN switches : switches'[i].ticket # switches'[n].ticket
        BY <2>1, <2>2, <3>2
      <4> HIDE DEF done, n
      <4> QED
        BY <2>2, <4>1, <4>2, <4>3, <4>4, <4>5 DEF TicketsApart
  <2> QED
    BY <2>6, <2>7, <2>8 DEF PickInv
<1> QED
  BY <1>1, <1>2

\* A menu is not a ticket.
LEMMA MenuExpiresKeeps ==
  ASSUME PickInv, NEW t, MenuExpires(t)
  PROVE  PickInv'
<1>1. PickTyped'
  BY DEF PickInv, PickTyped, MenuExpires
<1> QED
  BY <1>1, TicketsUntouched DEF MenuExpires, HasTicket

\* No handler is left, and no ticket waits.
LEMMA EndProgramKeeps ==
  ASSUME PickInv, EndProgram
  PROVE  PickInv'
<1>1. PickTyped'
  BY DEF PickInv, PickTyped, EndProgram, Idle, NoTicket, PickWork, PickSteps
<1>2. \A g \in Pickers : ~HasTicket(g)'
  BY DEF EndProgram, HasTicket, Idle
<1> QED
  BY <1>1, <1>2, TicketsUntouched DEF EndProgram

\* Every step keeps the invariant.
LEMMA PickKeeps == PickInv /\ [InteractionNext]_interactionVars => PickInv'
<1> SUFFICES ASSUME PickInv, [InteractionNext]_interactionVars
             PROVE  PickInv'
  OBVIOUS
<1>1. CASE UNCHANGED interactionVars
  BY <1>1 DEF PickInv, PickTyped, TicketsInPlace, TicketsApart, HasTicket, MatchesTicket, interactionVars
<1>2. ASSUME NEW h \in Pickers, AskFails(h) \/ SwitchFails(h) PROVE PickInv'
  BY <1>2, FinishesKeeps DEF AskFails, SwitchFails
<1>3. ASSUME NEW h \in Pickers, SwitchDone(h) PROVE PickInv'
  BY <1>3, SwitchDoneKeeps
<1>4. ASSUME NEW h \in Pickers, NEW taken \in BOOLEAN, ShowMenu(h, taken) PROVE PickInv'
  BY <1>4, ShowMenuKeeps
<1>5. ASSUME NEW h \in Pickers, NEW t \in 1..MaxTickets, PickModel(h, t) PROVE PickInv'
  <2>1. t \in DOMAIN tickets /\ tickets[t].agent \in MenuAgents /\ tickets[t].scope \in Scopes
    <3>1. t \in DOMAIN tickets /\ tickets \in Seq([agent : MenuAgents, scope : Scopes])
      BY <1>5 DEF PickModel, PickInv, PickTyped
    <3>2. tickets[t] \in [agent : MenuAgents, scope : Scopes]
      <4> DEFINE Tickets == [agent : MenuAgents, scope : Scopes]
      <4>1. tickets \in Seq(Tickets) /\ t \in DOMAIN tickets
        BY <3>1
      <4> HIDE DEF Tickets
      <4>2. tickets[t] \in Tickets
        BY <4>1
      <4> QED
        BY <4>2 DEF Tickets
    <3> QED
      BY <3>1, <3>2
  <2> QED
    BY <1>5, <2>1, AnsweringKeeps DEF PickModel
<1>6. ASSUME NEW h \in Pickers, NEW a \in MenuAgents, NEW s \in Scopes, AskModel(h, a, s)
      PROVE  PickInv'
  BY <1>6, AskModelKeeps
<1>7. ASSUME NEW h \in Pickers, NEW a \in MenuAgents, NEW s \in Scopes, NEW t \in 0..MaxTickets,
             CallOther(h, t, a, s)
      PROVE  PickInv'
  BY <1>7, AnsweringKeeps DEF CallOther
<1>8. ASSUME NEW h \in Pickers, NEW a \in MenuAgents, NEW s \in Scopes, NEW t \in 0..MaxTickets,
             NEW claimed \in Scopes \cup {"none"}, CallModel(h, t, a, s, claimed)
      PROVE  PickInv'
  BY <1>8, AnsweringKeeps DEF CallModel
<1>9. ASSUME NEW t \in 1..MaxTickets, MenuExpires(t) PROVE PickInv'
  BY <1>9, MenuExpiresKeeps
<1> QED
  BY <1>1, <1>2, <1>3, <1>4, <1>5, <1>6, <1>7, <1>8, <1>9, EndProgramKeeps DEF InteractionNext

\* A ticket's uses are one switch or none, and that one matches.
LEMMA PickMeansOnce == PickInv => TicketOnce
<1> SUFFICES ASSUME PickInv, NEW t \in DOMAIN tickets
             PROVE  /\ Cardinality(UsesOf(t)) <= 1
                    /\ \A i \in UsesOf(t) :
                         /\ switches[i].agent = tickets[t].agent
                         /\ switches[i].scope = tickets[t].scope
  BY DEF TicketOnce
<1>1. Cardinality(UsesOf(t)) <= 1
  <2>1. CASE UsesOf(t) = {}
    BY <2>1, FS_EmptySet
  <2>2. CASE UsesOf(t) # {}
    <3>1. PICK i : i \in UsesOf(t)
      BY <2>2
    <3>2. UsesOf(t) = {i}
      BY <3>1 DEF PickInv, TicketsApart, UsesOf
    <3>3. Cardinality({i}) = 1
      BY FS_Singleton
    <3> QED
      BY <3>2, <3>3
  <2> QED
    BY <2>1, <2>2
<1> QED
  BY <1>1 DEF PickInv, TicketsInPlace, MatchesTicket, UsesOf

\* docs/plans.md:914: a ticket makes one switch at most, for the agent and the
\* session it was made for, however picks, calls, failures and restarts overlap.
THEOREM TicketUsedOnce == InteractionSpec => []TicketOnce
BY PickStarts, PickKeeps, PickMeansOnce, PTL DEF InteractionSpec

-----------------------------------------------------------------------------
(***************************************************************************)
(* Subagents: the workspace of a subagent is its own, for any number of    *)
(* tasks, personas and crashes.  A task works in the directory of its own  *)
(* name only, which holds just what the steps so far have put there, and a *)
(* CLI runs only in between.                                               *)
(***************************************************************************)
TaskStages ==
  Files \cup {"idle", "starting", "streaming", "removing answered", "removing failed", "answered",
              "failed", "crashed"}

TaskTyped ==
  /\ task \in [Tasks -> TaskStages]
  /\ persona \in [Tasks -> Personas]
  /\ root \in [Tasks -> Tasks \cup Personas \cup {NoRoot}]
  /\ folder \in [Tasks \cup Personas -> SUBSET Files]
  /\ clis \subseteq Tasks
  /\ crashes \in Nat

\* A task that was called has the directory of its own name; one that was not,
\* or of a persona nobody knows, has none.
OwnRoot ==
  \A k \in Tasks : root[k] = k \/ (root[k] = NoRoot /\ task[k] \in {"idle", "failed"})

\* What the steps before a stage have put into the directory.
FilesBefore(s) ==
  CASE s \in {"idle", "directories"} -> {}
    [] s = "persona" -> {"directories"}
    [] s = "init doc" -> {"directories", "persona"}
    [] OTHER -> Files

FilesPrepared ==
  \A k \in Tasks : task[k] \in Files \cup {"idle", "starting", "streaming"} =>
    folder[k] = FilesBefore(task[k])

WholeWhileRunning ==
  \A k \in clis : task[k] \in {"streaming", "crashed"} /\ folder[k] = Files

FilesRemoved ==
  \A k \in Tasks :
    task[k] \in {"answered", "failed"} /\ root[k] # NoRoot /\ k \notin remains => folder[k] = {}

TaskInv == TaskTyped /\ OwnRoot /\ FilesPrepared /\ WholeWhileRunning /\ FilesRemoved

-----------------------------------------------------------------------------
\* At the start no task was called.
LEMMA TaskStarts == SubagentInit => TaskInv
<1> SUFFICES ASSUME SubagentInit PROVE TaskInv
  OBVIOUS
<1>1. (CHOOSE p \in Personas : TRUE) \in Personas
  BY SubagentAssumption
<1>2. TaskTyped
  BY <1>1 DEF SubagentInit, TaskTyped, TaskStages, NoRoot
<1> QED
  BY <1>2 DEF SubagentInit, TaskInv, OwnRoot, FilesPrepared, FilesBefore, WholeWhileRunning, FilesRemoved, Files

\* The task gets the directory of its own name, which is not there yet.
LEMMA CallSubagentKeeps ==
  ASSUME TaskInv, NEW k \in Tasks, NEW p \in Personas, CallSubagent(k, p)
  PROVE  TaskInv'
<1>1. TaskTyped'
  BY DEF TaskInv, TaskTyped, CallSubagent, Goes, RootOf, TaskStages, Files
<1>2. OwnRoot'
  BY DEF TaskInv, TaskTyped, OwnRoot, CallSubagent, Goes, RootOf
<1>3. FilesPrepared'
  BY DEF TaskInv, TaskTyped, FilesPrepared, FilesBefore, CallSubagent, Goes, Files
<1>4. WholeWhileRunning'
  BY DEF TaskInv, TaskTyped, WholeWhileRunning, CallSubagent, Goes
<1>5. FilesRemoved'
  BY DEF TaskInv, TaskTyped, FilesRemoved, CallSubagent, Goes, RootOf
<1> QED
  BY <1>1, <1>2, <1>3, <1>4, <1>5 DEF TaskInv

\* Nothing was made.
LEMMA UnknownPersonaKeeps ==
  ASSUME TaskInv, NEW k \in Tasks, UnknownPersona(k)
  PROVE  TaskInv'
<1>1. folder[k] = {}
  BY DEF TaskInv, FilesPrepared, FilesBefore, UnknownPersona
<1>2. TaskTyped'
  BY DEF TaskInv, TaskTyped, UnknownPersona, Goes, TaskStages
<1>3. OwnRoot'
  BY DEF TaskInv, TaskTyped, OwnRoot, UnknownPersona, Goes
<1>4. FilesPrepared'
  BY DEF TaskInv, TaskTyped, FilesPrepared, UnknownPersona, Goes, Files
<1>5. WholeWhileRunning' /\ FilesRemoved'
  BY <1>1 DEF TaskInv, TaskTyped, WholeWhileRunning, FilesRemoved, UnknownPersona, Goes
<1> QED
  BY <1>2, <1>3, <1>4, <1>5 DEF TaskInv

\* No file of another task is touched.
LEMMA PrepareKeeps ==
  ASSUME TaskInv, NEW k \in Tasks, Prepare(k)
  PROVE  TaskInv'
<1>1. root[k] = k
  BY DEF TaskInv, OwnRoot, Prepare, Files
<1>2. folder[k] = FilesBefore(task[k])
  BY DEF TaskInv, FilesPrepared, Prepare
<1>3. FilesBefore(task[k]) \cup {task[k]} = FilesBefore(After(task[k]))
  BY DEF Prepare, Files, FilesBefore, After
<1>4. After(task[k]) \in Files \cup {"starting"}
  BY DEF Prepare, Files, After
<1>5. /\ task' = [task EXCEPT ![k] = After(task[k])]
      /\ folder' = [folder EXCEPT ![k] = @ \cup {task[k]}]
  BY <1>1 DEF Prepare, Goes
<1>6. k \notin clis
  BY DEF TaskInv, WholeWhileRunning, Prepare, Files
<1>7. TaskTyped'
  <2>1. After(task[k]) \in TaskStages /\ task[k] \in Files
    BY <1>4 DEF Prepare, TaskStages
  <2>2. task' \in [Tasks -> TaskStages] /\ folder' \in [Tasks \cup Personas -> SUBSET Files]
    BY <1>5, <2>1 DEF TaskInv, TaskTyped
  <2> QED
    BY <2>2 DEF TaskInv, TaskTyped, Prepare
<1>8. OwnRoot'
  BY <1>1, <1>5 DEF TaskInv, TaskTyped, OwnRoot, Prepare
<1>9. FilesPrepared'
  BY <1>2, <1>3, <1>5 DEF TaskInv, TaskTyped, FilesPrepared
<1>10. WholeWhileRunning'
  BY <1>5, <1>6 DEF TaskInv, TaskTyped, WholeWhileRunning, Prepare
<1>11. FilesRemoved'
  BY <1>4, <1>5 DEF TaskInv, TaskTyped, FilesRemoved, Prepare, Files
<1> QED
  BY <1>7, <1>8, <1>9, <1>10, <1>11 DEF TaskInv

\* The CLI starts in a workspace that is whole.
LEMMA StartTaskKeeps ==
  ASSUME TaskInv, NEW k \in Tasks, StartTask(k)
  PROVE  TaskInv'
<1>1. folder[k] = Files
  BY DEF TaskInv, FilesPrepared, FilesBefore, StartTask
<1>2. TaskTyped'
  BY DEF TaskInv, TaskTyped, StartTask, Goes, TaskStages
<1>3. OwnRoot' /\ FilesRemoved'
  BY DEF TaskInv, TaskTyped, OwnRoot, FilesRemoved, StartTask, Goes
<1>4. FilesPrepared'
  BY <1>1 DEF TaskInv, TaskTyped, FilesPrepared, FilesBefore, StartTask, Goes
<1>5. WholeWhileRunning'
  BY <1>1 DEF TaskInv, TaskTyped, WholeWhileRunning, StartTask, Goes
<1> QED
  BY <1>2, <1>3, <1>4, <1>5 DEF TaskInv

\* The end of the work: no CLI of the task is left.
LEMMA EndOfWorkKeeps ==
  ASSUME TaskInv, NEW k \in Tasks, NEW now \in {"removing answered", "removing failed"},
         task[k] \notin {"idle", "failed"}, Goes(k, now), clis' = clis \ {k},
         UNCHANGED <<persona, root, folder, remains, crashes>>
  PROVE  TaskInv'
<1>1. TaskTyped'
  BY DEF TaskInv, TaskTyped, Goes, TaskStages
<1>2. OwnRoot'
  BY DEF TaskInv, TaskTyped, OwnRoot, Goes
<1>3. FilesPrepared' /\ WholeWhileRunning' /\ FilesRemoved'
  BY DEF TaskInv, TaskTyped, FilesPrepared, WholeWhileRunning, FilesRemoved, Goes, Files
<1> QED
  BY <1>1, <1>2, <1>3 DEF TaskInv

\* rmtree works on the task's own directory, when its CLI has ended.
LEMMA RemoveWorkspaceKeeps ==
  ASSUME TaskInv, NEW k \in Tasks, RemoveWorkspace(k)
  PROVE  TaskInv'
<1>1. root[k] = k /\ k \notin clis
  BY DEF TaskInv, OwnRoot, WholeWhileRunning, RemoveWorkspace
<1>2. PICK left \in SUBSET folder[k] :
        /\ folder' = [folder EXCEPT ![k] = left]
        /\ remains' = IF left = {} THEN remains ELSE remains \cup {k}
  BY <1>1 DEF RemoveWorkspace
<1>3. PICK now \in {"answered", "failed"} : task' = [task EXCEPT ![k] = now]
  BY DEF RemoveWorkspace, Goes
<1>4. UNCHANGED <<persona, root, clis, crashes>>
  BY DEF RemoveWorkspace
<1>5. TaskTyped'
  BY <1>2, <1>3, <1>4 DEF TaskInv, TaskTyped, TaskStages
<1>6. OwnRoot'
  BY <1>1, <1>3, <1>4 DEF TaskInv, TaskTyped, OwnRoot
<1>7. FilesPrepared'
  BY <1>2, <1>3 DEF TaskInv, TaskTyped, FilesPrepared, Files
<1>8. WholeWhileRunning'
  BY <1>1, <1>2, <1>3, <1>4 DEF TaskInv, TaskTyped, WholeWhileRunning
<1>9. FilesRemoved'
  BY <1>2, <1>3, <1>4 DEF TaskInv, TaskTyped, FilesRemoved
<1> QED
  BY <1>5, <1>6, <1>7, <1>8, <1>9 DEF TaskInv

\* A crash touches no directory and no CLI.
LEMMA CrashKeeps ==
  ASSUME TaskInv, CrashSubagents
  PROVE  TaskInv'
<1>1. \A k \in Tasks : task'[k] \in {task[k], "crashed"}
  BY DEF CrashSubagents
<1>2. \A k \in Tasks : task[k] \in {"idle", "answered", "failed"} => task'[k] = task[k]
  BY DEF CrashSubagents
<1>3. UNCHANGED <<persona, root, folder, clis, remains>> /\ crashes' = crashes + 1
  BY DEF CrashSubagents
<1>4. task' \in [Tasks -> TaskStages]
  BY DEF TaskInv, TaskTyped, CrashSubagents, TaskStages
<1>5. TaskTyped'
  BY <1>3, <1>4 DEF TaskInv, TaskTyped
<1>6. OwnRoot'
  BY <1>1, <1>2, <1>3 DEF TaskInv, OwnRoot
<1>7. FilesPrepared'
  BY <1>1, <1>3 DEF TaskInv, FilesPrepared, Files
<1>8. WholeWhileRunning'
  BY <1>1, <1>3 DEF TaskInv, TaskTyped, WholeWhileRunning
<1>9. FilesRemoved'
  BY <1>1, <1>3 DEF TaskInv, FilesRemoved
<1> QED
  BY <1>5, <1>6, <1>7, <1>8, <1>9 DEF TaskInv

\* One CLI less.
LEMMA OrphanEndsKeeps ==
  ASSUME TaskInv, NEW k \in Tasks, OrphanEnds(k)
  PROVE  TaskInv'
  BY DEF TaskInv, TaskTyped, OwnRoot, FilesPrepared, WholeWhileRunning, FilesRemoved, OrphanEnds

\* Every step keeps the invariant.
LEMMA TaskKeeps == TaskInv /\ [SubagentNext]_subagentVars => TaskInv'
<1> SUFFICES ASSUME TaskInv, [SubagentNext]_subagentVars
             PROVE  TaskInv'
  OBVIOUS
<1>1. CASE UNCHANGED subagentVars
  BY <1>1 DEF TaskInv, TaskTyped, OwnRoot, FilesPrepared, WholeWhileRunning, FilesRemoved, subagentVars
<1>2. ASSUME NEW k \in Tasks, NEW p \in Personas, CallSubagent(k, p) PROVE TaskInv'
  BY <1>2, CallSubagentKeeps
<1>3. ASSUME NEW k \in Tasks, UnknownPersona(k) PROVE TaskInv'
  BY <1>3, UnknownPersonaKeeps
<1>4. ASSUME NEW k \in Tasks, Prepare(k) PROVE TaskInv'
  BY <1>4, PrepareKeeps
<1>5. ASSUME NEW k \in Tasks, StartTask(k) PROVE TaskInv'
  BY <1>5, StartTaskKeeps
<1>6. ASSUME NEW k \in Tasks, TaskAnswered(k) PROVE TaskInv'
  BY <1>6, EndOfWorkKeeps DEF TaskAnswered
<1>7. ASSUME NEW k \in Tasks, TaskBreaks(k) PROVE TaskInv'
  BY <1>7, EndOfWorkKeeps DEF TaskBreaks, Files
<1>8. ASSUME NEW k \in Tasks, RemoveWorkspace(k) PROVE TaskInv'
  BY <1>8, RemoveWorkspaceKeeps
<1>9. ASSUME NEW k \in Tasks, OrphanEnds(k) PROVE TaskInv'
  BY <1>9, OrphanEndsKeeps
<1> QED
  BY <1>1, <1>2, <1>3, <1>4, <1>5, <1>6, <1>7, <1>8, <1>9, CrashKeeps DEF SubagentNext

\* A task's root is the directory of its name where the property looks at it.
LEMMA TaskMeansOwned == TaskInv => WorkspaceOwned
<1> SUFFICES ASSUME TaskInv, NEW k \in Tasks
             PROVE  /\ k \in clis => folder[root[k]] = Files
                    /\ task[k] \in {"answered", "failed"} /\ root[k] # NoRoot /\ k \notin remains =>
                         k \notin clis /\ folder[root[k]] = {}
  BY DEF WorkspaceOwned
<1>1. k \in clis => root[k] = k /\ folder[k] = Files /\ task[k] \in {"streaming", "crashed"}
  BY DEF TaskInv, WholeWhileRunning, OwnRoot
<1>2. root[k] # NoRoot => root[k] = k
  BY DEF TaskInv, OwnRoot
<1> QED
  BY <1>1, <1>2 DEF TaskInv, FilesRemoved

\* core/subagents.py:141, 203: a running subagent has its whole workspace, and
\* nothing of one that is over is left but what could not be removed.
THEOREM WorkspacesApart == SubagentSpec => []WorkspaceOwned
BY TaskStarts, TaskKeeps, TaskMeansOwned, PTL DEF SubagentSpec
-----------------------------------------------------------------------------
(***************************************************************************)
(* Types: the five components whose types were only a part of another      *)
(* invariant, and then all nine side by side.                              *)
(***************************************************************************)

\* Before the CLI is started nothing lives.
ProcessTyped == ProcessTypeOK /\ (step = "idle" => living = {})

\* A turn begins with no process.
LEMMA ProcessStarts == ProcessInit => ProcessTyped
  BY DEF ProcessInit, ProcessTyped, ProcessTypeOK

\* The processes: each starts once, and who is doomed lives.
LEMMA ProcessesTyped ==
  ASSUME ProcessTyped,
         StartCli \/ (\E h \in Helpers : StartHelper(h)) \/ (\E pipe \in Pipes : CliCloses(pipe))
         \/ CliEnds \/ HelperEnds \/ StderrFills
         \/ \E p \in {Cli, Helper} : Dies(p)
  PROVE  ProcessTyped'
<1>1. CASE StartCli
  BY <1>1 DEF ProcessTyped, ProcessTypeOK, StartCli, To
<1>2. CASE \E h \in Helpers : StartHelper(h)
  BY <1>2 DEF ProcessTyped, ProcessTypeOK, StartHelper, Pipes
<1>3. CASE CliEnds
  BY <1>3 DEF ProcessTyped, ProcessTypeOK, CliEnds, Leave
<1>4. CASE HelperEnds
  BY <1>4 DEF ProcessTyped, ProcessTypeOK, HelperEnds, Leave
<1>5. CASE StderrFills
  BY <1>5 DEF ProcessTyped, ProcessTypeOK, StderrFills
<1>6. CASE \E p \in {Cli, Helper} : Dies(p)
  BY <1>6 DEF ProcessTyped, ProcessTypeOK, Dies, Leave
<1>7. CASE \E pipe \in Pipes : CliCloses(pipe)
  BY <1>7 DEF ProcessTyped, ProcessTypeOK, CliCloses
<1> QED
  BY <1>1, <1>2, <1>3, <1>4, <1>5, <1>6, <1>7

\* The deadline, or the end of the task: nobody is signalled who does not live.
LEMMA DeadlineTyped ==
  ASSUME ProcessTyped, Terminates \/ KillsCli, step # "idle"
  PROVE  ProcessTyped'
<1>1. CASE Terminates
  BY <1>1 DEF ProcessTyped, ProcessTypeOK, Terminates, Signalled, To
<1>2. CASE KillsCli
  BY <1>2 DEF ProcessTyped, ProcessTypeOK, KillsCli, Leave, To
<1> QED
  BY <1>1, <1>2

\* The turn waits, and kills once.
LEMMA TurnTyped ==
  ASSUME ProcessTyped, Turn
  PROVE  ProcessTyped'
<1>1. CASE Collects \/ StreamEnds \/ Drained
  BY <1>1 DEF ProcessTyped, ProcessTypeOK, Collects, StreamEnds, Drained, To
<1>2. CASE CliGone \/ Collected \/ CleanedUp
  BY <1>2 DEF ProcessTyped, ProcessTypeOK, CliGone, Collected, CleanedUp, To
<1>3. CASE HalfSecond
  BY <1>3 DEF ProcessTyped, ProcessTypeOK, HalfSecond, Leave, To
<1>4. CASE Deadline
  BY <1>4, DeadlineTyped DEF Deadline
<1> QED
  BY <1>1, <1>2, <1>3, <1>4 DEF Turn

\* A cancelled task is left at its deadline, or while it drains.
LEMMA CancelledTyped ==
  ASSUME ProcessTyped, Cancelled
  PROVE  ProcessTyped'
<1>1. CASE Deadline \/ (step = "draining" /\ Terminates)
  BY <1>1, DeadlineTyped DEF Deadline
<1>2. CASE step = "draining" /\ To("done")
           /\ UNCHANGED <<runner, living, closed, helper, held, deaf, doomed, stuck>>
  BY <1>2 DEF ProcessTyped, ProcessTypeOK, To
<1> QED
  BY <1>1, <1>2 DEF Cancelled

\* Of Processes: a SIGTERM is on its way only to processes that live, and the turn
\* is at a step there is, for any runners and helpers: _terminate_one_shot_process
\* signals no group that is gone.
THEOREM ProcessesTypeCorrect ==
  ProcessInit /\ [][ProcessNext]_processVars => []ProcessTypeOK
<1>1. ProcessTyped /\ [ProcessNext]_processVars => ProcessTyped'
  <2> SUFFICES ASSUME ProcessTyped, [ProcessNext]_processVars PROVE ProcessTyped'
    OBVIOUS
  <2>1. CASE UNCHANGED processVars
    BY <2>1 DEF ProcessTyped, ProcessTypeOK, processVars
  <2> QED
    BY <2>1, ProcessesTyped, TurnTyped, CancelledTyped DEF ProcessNext
<1>2. ProcessTyped => ProcessTypeOK
  BY DEF ProcessTyped
<1> QED
  BY <1>1, <1>2, ProcessStarts, PTL

\* Of Memory: bodies hold entries and litter, a run's file a run, and the lock is
\* held by a writer or nobody.
THEOREM MemoryTypeCorrect == MemoryInit /\ [][MemoryNext]_memoryVars => []MemoryTypeOK
<1>1. MemoryInv => MemoryTypeOK
  <2> SUFFICES ASSUME MemoryInv PROVE MemoryTypeOK
    OBVIOUS
  <2>1. ASSUME NEW n \in Numbers PROVE ToSet(conversations[n].body) \subseteq Entry \cup {Litter}
    <3>1. conversations[n].body \in Seq(Recorded)
      BY DEF MemoryInv, MemoryTyped
    <3>2. \A i \in DOMAIN conversations[n].body : conversations[n].body[i] \in Recorded
      BY <3>1, ElementOfSeq, LenProperties
    <3> QED BY <3>2 DEF ToSet, Recorded
  <2> QED BY <2>1 DEF MemoryTypeOK, MemoryInv, MemoryTyped
<1> QED
  BY <1>1, MemoryStarts, MemoryStep, PTL

\* Of Interactions: only tickets that were made wait or have a menu.
THEOREM InteractionsTypeCorrect == InteractionSpec => []InteractionTypeOK
<1>1. PickInv => InteractionTypeOK
  BY DEF PickInv, PickTyped, InteractionTypeOK
<1> QED
  BY <1>1, PickStarts, PickKeeps, PTL DEF InteractionSpec

\* Of Subagents: a task is at a step of run, in a directory of its own or its
\* persona's name.
THEOREM SubagentsTypeCorrect == SubagentSpec => []SubagentTypeOK
<1>1. TaskInv => SubagentTypeOK
  BY DEF TaskInv, TaskTyped, TaskStages, SubagentTypeOK
<1> QED
  BY <1>1, TaskStarts, TaskKeeps, PTL DEF SubagentSpec

\* Of Cron: every run has a slot, at a minute there is.
THEOREM CronTypeCorrect == CronInit /\ [][CronNext]_cronVars => []CronTypeOK
<1>1. CronInv => CronTypeOK
  BY DEF CronInv, CronTyped
<1> QED
  BY <1>1, CronAlways, PTL

-----------------------------------------------------------------------------
(***************************************************************************)
(* MCParts: the nine side by side.                                         *)
(***************************************************************************)

\* A step of one component is a step of it alone.
LEMMA OneAtATime ==
  ASSUME [PartsNext]_partsVars
  PROVE  /\ [AnswerNext]_answerVars /\ [ChunkNext]_chunkVars /\ [StreamNext]_streamVars
         /\ [ThreadsNext]_threadVars /\ [ProcessNext]_processVars /\ [MemoryNext]_memoryVars
         /\ [InteractionNext]_interactionVars /\ [SubagentNext]_subagentVars
         /\ [CronNext]_cronVars
<1>1. CASE UNCHANGED partsVars
  BY <1>1 DEF partsVars
<1>2. CASE AnswerNext /\ Stays("answer")
  BY <1>2 DEF Stays
<1>3. CASE ChunkNext /\ Stays("chunks")
  BY <1>3 DEF Stays
<1>4. CASE StreamNext /\ Stays("stream")
  BY <1>4 DEF Stays
<1>5. CASE ThreadsNext /\ Stays("threads")
  BY <1>5 DEF Stays
<1>6. CASE ProcessNext /\ Stays("processes")
  BY <1>6 DEF Stays
<1>7. CASE MemoryNext /\ Stays("memory")
  BY <1>7 DEF Stays
<1>8. CASE InteractionNext /\ Stays("interactions")
  BY <1>8 DEF Stays
<1>9. CASE SubagentNext /\ Stays("subagents")
  BY <1>9 DEF Stays
<1>10. CASE CronNext /\ Stays("cron")
  BY <1>10 DEF Stays
<1> QED
  BY <1>1, <1>2, <1>3, <1>4, <1>5, <1>6, <1>7, <1>8, <1>9, <1>10 DEF PartsNext

\* What the run of the nine components does is, seen by each of them, a behaviour
\* of its own specification: what is proved of the components holds of the run.
THEOREM PartsAreThemselves ==
  PartsSpec =>
    /\ AnswerSpec /\ ChunkSpec /\ ThreadsSpec /\ InteractionSpec /\ SubagentSpec
    /\ StreamInit /\ [][StreamNext]_streamVars
    /\ ProcessInit /\ [][ProcessNext]_processVars
    /\ MemoryInit /\ [][MemoryNext]_memoryVars
    /\ CronInit /\ [][CronNext]_cronVars
<1>1. PartsInit =>
        /\ AnswerInit /\ ChunkInit /\ StreamInit /\ ThreadsInit /\ ProcessInit /\ MemoryInit
        /\ InteractionInit /\ SubagentInit /\ CronInit
  BY DEF PartsInit
<1>2. [PartsNext]_partsVars =>
        /\ [AnswerNext]_answerVars /\ [ChunkNext]_chunkVars /\ [StreamNext]_streamVars
        /\ [ThreadsNext]_threadVars /\ [ProcessNext]_processVars /\ [MemoryNext]_memoryVars
        /\ [InteractionNext]_interactionVars /\ [SubagentNext]_subagentVars
        /\ [CronNext]_cronVars
  BY OneAtATime
<1> QED
  BY <1>1, <1>2, PTL DEF PartsSpec, AnswerSpec, ChunkSpec, ThreadsSpec, InteractionSpec, SubagentSpec

\* The nine components are well typed, for every value of their constants and
\* behaviours of any length.
THEOREM PartsTypeCorrect == PartsSpec => []PartsTypeOK
<1>1. /\ AnswerTypeOK /\ ChunkTypeOK /\ StreamTypeOK /\ ThreadsTypeOK /\ ProcessTypeOK
      /\ MemoryTypeOK /\ InteractionTypeOK /\ SubagentTypeOK /\ CronTypeOK
      => PartsTypeOK
  BY DEF PartsTypeOK
<1> QED
  BY <1>1, PartsAreThemselves, AnswerTypeCorrect, ChunkTypeCorrect, StreamTypeCorrect,
     ThreadsTypeCorrect, ProcessesTypeCorrect, MemoryTypeCorrect, InteractionsTypeCorrect,
     SubagentsTypeCorrect, CronTypeCorrect, PTL
=============================================================================
