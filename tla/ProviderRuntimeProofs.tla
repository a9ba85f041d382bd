----------------------- MODULE ProviderRuntimeProofs -----------------------
(***************************************************************************)
(* Proofs about ProviderRuntime for any agents, channels and handlers, any *)
(* number of restarts, wrappers and crashes.                               *)
(*                                                                         *)
(* A new wrapper has a number no reference names yet, and a fresh provider *)
(* session one above all those in use (SidsMinted); a record found for a   *)
(* session comes from its own channel, and a restart finds none because    *)
(* its doubled key is no session key.                                      *)
(***************************************************************************)
EXTENDS ProviderRuntime, TLAPS

\* Every provider session in a record was minted, and the watchdog, whose
\* lookups never find a record, holds none.
SidsMinted ==
  /\ \A s \in StoreKeys : SidOf(records[s]) <= minted
  /\ \A p \in Procs : SidOf(seen[p]) <= minted
  /\ seen[Watchdog] = NoRecord

Typed == TypeOK /\ SidsMinted

-----------------------------------------------------------------------------
LEMMA KeyParts ==
  ASSUME NEW k \in Keys
  PROVE  /\ k[1] \in Agents /\ k[2] \in Channels
         /\ Scope(k[2]) \in StoreKeys
BY DEF Keys, StoreKeys

LEMMA SidType ==
  ASSUME NEW r \in Record \cup {NoRecord}
  PROVE  SidOf(r) \in Nat
BY DEF SidOf, Record

\* A lookup of a session gives its record, one of a doubled key nothing.
LEMMA LookupOwn ==
  ASSUME Typed, NEW k \in Keys
  PROVE  /\ RecordOf(k) = records[Scope(k[2])]
         /\ RecordOf(k) \in Record \cup {NoRecord}
         /\ SidOf(RecordOf(k)) <= minted
BY KeyParts DEF RecordOf, Lookup, Typed, TypeOK, SidsMinted

LEMMA LookupDoubled ==
  ASSUME NEW k \in Keys
  PROVE  Lookup(Scope(Scope(k[2]))) = NoRecord
<1>1. Scope(Scope(k[2])) \notin StoreKeys
  <2>1. SUFFICES ASSUME NEW c \in Channels, Scope(Scope(k[2])) = Scope(c)
                 PROVE  FALSE
    BY DEF StoreKeys
  <2>2. Scope(k[2]) = c
    BY <2>1 DEF Scope
  <2>3. QED
    BY <2>2, KeyParts, RuntimeAssumption
<1>2. QED
  BY <1>1 DEF Lookup

-----------------------------------------------------------------------------
\* What a new wrapper leaves: it is the next in number, and its session is its
\* record's or a fresh one.
LEMMA BuildType ==
  ASSUME Typed, NEW r \in Record \cup {NoRecord}, SidOf(r) <= minted, BuildStarted(r)
  PROVE  /\ built' = built + 1 /\ built' \in Wrappers /\ built' \in 0..MaxWrappers
         /\ minted' \in Nat /\ minted <= minted' /\ minted' <= minted + 1
         /\ alive' \subseteq 1..built'
         /\ sid' \in [Wrappers -> 0..minted']
         /\ hist' \in [Wrappers -> BOOLEAN]
         /\ sid'[built'] = IF SidOf(r) = 0 THEN minted + 1 ELSE SidOf(r)
         /\ SidOf(r) = 0 => minted' = minted + 1
         /\ \A w \in Wrappers : w # built' => sid'[w] = sid[w]
BY SidType, RuntimeAssumption DEF Typed, TypeOK, BuildStarted, Builds, Wrappers

LEMMA StopType ==
  ASSUME Typed, NEW W, StopAll(W)
  PROVE  /\ alive' \subseteq 1..built'
         /\ sid' \in [Wrappers -> 0..minted']
         /\ hist' \in [Wrappers -> BOOLEAN]
         /\ \A w \in Wrappers : sid'[w] \in {0, sid[w]}
         /\ built' = built /\ minted' = minted
<1>1. built' = built /\ minted' = minted /\ alive' \subseteq 1..built'
  BY DEF Typed, TypeOK, StopAll
<1>2. \A w \in Wrappers : sid'[w] \in {0, sid[w]} /\ sid'[w] \in 0..minted
  BY DEF Typed, TypeOK, StopAll
<1>3. sid' \in [Wrappers -> 0..minted']
  BY <1>1, <1>2 DEF StopAll
<1>4. hist' \in [Wrappers -> BOOLEAN]
  BY DEF Typed, TypeOK, StopAll
<1>5. QED
  BY <1>1, <1>2, <1>3, <1>4

LEMMA DroppedType ==
  ASSUME Typed, NEW K, Dropped(K)
  PROVE  /\ wrappers' \in [Keys -> 0..built]
         /\ configs' \subseteq Keys
         /\ restartCounts' \in [Keys -> Nat]
         /\ locks' \in [Keys -> Tasks \cup {NoLock}]
         /\ activity' \in [Keys -> {"none", "recent", "idle"}]
         /\ \A k \in Keys : wrappers'[k] \in {0, wrappers[k]} /\ locks'[k] \in {NoLock, locks[k]}
BY DEF Typed, TypeOK, Dropped

LEMMA EnsureReturnsType ==
  ASSUME Typed, NEW t \in Tasks, built' \in Nat, built <= built', NEW w \in 0..built',
         EnsureReturns(t, w)
  PROVE  /\ mine' \in [Procs -> 0..built']
         /\ locks' \in [Keys -> Tasks \cup {NoLock}]
         /\ myLock' \in [Procs -> Tasks \cup {NoLock}]
         /\ pc' \in [Procs -> Labels]
         /\ mine' = [mine EXCEPT ![t] = w]
         /\ key' = key /\ seen' = seen
<1>1. key[t] \in Keys /\ t \in Procs
  BY DEF Typed, TypeOK, Procs
<1>2. mine' \in [Procs -> 0..built']
  BY <1>1 DEF Typed, TypeOK, EnsureReturns
<1>3. pc' \in [Procs -> Labels]
  BY <1>1 DEF Typed, TypeOK, EnsureReturns, Goto, Labels
<1>4. locks' \in [Keys -> Tasks \cup {NoLock}] /\ myLock' \in [Procs -> Tasks \cup {NoLock}]
  BY <1>1 DEF Typed, TypeOK, EnsureReturns
<1>5. QED
  BY <1>2, <1>3, <1>4 DEF EnsureReturns

LEMMA AskRecordType ==
  ASSUME Typed, NEW t \in Tasks, AskRecord(t)
  PROVE  /\ seen' \in [Procs -> Record \cup {NoRecord}]
         /\ \A p \in Procs : SidOf(seen'[p]) <= minted
         /\ seen'[Watchdog] = NoRecord
         /\ pc' \in [Procs -> Labels]
         /\ seen' = [seen EXCEPT ![t] = RecordOf(key[t])]
         /\ key' = key /\ mine' = mine /\ myLock' = myLock
<1>1. key[t] \in Keys /\ t \in Procs /\ t # Watchdog
  BY RuntimeAssumption DEF Typed, TypeOK, Procs
<1>2. QED
  BY <1>1, LookupOwn DEF Typed, TypeOK, SidsMinted, AskRecord, Goto, Labels, Procs

\* An attempt to restart, by a handler for its own key or by the watchdog.
LEMMA TryRestartType ==
  ASSUME Typed, NEW p \in Procs, NEW k \in Keys, NEW C \in SUBSET Keys, TryRestart(p, k, C)
  PROVE  /\ wrappers' \in [Keys -> 0..built]
         /\ \A j \in Keys : wrappers'[j] \in {0, wrappers[j]}
         /\ configs' \subseteq Keys
         /\ restartCounts' \in [Keys -> Nat]
         /\ pc' \in [Procs -> Labels]
         /\ key' \in [Procs -> Keys] /\ \A q \in Procs : q # p => key'[q] = key[q]
         /\ seen' \in [Procs -> Record \cup {NoRecord}]
         /\ \A q \in Procs : SidOf(seen'[q]) <= minted
         /\ seen'[Watchdog] = NoRecord
         /\ mine' = mine /\ myLock' = myLock
         /\ key'[p] \in {key[p], k}
         /\ \/ seen' = seen
            \/ p \in Tasks /\ key' = key /\ seen' = [seen EXCEPT ![p] = RecordOf(key[p])]
         /\ UNCHANGED <<locks, activity, objects, records, crashes>>
<1>1. restartCounts' \in [Keys -> Nat] /\ UNCHANGED <<locks, activity, objects, records, crashes>>
  BY DEF Typed, TypeOK, TryRestart
<1>2. CASE restartCounts'[k] > MaxRestart
  <2>1. /\ wrappers' = [wrappers EXCEPT ![k] = 0] /\ configs' = C \ {k}
        /\ RestartGivesNone(p)
    BY <1>2 DEF TryRestart
  <2>2. CASE p = Watchdog
    BY <1>1, <2>1, <2>2 DEF Typed, TypeOK, SidsMinted, RestartGivesNone, Goto, Labels
  <2>3. CASE p # Watchdog
    <3>1. p \in Tasks /\ AskRecord(p)
      BY <2>1, <2>3 DEF RestartGivesNone, Procs
    <3>2. QED
      BY <1>1, <2>1, <3>1, AskRecordType DEF Typed, TypeOK
  <2>4. QED
    BY <2>2, <2>3
<1>3. CASE ~(restartCounts'[k] > MaxRestart)
  BY <1>1, <1>3 DEF Typed, TypeOK, SidsMinted, TryRestart, Goto, Labels
<1>4. QED
  BY <1>2, <1>3

-----------------------------------------------------------------------------
\* The registry and the records keep their types through every step.
LEMMA TypedInit == Init => Typed
<1>1. SUFFICES ASSUME Init PROVE Typed
  OBVIOUS
<1>2. TypeOK
  BY <1>1, RuntimeAssumption DEF Init, TypeOK, Procs, Wrappers, Labels
<1>3. SidsMinted
  BY <1>1 DEF Init, SidsMinted, SidOf, Procs
<1>4. QED
  BY <1>2, <1>3 DEF Typed

LEMMA TypedEnsure ==
  ASSUME Typed, NEW t \in Tasks, EnsureStep(t)
  PROVE  Typed'
<1> USE DEF Typed
<1>k. t \in Procs /\ t # Watchdog /\ key[t] \in Keys
  BY RuntimeAssumption DEF TypeOK, Procs
<1>1. CASE EnsureReuse(t)
  <2>1. built' = built /\ EnsureReturns(t, wrappers[key[t]]) /\ wrappers[key[t]] \in 0..built'
    BY <1>1, <1>k DEF EnsureReuse, TypeOK, objects
  <2>2. TypeOK'
    BY <1>1, <1>k, <2>1, EnsureReturnsType DEF EnsureReuse, TypeOK, objects
  <2>3. SidsMinted'
    BY <1>1, <2>1, EnsureReturnsType DEF EnsureReuse, TypeOK, SidsMinted, objects
  <2>4. QED
    BY <2>2, <2>3
<1>2. CASE EnsureDead(t)
  <2>1. TryRestart(t, key[t], configs \cup {key[t]}) /\ configs \cup {key[t]} \in SUBSET Keys
    BY <1>2, <1>k DEF EnsureDead, TypeOK
  <2>2. TypeOK'
    BY <1>2, <1>k, <2>1, TryRestartType, ZenonT(60) DEF EnsureDead, TypeOK, objects
  <2>3. SidsMinted'
    BY <1>2, <1>k, <2>1, TryRestartType DEF EnsureDead, TypeOK, SidsMinted, objects
  <2>4. QED
    BY <2>2, <2>3
<1>3. CASE EnsureMissing(t)
  <2>1. AskRecord(t)
    BY <1>3 DEF EnsureMissing
  <2>2. TypeOK'
    BY <1>3, <2>1, AskRecordType DEF EnsureMissing, TypeOK, registry, objects
  <2>3. SidsMinted'
    BY <1>3, <2>1, AskRecordType DEF EnsureMissing, SidsMinted, registry, objects
  <2>4. QED
    BY <2>2, <2>3
<1>4. CASE EnsureStart(t)
  <2> DEFINE k == key[t]
             r == [agent |-> k[1], sid |-> sid'[built']]
  <2>1. BuildStarted(seen[t]) /\ seen[t] \in Record \cup {NoRecord} /\ SidOf(seen[t]) <= minted
    BY <1>4, <1>k DEF EnsureStart, TypeOK, SidsMinted
  <2>2. /\ built' = built + 1 /\ built' \in Wrappers /\ built' \in 0..MaxWrappers
        /\ minted' \in Nat /\ minted <= minted'
        /\ alive' \subseteq 1..built' /\ sid' \in [Wrappers -> 0..minted']
        /\ hist' \in [Wrappers -> BOOLEAN]
    BY <2>1, BuildType
  <2>3. r \in Record /\ SidOf(r) = sid'[built'] /\ sid'[built'] <= minted'
    BY <1>k, <2>2, KeyParts, RuntimeAssumption DEF Record, SidOf
  <2>4. records' = [records EXCEPT ![Scope(k[2])] = r]
    BY <1>4 DEF EnsureStart
  <2>5. records' \in [StoreKeys -> Record \cup {NoRecord}]
    BY <2>3, <2>4 DEF TypeOK
  <2>6. wrappers' \in [Keys -> 0..built'] /\ mine' \in [Procs -> 0..built']
    BY <1>4, <1>k, <2>2 DEF EnsureStart, TypeOK
  <2>7. TypeOK'
    BY <1>4, <1>k, <2>2, <2>5, <2>6 DEF EnsureStart, TypeOK, Goto, Labels
  <2>8. \A p \in Procs : seen'[p] \in {NoRecord, seen[p]}
    BY <1>4, <1>k DEF EnsureStart, TypeOK
  <2>9. \A p \in Procs : SidOf(seen'[p]) <= minted'
    <3>1. TAKE p \in Procs
    <3>2. SidOf(seen[p]) \in Nat /\ SidOf(seen[p]) <= minted /\ SidOf(NoRecord) = 0
      BY SidType DEF TypeOK, SidsMinted, SidOf
    <3>3. QED
      BY <2>2, <2>8, <3>2 DEF TypeOK
  <2>10. \A s \in StoreKeys : SidOf(records'[s]) <= minted'
    <3>1. TAKE s \in StoreKeys
    <3>2. records'[s] \in {r, records[s]}
      BY <2>4 DEF TypeOK
    <3>3. SidOf(records[s]) \in Nat /\ SidOf(records[s]) <= minted
      BY SidType DEF TypeOK, SidsMinted
    <3>4. QED
      BY <2>2, <2>3, <3>2, <3>3 DEF TypeOK
  <2>11. seen'[Watchdog] = NoRecord
    BY <2>8 DEF SidsMinted, Procs
  <2>12. QED
    BY <2>7, <2>9, <2>10, <2>11 DEF SidsMinted
<1>5. CASE EnsureUpserted(t)
  <2>1. built' = built /\ EnsureReturns(t, mine[t]) /\ mine[t] \in 0..built'
    BY <1>5, <1>k DEF EnsureUpserted, TypeOK, objects
  <2>2. TypeOK'
    BY <1>5, <2>1, EnsureReturnsType DEF EnsureUpserted, TypeOK, objects
  <2>3. SidsMinted'
    BY <1>5, <2>1, EnsureReturnsType DEF EnsureUpserted, TypeOK, SidsMinted, objects
  <2>4. QED
    BY <2>2, <2>3
<1>6. QED
  BY <1>1, <1>2, <1>3, <1>4, <1>5 DEF EnsureStep

LEMMA TypedRestart ==
  ASSUME Typed, NEW p \in Procs, RestartStep(p) \/ RestartFault(p)
  PROVE  Typed'
<1> USE DEF Typed
<1>k. key[p] \in Keys /\ (p # Watchdog => p \in Tasks)
  BY DEF TypeOK, Procs
<1>1. CASE RestartWakes(p) /\ key[p] \notin configs
  <2>1. RestartGivesNone(p) /\ UNCHANGED <<registry, objects, records, todo, crashes>>
    BY <1>1 DEF RestartWakes
  <2>2. CASE p = Watchdog
    BY <2>1, <2>2 DEF RestartGivesNone, TypeOK, SidsMinted, Goto, Labels, registry, objects
  <2>3. CASE p # Watchdog
    <3>1. AskRecord(p) /\ p \in Tasks
      BY <1>k, <2>1, <2>3 DEF RestartGivesNone
    <3>2. QED
      BY <2>1, <3>1, AskRecordType DEF TypeOK, SidsMinted, registry, objects
  <2>4. QED
    BY <2>2, <2>3
<1>2. CASE RestartWakes(p) /\ key[p] \in configs
  <2>1. seen' = [seen EXCEPT ![p] = NoRecord]
    BY <1>k, <1>2, LookupDoubled DEF RestartWakes
  <2>2. SidOf(NoRecord) = 0
    BY DEF SidOf
  <2>3. QED
    BY <1>2, <2>1, <2>2 DEF RestartWakes, TypeOK, SidsMinted, Goto, Labels, registry, objects
<1>3. CASE RestartStarts(p)
  <2>1. BuildStarted(seen[p]) /\ seen[p] \in Record \cup {NoRecord} /\ SidOf(seen[p]) <= minted
    BY <1>3 DEF RestartStarts, TypeOK, SidsMinted
  <2>2. /\ built' = built + 1 /\ built' \in Wrappers /\ built' \in 0..MaxWrappers
        /\ minted' \in Nat /\ minted <= minted'
        /\ alive' \subseteq 1..built' /\ sid' \in [Wrappers -> 0..minted']
        /\ hist' \in [Wrappers -> BOOLEAN]
    BY <2>1, BuildType
  <2>3. wrappers' \in [Keys -> 0..built']
    BY <1>3, <1>k, <2>2 DEF RestartStarts, TypeOK
  <2>4. /\ mine' \in [Procs -> 0..built'] /\ locks' \in [Keys -> Tasks \cup {NoLock}]
        /\ myLock' \in [Procs -> Tasks \cup {NoLock}] /\ pc' \in [Procs -> Labels]
        /\ key' = key /\ seen' = seen
    <3>1. CASE p = Watchdog
      BY <1>3, <2>2, <3>1 DEF RestartStarts, TypeOK, Goto, Labels
    <3>2. CASE p # Watchdog
      <4>1. p \in Tasks /\ EnsureReturns(p, built') /\ built <= built' /\ built' \in Nat
        BY <1>3, <1>k, <2>2, <3>2 DEF RestartStarts, TypeOK
      <4>2. QED
        BY <4>1, EnsureReturnsType
    <3>3. QED
      BY <3>1, <3>2
  <2>5. TypeOK'
    BY <1>3, <2>2, <2>3, <2>4 DEF RestartStarts, TypeOK
  <2>6. \A q \in Procs : SidOf(seen'[q]) <= minted'
    BY <2>2, <2>4, SidType DEF TypeOK, SidsMinted
  <2>7. \A s \in StoreKeys : SidOf(records'[s]) <= minted'
    BY <1>3, <2>2, SidType DEF RestartStarts, TypeOK, SidsMinted
  <2>8. QED
    BY <2>4, <2>5, <2>6, <2>7 DEF SidsMinted
<1>4. CASE RestartFails(p)
  <2>1. TryRestart(p, key[p], configs) /\ configs \in SUBSET Keys
    BY <1>4 DEF RestartFails, TypeOK
  <2>2. QED
    BY <1>4, <1>k, <2>1, TryRestartType, ZenonT(60) DEF RestartFails, TypeOK, SidsMinted, objects
<1>5. CASE RestartRaises(p)
  BY <1>5 DEF RestartRaises, TypeOK, SidsMinted, Goto, Labels, registry, objects
<1>6. QED
  BY <1>1, <1>2, <1>3, <1>4, <1>5 DEF RestartStep, RestartFault

LEMMA TypedReset ==
  ASSUME Typed, NEW t \in Tasks, ResetStep(t)
  PROVE  Typed'
<1> USE DEF Typed
<1>k. t \in Procs /\ key[t] \in Keys
  BY DEF TypeOK, Procs
<1>1. CASE ResetSession(t)
  <2> DEFINE s0 == Scope(key[t][2])
  <2>1. Dropped({key[t]}) /\ StopAll({wrappers[key[t]]})
        /\ records' = [records EXCEPT ![s0] = NoRecord]
    BY <1>1 DEF ResetSession
  <2>2. records' \in [StoreKeys -> Record \cup {NoRecord}]
        /\ \A s \in StoreKeys : records'[s] \in {NoRecord, records[s]}
    BY <2>1 DEF TypeOK
  <2>3. TypeOK'
    BY <1>1, <2>1, <2>2, StopType, DroppedType DEF ResetSession, TypeOK, Goto, Labels
  <2>4. SidOf(NoRecord) = 0 /\ minted' = minted /\ minted \in Nat
    BY <2>1, StopType DEF SidOf, TypeOK
  <2>5. SidsMinted'
    BY <1>1, <2>2, <2>4 DEF ResetSession, SidsMinted
  <2>6. QED
    BY <2>3, <2>5
<1>2. CASE Cleared(t)
  BY <1>2, <1>k DEF Cleared, TypeOK, SidsMinted, Goto, Labels, registry, objects
<1>3. QED
  BY <1>1, <1>2 DEF ResetStep

LEMMA TypedFail ==
  ASSUME Typed, NEW t \in Tasks, FailStep(t)
  PROVE  Typed'
<1> USE DEF Typed
<1>k. t \in Procs /\ t # Watchdog
  BY RuntimeAssumption DEF Procs
<1>1. CASE EnsureStartFails(t)
  <2>1. SidOf(NoRecord) = 0
    BY DEF SidOf
  <2>2. QED
    BY <1>1, <1>k, <2>1 DEF EnsureStartFails, TypeOK, SidsMinted, Goto, Labels, registry, objects
<1>2. CASE EnsureUpsertFails(t) \/ ClearFails(t)
  BY <1>2, <1>k, ZenonT(60)
     DEF EnsureUpsertFails, ClearFails, TypeOK, SidsMinted, Goto, Labels, registry, objects
<1>3. CASE RestartFault(t)
  BY <1>3, <1>k, TypedRestart
<1>4. QED
  BY <1>1, <1>2, <1>3 DEF FailStep

LEMMA TypedWatchdog ==
  ASSUME Typed, WatchdogStep \/ Shutdown
  PROVE  Typed'
<1> USE DEF Typed
<1>k. Watchdog \in Procs
  BY DEF Procs
<1>1. CASE WatchdogLooks \/ CheckedAll \/ CleanedAll
  BY <1>1, <1>k, ZenonT(60) DEF WatchdogLooks, CheckedAll, CleanedAll, Registered, TypeOK, SidsMinted, Goto,
                    Labels, registry, objects
<1>2. ASSUME NEW k \in Keys, CheckFine(k) \/ CleanActive(k)
      PROVE  Typed'
  BY <1>2 DEF CheckFine, CleanActive, TypeOK, SidsMinted, registry, objects, handlers
<1>3. ASSUME NEW k \in Keys, CheckDead(k)
      PROVE  Typed'
  <2>1. TryRestart(Watchdog, k, configs) /\ configs \in SUBSET Keys
    BY <1>3 DEF CheckDead, TypeOK
  <2>2. QED
    BY <1>3, <1>k, <2>1, TryRestartType, ZenonT(60) DEF CheckDead, TypeOK, SidsMinted, objects
<1>4. ASSUME NEW k \in Keys, CleanIdle(k)
      PROVE  Typed'
  <2>1. Dropped({k}) /\ StopAll({wrappers[k]})
    BY <1>4 DEF CleanIdle
  <2>2. QED
    BY <1>4, <2>1, StopType, DroppedType DEF CleanIdle, TypeOK, SidsMinted, handlers
<1>5. CASE Shutdown
  <2>1. Dropped(Keys) /\ StopAll({wrappers[k] : k \in Keys})
    BY <1>5 DEF Shutdown
  <2>2. QED
    BY <1>5, <1>k, <2>1, StopType, DroppedType DEF Shutdown, TypeOK, SidsMinted, Goto, Labels
<1>6. QED
  BY <1>1, <1>2, <1>3, <1>4, <1>5 DEF WatchdogStep

LEMMA TypedStep ==
  ASSUME Typed, [Next]_runtimeVars
  PROVE  Typed'
<1> USE DEF Typed
<1>1. ASSUME NEW t \in Tasks, Begin(t) \/ Leave(t)
      PROVE  Typed'
  BY <1>1, ZenonT(60) DEF Begin, Leave, TypeOK, SidsMinted, Goto, Labels, registry, objects, Procs
<1>2. ASSUME NEW t \in Tasks, HandlerStep(t)
      PROVE  Typed'
  BY <1>1, <1>2, TypedEnsure, TypedRestart, TypedReset, TypedFail DEF HandlerStep, Procs
<1>3. CASE RestartStep(Watchdog) \/ RestartFault(Watchdog)
  BY <1>3, TypedRestart DEF Procs
<1>4. ASSUME NEW w \in Wrappers, WrapperCrashes(w)
      PROVE  Typed'
  BY <1>4, RuntimeAssumption DEF WrapperCrashes, TypeOK, SidsMinted, registry, handlers
<1>5. ASSUME NEW k \in Keys, GoesIdle(k)
      PROVE  Typed'
  BY <1>5 DEF GoesIdle, TypeOK, SidsMinted, objects, handlers
<1>6. CASE UNCHANGED runtimeVars
  BY <1>6 DEF runtimeVars, registry, objects, handlers, TypeOK, SidsMinted
<1>7. QED
  BY <1>1, <1>2, <1>3, <1>4, <1>5, <1>6, TypedWatchdog DEF Next

\* The registry, the wrapper objects, the records and every handler keep
\* their types.
THEOREM TypeCorrect == Spec => []TypeOK
<1>1. Typed /\ [Next]_runtimeVars => Typed'
  BY TypedStep
<1>2. Typed => TypeOK
  BY DEF Typed
<1>3. QED
  BY <1>1, <1>2, TypedInit, PTL DEF Spec

-----------------------------------------------------------------------------
\* Isolation.  A step either only drops references, or hands a handler what
\* its own key has, or brings in a wrapper nobody refers to.
KeysKept == \A t \in Tasks : key'[t] = key[t]

LEMMA IsolatedDrop ==
  ASSUME Typed, Isolated, KeysKept, mine' = mine, myLock' = myLock,
         \A k \in Keys : wrappers'[k] \in {0, wrappers[k]} /\ locks'[k] \in {NoLock, locks[k]}
  PROVE  Isolated'
<1>1. \A t \in Tasks : mine[t] \in Nat /\ myLock[t] \in Tasks \cup {NoLock}
  BY DEF Typed, TypeOK, Procs
<1>2. \A k \in Keys : wrappers[k] \in Nat /\ locks[k] \in Tasks \cup {NoLock}
  BY DEF Typed, TypeOK
<1>3. QED
  BY <1>1, <1>2 DEF Isolated, KeysKept

LEMMA IsolatedReturn ==
  ASSUME Typed, Isolated, NEW t \in Tasks, NEW w, EnsureReturns(t, w), wrappers' = wrappers,
         w \in {wrappers[key[t]], mine[t]}
  PROVE  Isolated'
<1> DEFINE k == key[t]
<1>1. k \in Keys /\ t \in Procs /\ key' = key
  BY DEF Typed, TypeOK, Procs, EnsureReturns
<1>2. mine' = [mine EXCEPT ![t] = w]
  BY DEF EnsureReturns
<1>3. \A u \in Tasks : u \in Procs /\ mine'[u] = IF u = t THEN w ELSE mine[u]
  BY <1>2 DEF Typed, TypeOK, Procs
<1>4. \/ locks' = locks /\ myLock' = myLock
      \/ /\ locks' = [locks EXCEPT ![k] = IF @ = NoLock THEN t ELSE @]
         /\ myLock' = [myLock EXCEPT ![t] = locks'[k]]
  BY DEF EnsureReturns
<1>5. \A j \in Keys : locks'[j] # NoLock => key[locks'[j]] = j
  <2>1. \A j \in Keys : locks'[j] = locks[j] \/ (j = k /\ locks'[j] = t)
    BY <1>1, <1>4 DEF Typed, TypeOK
  <2>2. QED
    BY <1>1, <2>1 DEF Isolated
<1>6. \A u \in Tasks : myLock'[u] # NoLock => key[myLock'[u]] = key[u]
  <2>1. \A u \in Tasks : myLock'[u] = myLock[u] \/ (u = t /\ myLock'[u] = locks'[k])
    BY <1>1, <1>4 DEF Typed, TypeOK, Procs
  <2>2. QED
    BY <1>1, <1>5, <2>1 DEF Isolated
<1>7. /\ \A u \in Tasks, j \in Keys : mine'[u] = wrappers[j] /\ mine'[u] # 0 => key[u] = j
      /\ \A u, v \in Tasks : mine'[u] = mine'[v] /\ mine'[u] # 0 => key[u] = key[v]
  <2>1. \A u \in Tasks : key[u] \in Keys
    BY DEF Typed, TypeOK, Procs
  <2>2. CASE w = wrappers[k]
    BY <1>1, <1>3, <2>1, <2>2 DEF Isolated
  <2>3. CASE w = mine[t]
    BY <1>1, <1>3, <2>1, <2>3 DEF Isolated
  <2>4. QED
    BY <2>2, <2>3
<1>8. QED
  BY <1>1, <1>5, <1>6, <1>7 DEF Isolated

\* A new wrapper is none of those referred to.
LEMMA BuiltIsNew ==
  ASSUME Typed, built' = built + 1
  PROVE  /\ \A k \in Keys : wrappers[k] # built'
         /\ \A p \in Procs : mine[p] # built'
         /\ built' # 0
<1>1. built \in Nat
  BY DEF Typed, TypeOK
<1>2. \A k \in Keys : wrappers[k] \in 0..built
  BY DEF Typed, TypeOK
<1>3. \A p \in Procs : mine[p] \in 0..built
  BY DEF Typed, TypeOK
<1>4. QED
  BY <1>1, <1>2, <1>3

\* The new wrapper under the key of p, in the hands of p if it is a handler.
LEMMA IsolatedBuild ==
  ASSUME Typed, Isolated, NEW p \in Procs, KeysKept, built' = built + 1,
         wrappers' = [wrappers EXCEPT ![key[p]] = built'],
         \A t \in Tasks : mine'[t] = mine[t] \/ (t = p /\ mine'[t] = built'),
         \A k \in Keys : locks'[k] # NoLock => key[locks'[k]] = k,
         \A k \in Keys : locks'[k] \in Tasks \cup {NoLock},
         \A t \in Tasks : myLock'[t] \in Tasks \cup {NoLock},
         \A t \in Tasks : myLock'[t] # NoLock => key[myLock'[t]] = key[t]
  PROVE  Isolated'
<1> DEFINE k == key[p]
<1>1. k \in Keys /\ \A t \in Tasks : t \in Procs /\ key[t] \in Keys
  BY DEF Typed, TypeOK, Procs
<1>2. \A j \in Keys : wrappers'[j] = IF j = k THEN built' ELSE wrappers[j]
  BY <1>1 DEF Typed, TypeOK
<1>3. /\ \A j \in Keys : wrappers[j] # built'
      /\ \A q \in Procs : mine[q] # built'
  BY BuiltIsNew
<1>4. \A i, j \in Keys : wrappers'[i] = wrappers'[j] /\ wrappers'[i] # 0 => i = j
  BY <1>2, <1>3 DEF Isolated
<1>5. \A t \in Tasks, j \in Keys : mine'[t] = wrappers'[j] /\ mine'[t] # 0 => key[t] = j
  BY <1>1, <1>2, <1>3 DEF Isolated
<1>6. \A t, u \in Tasks : mine'[t] = mine'[u] /\ mine'[t] # 0 => key[t] = key[u]
  BY <1>1, <1>3 DEF Isolated
<1>7. QED
  BY <1>4, <1>5, <1>6 DEF Isolated, KeysKept

LEMMA IsolatedTry ==
  ASSUME Typed, Isolated, NEW p \in Procs, NEW k \in Keys, NEW C \in SUBSET Keys,
         TryRestart(p, k, C), p \in Tasks => k = key[p]
  PROVE  Isolated'
<1>1. KeysKept
  BY TryRestartType DEF KeysKept, Procs
<1>2. /\ mine' = mine /\ myLock' = myLock /\ locks' = locks
      /\ \A j \in Keys : wrappers'[j] \in {0, wrappers[j]}
  BY TryRestartType
<1>3. QED
  BY <1>1, <1>2, IsolatedDrop

LEMMA IsolatedEnsure ==
  ASSUME Typed, Isolated, NEW t \in Tasks, EnsureStep(t)
  PROVE  Isolated'
<1>k. t \in Procs /\ key[t] \in Keys
  BY DEF Typed, TypeOK, Procs
<1>1. CASE EnsureReuse(t)
  BY <1>1, IsolatedReturn DEF EnsureReuse
<1>2. CASE EnsureDead(t)
  <2>1. TryRestart(t, key[t], configs \cup {key[t]}) /\ configs \cup {key[t]} \in SUBSET Keys
    BY <1>2, <1>k DEF EnsureDead, Typed, TypeOK
  <2>2. QED
    BY <1>k, <2>1, IsolatedTry
<1>3. CASE EnsureMissing(t)
  BY <1>3 DEF EnsureMissing, AskRecord, registry, Isolated
<1>4. CASE EnsureStart(t)
  <2>1. built' = built + 1 /\ KeysKept /\ wrappers' = [wrappers EXCEPT ![key[t]] = built']
        /\ locks' = locks /\ myLock' = myLock
    BY <1>4 DEF EnsureStart, BuildStarted, Builds, KeysKept
  <2>2. \A u \in Tasks : mine'[u] = mine[u] \/ (u = t /\ mine'[u] = built')
    BY <1>4 DEF EnsureStart, Typed, TypeOK, Procs
  <2>3. /\ \A k \in Keys : locks'[k] # NoLock => key[locks'[k]] = k
        /\ \A k \in Keys : locks'[k] \in Tasks \cup {NoLock}
        /\ \A u \in Tasks : myLock'[u] \in Tasks \cup {NoLock}
        /\ \A u \in Tasks : myLock'[u] # NoLock => key[myLock'[u]] = key[u]
    BY <2>1 DEF Isolated, Typed, TypeOK, Procs
  <2>4. QED
    BY <1>k, <2>1, <2>2, <2>3, IsolatedBuild
<1>5. CASE EnsureUpserted(t)
  BY <1>5, IsolatedReturn DEF EnsureUpserted
<1>6. QED
  BY <1>1, <1>2, <1>3, <1>4, <1>5 DEF EnsureStep

LEMMA IsolatedRestart ==
  ASSUME Typed, Isolated, NEW p \in Procs, RestartStep(p) \/ RestartFault(p)
  PROVE  Isolated'
<1>k. key[p] \in Keys /\ (p # Watchdog => p \in Tasks)
  BY DEF Typed, TypeOK, Procs
<1>1. CASE RestartWakes(p)
  BY <1>1 DEF RestartWakes, RestartGivesNone, AskRecord, registry, Isolated
<1>2. CASE RestartStarts(p)
  <2>1. built' = built + 1 /\ KeysKept /\ wrappers' = [wrappers EXCEPT ![key[p]] = built']
    BY <1>2 DEF RestartStarts, BuildStarted, Builds, KeysKept, EnsureReturns
  <2>2. /\ \A t \in Tasks : mine'[t] = mine[t] \/ (t = p /\ mine'[t] = built')
        /\ \A k \in Keys : locks'[k] = locks[k] \/ (k = key[p] /\ locks'[k] = p /\ p \in Tasks)
        /\ \A t \in Tasks : \/ myLock'[t] = myLock[t]
                            \/ t = p /\ myLock'[t] = locks'[key[p]]
    <3>1. CASE p = Watchdog
      BY <1>2, <3>1 DEF RestartStarts
    <3>2. CASE p # Watchdog
      <4>1. EnsureReturns(p, built') /\ p \in Tasks
        BY <1>2, <1>k, <3>2 DEF RestartStarts
      <4>2. QED
        BY <1>k, <4>1 DEF EnsureReturns, Typed, TypeOK, Procs
    <3>3. QED
      BY <3>1, <3>2
  <2>3. /\ \A k \in Keys : locks'[k] # NoLock => key[locks'[k]] = k
        /\ \A k \in Keys : locks'[k] \in Tasks \cup {NoLock}
    BY <1>k, <2>2 DEF Isolated, Typed, TypeOK
  <2>4. /\ \A t \in Tasks : myLock'[t] \in Tasks \cup {NoLock}
        /\ \A t \in Tasks : myLock'[t] # NoLock => key[myLock'[t]] = key[t]
    BY <1>k, <2>2, <2>3 DEF Isolated, Typed, TypeOK, Procs
  <2>5. QED
    BY <2>1, <2>2, <2>3, <2>4, IsolatedBuild
<1>3. CASE RestartFails(p)
  <2>1. TryRestart(p, key[p], configs) /\ configs \in SUBSET Keys
    BY <1>3 DEF RestartFails, Typed, TypeOK
  <2>2. QED
    BY <1>k, <2>1, IsolatedTry
<1>4. CASE RestartRaises(p)
  BY <1>4 DEF RestartRaises, registry, Isolated
<1>5. QED
  BY <1>1, <1>2, <1>3, <1>4 DEF RestartStep, RestartFault

LEMMA IsolatedStep ==
  ASSUME Typed, Isolated, [Next]_runtimeVars
  PROVE  Isolated'
<1> DEFINE Kept == wrappers' = wrappers /\ locks' = locks /\ mine' = mine /\ myLock' = myLock
                   /\ key' = key
<1>0. ASSUME Kept PROVE Isolated'
  BY <1>0 DEF Isolated
<1>1. ASSUME NEW t \in Tasks, Begin(t) \/ Leave(t)
      PROVE  Isolated'
  <2>1. Kept
    BY <1>1 DEF Begin, Leave, registry
  <2>2. QED
    BY <1>0, <2>1
<1>2. ASSUME NEW t \in Tasks, HandlerStep(t)
      PROVE  Isolated'
  <2>k. t \in Procs /\ key[t] \in Keys
    BY DEF Typed, TypeOK, Procs
  <2>1. CASE ResetSession(t)
    <3>1. KeysKept /\ mine' = mine /\ myLock' = myLock /\ Dropped({key[t]})
      BY <2>1 DEF ResetSession, KeysKept
    <3>2. QED
      BY <3>1, DroppedType, IsolatedDrop
  <2>2. CASE Cleared(t) \/ EnsureStartFails(t) \/ EnsureUpsertFails(t) \/ ClearFails(t)
    <3>1. Kept
      BY <2>2 DEF Cleared, EnsureStartFails, EnsureUpsertFails, ClearFails, registry
    <3>2. QED
      BY <1>0, <3>1
  <2>3. QED
    BY <1>1, <1>2, <2>k, <2>1, <2>2, IsolatedEnsure, IsolatedRestart
       DEF HandlerStep, ResetStep, FailStep
<1>3. CASE RestartStep(Watchdog) \/ RestartFault(Watchdog)
  BY <1>3, IsolatedRestart DEF Procs
<1>4. CASE WatchdogLooks \/ CheckedAll \/ CleanedAll
  <2>1. Kept
    BY <1>4 DEF WatchdogLooks, CheckedAll, CleanedAll, registry
  <2>2. QED
    BY <1>0, <2>1
<1>5. ASSUME NEW k \in Keys, CheckFine(k) \/ CleanActive(k) \/ GoesIdle(k)
      PROVE  Isolated'
  <2>1. Kept
    BY <1>5 DEF CheckFine, CleanActive, GoesIdle, registry, handlers
  <2>2. QED
    BY <1>0, <2>1
<1>6. ASSUME NEW k \in Keys, CheckDead(k)
      PROVE  Isolated'
  <2>1. TryRestart(Watchdog, k, configs) /\ configs \in SUBSET Keys /\ Watchdog \in Procs
    BY <1>6 DEF CheckDead, Typed, TypeOK, Procs
  <2>2. QED
    BY <2>1, IsolatedTry, RuntimeAssumption
<1>7. ASSUME NEW K, Dropped(K), mine' = mine, myLock' = myLock, key' = key
      PROVE  Isolated'
  BY <1>7, DroppedType, IsolatedDrop DEF KeysKept
<1>8. ASSUME NEW k \in Keys, CleanIdle(k)
      PROVE  Isolated'
  BY <1>7, <1>8 DEF CleanIdle, handlers
<1>9. CASE Shutdown
  BY <1>7, <1>9 DEF Shutdown
<1>10. ASSUME NEW w \in Wrappers, WrapperCrashes(w)
       PROVE  Isolated'
  <2>1. Kept
    BY <1>10 DEF WrapperCrashes, registry, handlers
  <2>2. QED
    BY <1>0, <2>1
<1>11. CASE UNCHANGED runtimeVars
  <2>1. Kept
    BY <1>11 DEF runtimeVars, registry, handlers
  <2>2. QED
    BY <1>0, <2>1
<1>12. QED
  BY <1>1, <1>2, <1>3, <1>4, <1>5, <1>6, <1>8, <1>9, <1>10, <1>11 DEF Next, WatchdogStep

LEMMA IsolatedInit == Init => Isolated
BY DEF Init, Isolated, Procs

\* No two sessions ever share a wrapper or a lock.
THEOREM SessionsIsolated == Spec => []Isolated
<1>1. Typed /\ Isolated /\ [Next]_runtimeVars => (Typed /\ Isolated)'
  BY TypedStep, IsolatedStep
<1>2. QED
  BY <1>1, TypedInit, IsolatedInit, PTL DEF Spec

-----------------------------------------------------------------------------
\* Separate channels.  A step of p gives p's channel what that channel had, or
\* a fresh provider session, and takes from the others.

LEMMA SidsBounded ==
  ASSUME Typed, NEW c \in Channels, NEW s \in SidsOf(c)
  PROVE  s \in 0..minted
<1>1. \A r \in Record \cup {NoRecord} : SidOf(r) \in Nat
  BY SidType
<1>2. Scope(c) \in StoreKeys
  BY DEF StoreKeys
<1>3. s = SidOf(records[Scope(c)]) => s \in 0..minted
  BY <1>1, <1>2 DEF Typed, TypeOK, SidsMinted
<1>w. \A w \in 0..built : w # 0 => sid[w] \in 0..minted
  BY RuntimeAssumption DEF Typed, TypeOK, Wrappers
<1>4. \A k \in Keys : wrappers[k] # 0 => sid[wrappers[k]] \in 0..minted
  BY <1>w DEF Typed, TypeOK
<1>5. \A t \in Tasks : mine[t] # 0 => sid[mine[t]] \in 0..minted
  BY <1>w DEF Typed, TypeOK, Procs
<1>6. \A p \in Procs : SidOf(seen[p]) \in 0..minted
  BY <1>1 DEF Typed, TypeOK, SidsMinted
<1>7. QED
  BY <1>3, <1>4, <1>5, <1>6 DEF SidsOf

LEMMA SeparateGrow ==
  ASSUME Typed, ChannelsSeparate, NEW c0,
         \A c \in Channels : \A s \in SidsOf(c)' :
           s \in SidsOf(c) \/ s = 0 \/ (c = c0 /\ s = minted + 1)
  PROVE  ChannelsSeparate'
<1>1. SUFFICES ASSUME NEW c \in Channels, NEW d \in Channels, c # d,
                      NEW s, s \in SidsOf(c)', s \in SidsOf(d)', s # 0
               PROVE  FALSE
  BY DEF ChannelsSeparate
<1>2. s \in SidsOf(c) \/ (c = c0 /\ s = minted + 1)
  BY <1>1
<1>3. s \in SidsOf(d) \/ (d = c0 /\ s = minted + 1)
  BY <1>1
<1>4. minted \in Nat
  BY DEF Typed, TypeOK
<1>5. ~(s \in SidsOf(c) /\ s \in SidsOf(d))
  BY <1>1 DEF ChannelsSeparate
<1>6. s \in SidsOf(c) \/ s \in SidsOf(d) => s \in 0..minted
  BY SidsBounded
<1>7. QED
  BY <1>1, <1>2, <1>3, <1>4, <1>5, <1>6

\* What a step of p may hand out: what its own session has, or a fresh
\* provider session.
Give(p) ==
  {0, minted + 1, SidOf(RecordOf(key[p])), SidOf(seen[p])}
    \cup {sid[w] : w \in {wrappers[key[p]]} \ {0}}

\* A step of p hands nothing else out, and nothing to another session.
Hands(p) ==
  /\ KeysKept
  /\ \A s \in StoreKeys :
       \/ SidOf(records'[s]) \in {0, SidOf(records[s])}
       \/ s = Scope(key[p][2]) /\ SidOf(records'[s]) \in Give(p)
  /\ p = Watchdog => records' = records
  /\ \A w \in 1..built : sid'[w] \in {0, sid[w]}
  /\ \A k \in Keys :
       \/ wrappers'[k] \in {0, wrappers[k]}
       \/ k = key[p] /\ sid'[wrappers'[k]] \in Give(p)
  /\ \A t \in Tasks :
       \/ mine'[t] = mine[t]
       \/ t = p /\ sid'[mine'[t]] \in Give(p)
  /\ \A t \in Tasks :
       \/ SidOf(seen'[t]) \in {0, SidOf(seen[t])}
       \/ t = p /\ SidOf(seen'[t]) \in Give(p)

LEMMA SeparateStep ==
  ASSUME Typed, Typed', ChannelsSeparate, NEW p \in Procs, Hands(p)
  PROVE  ChannelsSeparate'
<1> USE DEF Hands
<1> DEFINE c0 == key[p][2]
           Ok(c, s) == s \in SidsOf(c) \/ s = 0 \/ (c = c0 /\ s = minted + 1)
<1>1. \A s \in Give(p) : Ok(c0, s)
  <2>1. key[p] \in Keys /\ c0 \in Channels
    BY KeyParts DEF Typed, TypeOK
  <2>2. SidOf(RecordOf(key[p])) \in SidsOf(c0) /\ SidOf(seen[p]) \in SidsOf(c0)
    BY <2>1, LookupOwn DEF SidsOf
  <2>3. wrappers[key[p]] # 0 => sid[wrappers[key[p]]] \in SidsOf(c0)
    BY <2>1 DEF SidsOf
  <2>4. QED
    BY <2>2, <2>3 DEF Give
<1>2. ASSUME NEW c \in Channels
      PROVE  Ok(c, SidOf(records'[Scope(c)]))
  <2>1. Scope(c) \in StoreKeys /\ SidOf(records[Scope(c)]) \in SidsOf(c)
    BY DEF StoreKeys, SidsOf
  <2>2. Scope(c) = Scope(c0) => c = c0
    BY DEF Scope
  <2>3. QED
    BY <1>1, <2>1, <2>2
<1>3. ASSUME NEW k \in Keys, wrappers'[k] # 0
      PROVE  Ok(k[2], sid'[wrappers'[k]])
  <2>1. CASE wrappers'[k] \in {0, wrappers[k]}
    <3>1. wrappers'[k] = wrappers[k] /\ wrappers[k] # 0 /\ wrappers[k] \in 1..built
      BY <1>3, <2>1 DEF Typed, TypeOK
    <3>2. sid[wrappers[k]] \in SidsOf(k[2])
      BY <3>1 DEF SidsOf
    <3>3. QED
      BY <3>1, <3>2
  <2>2. CASE k = key[p] /\ sid'[wrappers'[k]] \in Give(p)
    BY <1>1, <2>2
  <2>3. QED
    BY <2>1, <2>2
<1>4. ASSUME NEW t \in Tasks, mine'[t] # 0
      PROVE  Ok(key[t][2], sid'[mine'[t]])
  <2>1. CASE mine'[t] = mine[t]
    <3>1. mine[t] # 0 /\ mine[t] \in 1..built
      BY <1>4, <2>1 DEF Typed, TypeOK, Procs
    <3>2. sid[mine[t]] \in SidsOf(key[t][2])
      BY <3>1 DEF SidsOf
    <3>3. QED
      BY <2>1, <3>1, <3>2
  <2>2. CASE t = p /\ sid'[mine'[t]] \in Give(p)
    BY <1>1, <2>2
  <2>3. QED
    BY <2>1, <2>2
<1>5. ASSUME NEW t \in Tasks
      PROVE  Ok(key[t][2], SidOf(seen'[t]))
  <2>1. SidOf(seen[t]) \in SidsOf(key[t][2])
    BY DEF SidsOf, Procs
  <2>2. QED
    BY <1>1, <2>1
<1>6. SidOf(seen'[Watchdog]) = 0
  BY DEF Typed, SidsMinted, SidOf
<1>7. ASSUME NEW c \in Channels, NEW s \in SidsOf(c)'
      PROVE  Ok(c, s)
  <2>1. CASE s = SidOf(records'[Scope(c)])
    BY <1>2, <2>1
  <2>2. CASE \E k \in Keys : k[2] = c /\ wrappers'[k] # 0 /\ s = sid'[wrappers'[k]]
    BY <1>3, <2>2
  <2>3. CASE \E t \in Tasks : key'[t][2] = c /\ mine'[t] # 0 /\ s = sid'[mine'[t]]
    BY <1>4, <2>3 DEF KeysKept
  <2>4. CASE \E q \in Procs : key'[q][2] = c /\ s = SidOf(seen'[q])
    BY <1>5, <1>6, <2>4 DEF KeysKept, Procs
  <2>5. QED
    BY <1>7, <2>1, <2>2, <2>3, <2>4 DEF SidsOf
<1>8. QED
  BY <1>7, SeparateGrow

\* Nothing that names a provider session changes, but for what p asks of its
\* own record and for wrappers that go.
LEMMA HandsQuiet ==
  ASSUME Typed, NEW p \in Procs, KeysKept,
         UNCHANGED <<records, mine, sid>>,
         \A k \in Keys : wrappers'[k] \in {0, wrappers[k]},
         \/ \A t \in Tasks : seen'[t] \in {NoRecord, seen[t]}
         \/ seen' = [seen EXCEPT ![p] = RecordOf(key[p])]
  PROVE  Hands(p)
<1>1. key[p] \in Keys /\ key[p][2] \in Channels
  BY KeyParts DEF Typed, TypeOK
<1>2. SidOf(RecordOf(key[p])) \in Give(p)
  BY <1>1, LookupOwn DEF Give
<1>3. SidOf(NoRecord) = 0
  BY DEF SidOf
<1>4. \A t \in Tasks : \/ SidOf(seen'[t]) \in {0, SidOf(seen[t])}
                       \/ t = p /\ SidOf(seen'[t]) \in Give(p)
  BY <1>2, <1>3 DEF Typed, TypeOK, Procs
<1>5. QED
  BY <1>4 DEF Hands

\* Wrappers are stopped and forgotten, a record may be deleted.
LEMMA HandsDrop ==
  ASSUME Typed, NEW K, Dropped(K), NEW W, StopAll(W),
         NEW p \in Procs, KeysKept, UNCHANGED <<mine, seen>>,
         \A s \in StoreKeys : records'[s] \in {NoRecord, records[s]},
         p = Watchdog => records' = records
  PROVE  Hands(p)
<1>1. SidOf(NoRecord) = 0
  BY DEF SidOf
<1>2. \A w \in 1..built : sid'[w] \in {0, sid[w]}
  <2>1. 1..built \subseteq Wrappers
    BY RuntimeAssumption DEF Typed, TypeOK, Wrappers
  <2>2. \A w \in Wrappers : sid'[w] \in {0, sid[w]}
    BY StopType
  <2>3. QED
    BY <2>1, <2>2
<1>3. \A k \in Keys : wrappers'[k] \in {0, wrappers[k]}
  BY DroppedType
<1>4. QED
  BY <1>1, <1>2, <1>3 DEF Hands

\* A wrapper built by p for what it has seen: the others keep their sessions.
LEMMA BuiltGives ==
  ASSUME Typed, NEW p \in Procs, BuildStarted(seen[p])
  PROVE  /\ sid'[built'] \in Give(p)
         /\ \A w \in 1..built : sid'[w] \in {0, sid[w]}
<1>1. seen[p] \in Record \cup {NoRecord} /\ SidOf(seen[p]) <= minted
  BY DEF Typed, TypeOK, SidsMinted
<1>3. /\ sid'[built'] = IF SidOf(seen[p]) = 0 THEN minted + 1 ELSE SidOf(seen[p])
      /\ \A w \in Wrappers : w # built' => sid'[w] = sid[w]
      /\ built' = built + 1
  BY <1>1, BuildType
<1>4. \A w \in 1..built : w \in Wrappers /\ w # built + 1
  BY RuntimeAssumption DEF Typed, TypeOK, Wrappers
<1>5. QED
  BY <1>3, <1>4 DEF Give

LEMMA HandsEnsure ==
  ASSUME Typed, NEW t \in Tasks, EnsureStep(t)
  PROVE  Hands(t)
<1>k. t \in Procs /\ key[t] \in Keys /\ t # Watchdog /\ key[t][2] \in Channels
  BY KeyParts, RuntimeAssumption DEF Typed, TypeOK, Procs
<1>n. SidOf(NoRecord) = 0
  BY DEF SidOf
<1>1. CASE EnsureReuse(t)
  <2>1. KeysKept /\ UNCHANGED <<records, sid, wrappers, seen, built>>
        /\ mine' = [mine EXCEPT ![t] = wrappers[key[t]]]
    BY <1>1 DEF EnsureReuse, EnsureReturns, objects, KeysKept
  <2>2. wrappers[key[t]] # 0
    BY <1>1 DEF EnsureReuse, Typed, TypeOK
  <2>3. sid[wrappers[key[t]]] \in Give(t)
    BY <1>k, <2>2 DEF Give
  <2>4. QED
    BY <1>k, <2>1, <2>3 DEF Hands, Typed, TypeOK, Procs
<1>2. CASE EnsureDead(t)
  <2>1. TryRestart(t, key[t], configs \cup {key[t]}) /\ configs \cup {key[t]} \in SUBSET Keys
    BY <1>2, <1>k DEF EnsureDead, Typed, TypeOK
  <2>2. /\ KeysKept /\ UNCHANGED <<records, mine, sid>>
        /\ \A j \in Keys : wrappers'[j] \in {0, wrappers[j]}
        /\ seen' = seen \/ seen' = [seen EXCEPT ![t] = RecordOf(key[t])]
    BY <1>k, <2>1, TryRestartType DEF KeysKept, Procs, objects
  <2>3. QED
    BY <1>k, <2>2, HandsQuiet
<1>3. CASE EnsureMissing(t)
  BY <1>3, <1>k, HandsQuiet DEF EnsureMissing, AskRecord, registry, objects, KeysKept
<1>4. CASE EnsureStart(t)
  <2>1. BuildStarted(seen[t])
    BY <1>4 DEF EnsureStart
  <2>2. /\ KeysKept
        /\ wrappers' = [wrappers EXCEPT ![key[t]] = built']
        /\ mine' = [mine EXCEPT ![t] = built']
        /\ seen' = [seen EXCEPT ![t] = NoRecord]
        /\ records' = [records EXCEPT ![Scope(key[t][2])] =
                         [agent |-> key[t][1], sid |-> sid'[built']]]
    BY <1>4 DEF EnsureStart, KeysKept
  <2>3. [agent |-> key[t][1], sid |-> sid'[built']] # NoRecord
    BY <1>k, KeyParts, RuntimeAssumption, <2>1, BuildType
       DEF Typed, TypeOK, Record, SidsMinted
  <2>4. SidOf([agent |-> key[t][1], sid |-> sid'[built']]) = sid'[built']
    BY <2>3 DEF SidOf
  <2>5. sid'[built'] \in Give(t) /\ \A w \in 1..built : sid'[w] \in {0, sid[w]}
    BY <1>k, <2>1, BuiltGives
  <2>6. \A s \in StoreKeys : \/ records'[s] = records[s]
                             \/ s = Scope(key[t][2]) /\ SidOf(records'[s]) \in Give(t)
    BY <2>2, <2>4, <2>5 DEF Typed, TypeOK
  <2>7. \A j \in Keys : \/ wrappers'[j] = wrappers[j]
                        \/ j = key[t] /\ sid'[wrappers'[j]] \in Give(t)
    BY <2>2, <2>5 DEF Typed, TypeOK
  <2>8. \A u \in Tasks : /\ mine'[u] = mine[u] \/ (u = t /\ sid'[mine'[u]] \in Give(t))
                         /\ seen'[u] \in {NoRecord, seen[u]}
    BY <2>2, <2>5 DEF Typed, TypeOK, Procs
  <2>9. QED
    BY <1>k, <1>n, <2>2, <2>5, <2>6, <2>7, <2>8 DEF Hands
<1>5. CASE EnsureUpserted(t)
  <2>1. KeysKept /\ UNCHANGED <<records, sid, wrappers, seen>>
        /\ mine' = [mine EXCEPT ![t] = mine[t]]
    BY <1>5 DEF EnsureUpserted, EnsureReturns, objects, KeysKept
  <2>2. mine' = mine
    BY <2>1 DEF Typed, TypeOK
  <2>3. QED
    BY <1>k, <2>1, <2>2, HandsQuiet
<1>6. QED
  BY <1>1, <1>2, <1>3, <1>4, <1>5 DEF EnsureStep

LEMMA HandsRestart ==
  ASSUME Typed, NEW p \in Procs, RestartStep(p) \/ RestartFault(p)
  PROVE  Hands(p)
<1>k. key[p] \in Keys /\ (p # Watchdog => p \in Tasks) /\ Watchdog \notin Tasks
  BY RuntimeAssumption DEF Typed, TypeOK, Procs
<1>n. SidOf(NoRecord) = 0
  BY DEF SidOf
<1>1. CASE RestartWakes(p)
  <2>1. KeysKept /\ UNCHANGED <<records, sid, wrappers, mine>>
    BY <1>1 DEF RestartWakes, RestartGivesNone, AskRecord, registry, objects, KeysKept
  <2>2. \/ seen' = seen
        \/ seen' = [seen EXCEPT ![p] = RecordOf(key[p])]
        \/ seen' = [seen EXCEPT ![p] = NoRecord]
    BY <1>k, <1>1, LookupDoubled DEF RestartWakes, RestartGivesNone, AskRecord
  <2>3. \/ \A t \in Tasks : seen'[t] \in {NoRecord, seen[t]}
        \/ seen' = [seen EXCEPT ![p] = RecordOf(key[p])]
    BY <2>2 DEF Typed, TypeOK, Procs
  <2>4. QED
    BY <2>1, <2>3, HandsQuiet
<1>2. CASE RestartStarts(p)
  <2>1. BuildStarted(seen[p])
    BY <1>2 DEF RestartStarts
  <2>2. /\ KeysKept /\ UNCHANGED <<records, seen>>
        /\ wrappers' = [wrappers EXCEPT ![key[p]] = built']
        /\ mine' = mine \/ (p \in Tasks /\ mine' = [mine EXCEPT ![p] = built'])
    BY <1>k, <1>2 DEF RestartStarts, EnsureReturns, KeysKept
  <2>3. sid'[built'] \in Give(p) /\ \A w \in 1..built : sid'[w] \in {0, sid[w]}
    BY <2>1, BuiltGives
  <2>4. \A j \in Keys : \/ wrappers'[j] = wrappers[j]
                        \/ j = key[p] /\ sid'[wrappers'[j]] \in Give(p)
    BY <2>2, <2>3 DEF Typed, TypeOK
  <2>5. \A u \in Tasks : mine'[u] = mine[u] \/ (u = p /\ sid'[mine'[u]] \in Give(p))
    BY <2>2, <2>3 DEF Typed, TypeOK, Procs
  <2>6. QED
    BY <2>2, <2>3, <2>4, <2>5 DEF Hands
<1>3. CASE RestartFails(p)
  <2>1. TryRestart(p, key[p], configs) /\ configs \in SUBSET Keys
    BY <1>3 DEF RestartFails, Typed, TypeOK
  <2>2. /\ KeysKept /\ UNCHANGED <<records, mine, sid>>
        /\ \A j \in Keys : wrappers'[j] \in {0, wrappers[j]}
        /\ seen' = seen \/ seen' = [seen EXCEPT ![p] = RecordOf(key[p])]
    BY <1>k, <2>1, TryRestartType DEF KeysKept, Procs, objects
  <2>3. QED
    BY <2>2, HandsQuiet
<1>4. CASE RestartRaises(p)
  BY <1>4, HandsQuiet DEF RestartRaises, registry, objects, KeysKept
<1>5. QED
  BY <1>1, <1>2, <1>3, <1>4 DEF RestartStep, RestartFault

LEMMA HandsTasks ==
  ASSUME Typed, NEW t \in Tasks,
         Begin(t) \/ ResetStep(t) \/ FailStep(t) \/ Leave(t)
  PROVE  Hands(t)
<1>k. t \in Procs /\ t # Watchdog
  BY RuntimeAssumption DEF Procs
<1>1. CASE ResetSession(t)
  <2>1. /\ Dropped({key[t]}) /\ StopAll({wrappers[key[t]]})
        /\ KeysKept /\ UNCHANGED <<mine, seen>>
        /\ records' = [records EXCEPT ![Scope(key[t][2])] = NoRecord]
    BY <1>1 DEF ResetSession, KeysKept
  <2>2. \A s \in StoreKeys : records'[s] \in {NoRecord, records[s]}
    BY <2>1 DEF Typed, TypeOK
  <2>3. QED
    BY <1>k, <2>1, <2>2, HandsDrop
<1>2. CASE Begin(t) \/ Cleared(t) \/ ClearFails(t) \/ EnsureUpsertFails(t) \/ Leave(t)
  BY <1>k, <1>2, HandsQuiet DEF Begin, Cleared, ClearFails, EnsureUpsertFails, Leave,
                                   registry, objects, KeysKept
<1>3. CASE EnsureStartFails(t)
  <2>1. KeysKept /\ UNCHANGED <<records, mine, sid, wrappers>>
        /\ seen' = [seen EXCEPT ![t] = NoRecord]
    BY <1>3 DEF EnsureStartFails, registry, objects, KeysKept
  <2>2. \A u \in Tasks : seen'[u] \in {NoRecord, seen[u]}
    BY <2>1 DEF Typed, TypeOK, Procs
  <2>3. QED
    BY <1>k, <2>1, <2>2, HandsQuiet
<1>4. CASE RestartFault(t)
  BY <1>k, <1>4, HandsRestart
<1>5. QED
  BY <1>1, <1>2, <1>3, <1>4 DEF ResetStep, FailStep

LEMMA HandsWatchdog ==
  ASSUME Typed, WatchdogStep \/ Shutdown
  PROVE  Hands(Watchdog)
<1>k. Watchdog \in Procs /\ Watchdog \notin Tasks
  BY RuntimeAssumption DEF Procs
<1>1. CASE WatchdogLooks \/ CheckedAll \/ CleanedAll
  BY <1>k, <1>1, HandsQuiet DEF WatchdogLooks, CheckedAll, CleanedAll, registry, objects,
                                   KeysKept
<1>2. ASSUME NEW k \in Keys, CheckFine(k) \/ CleanActive(k)
      PROVE  Hands(Watchdog)
  BY <1>k, <1>2, HandsQuiet DEF CheckFine, CleanActive, registry, objects, handlers, KeysKept
<1>3. ASSUME NEW k \in Keys, CheckDead(k)
      PROVE  Hands(Watchdog)
  <2>1. TryRestart(Watchdog, k, configs) /\ configs \in SUBSET Keys
    BY <1>3 DEF CheckDead, Typed, TypeOK
  <2>2. /\ KeysKept /\ UNCHANGED <<records, mine, sid>> /\ seen' = seen
        /\ \A j \in Keys : wrappers'[j] \in {0, wrappers[j]}
    BY <1>k, <2>1, TryRestartType DEF KeysKept, Procs, objects
  <2>3. QED
    BY <1>k, <2>2, HandsQuiet
<1>4. ASSUME NEW k \in Keys, CleanIdle(k)
      PROVE  Hands(Watchdog)
  BY <1>k, <1>4, HandsDrop DEF CleanIdle, handlers, KeysKept
<1>5. CASE Shutdown
  BY <1>k, <1>5, HandsDrop DEF Shutdown, KeysKept
<1>6. QED
  BY <1>1, <1>2, <1>3, <1>4, <1>5 DEF WatchdogStep

LEMMA HandsStep ==
  ASSUME Typed, [Next]_runtimeVars
  PROVE  \E p \in Procs : Hands(p)
<1>k. Watchdog \in Procs
  BY DEF Procs
<1>1. ASSUME NEW t \in Tasks, Begin(t) \/ HandlerStep(t)
      PROVE  Hands(t) /\ t \in Procs
  BY <1>1, HandsEnsure, HandsRestart, HandsTasks DEF HandlerStep, Procs
<1>2. CASE RestartStep(Watchdog) \/ RestartFault(Watchdog)
  BY <1>k, <1>2, HandsRestart
<1>3. ASSUME NEW w \in Wrappers, WrapperCrashes(w)
      PROVE  Hands(Watchdog)
  BY <1>k, <1>3, HandsQuiet DEF WrapperCrashes, registry, handlers, KeysKept
<1>4. ASSUME NEW k \in Keys, GoesIdle(k)
      PROVE  Hands(Watchdog)
  BY <1>k, <1>4, HandsQuiet DEF GoesIdle, objects, handlers, KeysKept
<1>5. CASE UNCHANGED runtimeVars
  BY <1>k, <1>5, HandsQuiet DEF runtimeVars, registry, objects, handlers, KeysKept
<1>6. QED
  BY <1>k, <1>1, <1>2, <1>3, <1>4, <1>5, HandsWatchdog DEF Next

LEMMA SeparateInit == Init => ChannelsSeparate
<1>1. SUFFICES ASSUME Init, NEW c \in Channels, NEW s \in SidsOf(c) PROVE s = 0
  BY DEF ChannelsSeparate
<1>2. SidOf(NoRecord) = 0 /\ Scope(c) \in StoreKeys
  BY DEF SidOf, StoreKeys
<1>3. \A t \in Tasks : mine[t] = 0
  BY <1>1 DEF Init, Procs
<1>4. QED
  BY <1>1, <1>2, <1>3 DEF Init, SidsOf

\* Two channels never name one provider session.
THEOREM ChannelsApart == Spec => []ChannelsSeparate
<1>1. Typed /\ ChannelsSeparate /\ [Next]_runtimeVars => (Typed /\ ChannelsSeparate)'
  BY TypedStep, HandsStep, SeparateStep
<1>2. QED
  BY <1>1, TypedInit, SeparateInit, PTL DEF Spec
=============================================================================
