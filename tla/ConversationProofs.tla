------------------------- MODULE ConversationProofs -------------------------
(***************************************************************************)
(* Proofs about Conversation for any agents, channels, handlers and cases. *)
(***************************************************************************)
EXTENDS Conversation, ProviderRuntimeProofs

\* A handler has a wrapper.
Equipped == {"upserting", "returned", "waiting", "sending", "saving"}

TurnsTyped ==
  /\ holding \subseteq Tasks /\ stale \subseteq Tasks /\ retried \subseteq Tasks
  /\ sent \in [Tasks -> 0..minted]
  /\ convs \subseteq 1..minted

HistoryTyped ==
  /\ said \in [Keys -> SUBSET (1..minted)]
  /\ old \in [Keys -> SUBSET (1..minted)]
  /\ barred \in [Tasks -> SUBSET (1..minted)]
  /\ last \in [Keys -> 0..minted]

HasWrapper == \A t \in Tasks : pc[t] \in Equipped => mine[t] # 0

ConvTyped == Typed /\ TurnsTyped /\ HistoryTyped /\ HasWrapper

-----------------------------------------------------------------------------
\* What is typed about a task: its key, its session's key, its wrapper.
LEMMA TaskType ==
  ASSUME Typed, NEW t \in Tasks
  PROVE  /\ t \in Procs /\ t # Watchdog
         /\ key[t] \in Keys /\ key[t][1] \in Agents /\ key[t][2] \in Channels
         /\ Scope(key[t][2]) \in StoreKeys
         /\ mine[t] \in 0..built
         /\ mine[t] # 0 => mine[t] \in Wrappers
<1>1. t \in Procs /\ t # Watchdog
  BY RuntimeAssumption DEF Procs
<1>2. key[t] \in Keys /\ mine[t] \in 0..built
  BY <1>1 DEF Typed, TypeOK
<1>3. mine[t] # 0 => mine[t] \in Wrappers
  BY <1>2, RuntimeAssumption DEF Typed, TypeOK, Wrappers
<1>4. QED
  BY <1>1, <1>2, <1>3, KeyParts

\* What a message does to wrapper objects and the provider.
LEMMA SendType ==
  ASSUME Typed, TurnsTyped, NEW t \in Tasks, mine[t] # 0, SendMessage(t),
         UNCHANGED <<registry, key, seen, mine, myLock, todo, crashes>>
  PROVE  /\ Typed' /\ TurnsTyped'
         /\ minted <= minted'
         /\ sent'[t] \in 1..minted'
<1> DEFINE w == mine[t]
<1>1. w \in Wrappers /\ w \in 1..built /\ sid[w] \in 0..minted /\ minted \in Nat
  BY TaskType, RuntimeAssumption, SMTT(30) DEF Typed, TypeOK, Wrappers
<1>2. minted' \in Nat /\ minted <= minted' /\ minted' = (IF sid[w] = 0 THEN minted + 1 ELSE minted)
  BY <1>1 DEF SendMessage
<1>3. sid' = [sid EXCEPT ![w] = IF sid[w] = 0 THEN minted' ELSE sid[w]]
  BY DEF SendMessage
<1>4. sid' \in [Wrappers -> 0..minted'] /\ sid'[w] \in 1..minted'
  BY <1>1, <1>2, <1>3 DEF Typed, TypeOK
<1>5. alive' \subseteq 1..built
  BY <1>1 DEF SendMessage, Typed, TypeOK
<1>6. pc' \in [Procs -> Labels]
  BY DEF SendMessage, Goto, Labels, Typed, TypeOK
<1>7. TypeOK'
  BY <1>1, <1>2, <1>4, <1>5, <1>6 DEF SendMessage, Typed, TypeOK, registry
<1>8. \A r \in Record \cup {NoRecord} : SidOf(r) \in Nat
  BY SidType
<1>9. SidsMinted'
  BY <1>1, <1>2, <1>8 DEF SendMessage, Typed, TypeOK, SidsMinted
<1>10. sent' = [sent EXCEPT ![t] = sid'[w]]
  BY DEF SendMessage
<1>11. sent' \in [Tasks -> 0..minted'] /\ sent'[t] = sid'[w]
  BY <1>1, <1>2, <1>4, <1>10 DEF TurnsTyped
<1>12. convs' \subseteq 1..minted'
  BY <1>1, <1>2, <1>4, <1>11 DEF SendMessage, TurnsTyped
<1>13. holding' \subseteq Tasks /\ stale' \subseteq Tasks /\ retried' \subseteq Tasks
  BY DEF SendMessage, TurnsTyped
<1>14. QED
  BY <1>2, <1>4, <1>7, <1>9, <1>11, <1>12, <1>13 DEF Typed, TurnsTyped

\* /model keeps the types: it makes no wrapper and takes no conversation away.
LEMMA SwitchType ==
  ASSUME Typed, TurnsTyped, NEW t \in Tasks, mine[t] # 0, SwitchModel(t),
         UNCHANGED <<registry, key, seen, mine, myLock, todo, crashes>>
  PROVE  /\ Typed' /\ TurnsTyped'
         /\ minted <= minted'
<1> DEFINE w == mine[t]
           r == [agent |-> key[t][1], sid |-> minted']
<1>1. w \in Wrappers /\ minted \in Nat
  BY TaskType DEF Typed, TypeOK
<1>2. minted' = minted + 1 /\ sid' = [sid EXCEPT ![w] = minted'] /\ hist' = [hist EXCEPT ![w] = FALSE]
      /\ records' = [records EXCEPT ![Scope(key[t][2])] = r]
  BY DEF SwitchModel
<1>3. sid' \in [Wrappers -> 0..minted'] /\ hist' \in [Wrappers -> BOOLEAN]
  BY <1>1, <1>2 DEF Typed, TypeOK
<1>4. r \in Record /\ SidOf(r) = minted'
  BY <1>1, <1>2, TaskType, RuntimeAssumption DEF Record, SidOf
<1>5. records' \in [StoreKeys -> Record \cup {NoRecord}]
  BY <1>2, <1>4 DEF Typed, TypeOK
<1>6. pc' \in [Procs -> Labels]
  BY DEF SwitchModel, Goto, Labels, Typed, TypeOK
<1>7. TypeOK'
  BY <1>1, <1>2, <1>3, <1>5, <1>6 DEF SwitchModel, Typed, TypeOK, registry
<1>8. \A q \in Record \cup {NoRecord} : SidOf(q) \in Nat
  BY SidType
<1>9. \A s \in StoreKeys : records'[s] \in {r, records[s]}
  BY <1>2 DEF Typed, TypeOK
<1>10. SidsMinted'
  BY <1>1, <1>2, <1>4, <1>8, <1>9 DEF SwitchModel, Typed, TypeOK, SidsMinted
<1>11. TurnsTyped'
  BY <1>1, <1>2 DEF SwitchModel, turns, TurnsTyped
<1>12. QED
  BY <1>1, <1>2, <1>7, <1>10, <1>11 DEF Typed

\* A message that gets the send lock names a conversation there is.
LEMMA EnterType ==
  ASSUME Typed, TurnsTyped, NEW t \in Tasks, mine[t] # 0, Enter(t)
  PROVE  /\ Typed' /\ TurnsTyped'
         /\ minted <= minted'
         /\ pc'[t] = "sending" => sent'[t] \in 1..minted'
<1>1. UNCHANGED <<registry, key, seen, mine, myLock, todo, crashes>>
  BY DEF Enter
<1>2. CASE SendMessage(t)
  BY <1>1, <1>2, SendType
<1>3. CASE SwitchModel(t)
  <2>1. pc'[t] = "done"
    BY <1>3, TaskType DEF SwitchModel, Goto, Typed, TypeOK
  <2>2. QED
    BY <1>1, <1>3, <2>1, SwitchType
<1>4. CASE LocalCommand(t)
  <2>1. pc'[t] = "done" /\ pc' \in [Procs -> Labels]
    BY <1>4, TaskType DEF LocalCommand, Goto, Labels, Typed, TypeOK
  <2>2. QED
    BY <1>1, <1>4, <2>1 DEF LocalCommand, Typed, TypeOK, SidsMinted, TurnsTyped, objects, turns,
                            registry
<1>5. QED
  BY <1>2, <1>3, <1>4 DEF Enter

-----------------------------------------------------------------------------
\* A handler's step that is Conversation's own, and one in the registry.
OwnTurn(t) ==
  Proceed(t) \/ Acquire(t) \/ Answered(t) \/ Refused(t) \/ TimesOut(t) \/ Saved(t) \/ TurnFails(t)

RegistryTurn(t) ==
  /\ EnsureStep(t) \/ RestartStep(t) \/ ResetStep(t) \/ FailStep(t)
  /\ UNCHANGED turns

\* A handler's step leaves the other handlers where they are; the watchdog and
\* the environment leave all.
Elsewhere(t) ==
  \A u \in Tasks : u # t =>
    pc'[u] = pc[u] /\ seen'[u] = seen[u] /\ mine'[u] = mine[u] /\ myLock'[u] = myLock[u]

TasksStay ==
  \A u \in Tasks :
    pc'[u] = pc[u] /\ seen'[u] = seen[u] /\ mine'[u] = mine[u] /\ myLock'[u] = myLock[u]

\* A restart, whoever asks for it, moves no task but the one that asks.
LEMMA FrameTry ==
  ASSUME Typed, NEW p \in Procs, NEW k \in Keys, NEW C \in SUBSET Keys, TryRestart(p, k, C),
         p \in Tasks => k = key[p]
  PROVE  /\ KeysKept
         /\ \A u \in Tasks : u # p => pc'[u] = pc[u] /\ seen'[u] = seen[u]
         /\ mine' = mine /\ myLock' = myLock
         /\ p \in Tasks => pc'[p] \in {"start", "backoff"}
<1>1. KeysKept
  BY TryRestartType DEF KeysKept, Procs
<1>2. mine' = mine /\ myLock' = myLock
  BY TryRestartType
<1>3. \A u \in Tasks : u # p => pc'[u] = pc[u] /\ seen'[u] = seen[u]
  BY DEF TryRestart, RestartGivesNone, AskRecord, Goto, Typed, TypeOK, Procs
<1>4. p \in Tasks => pc'[p] \in {"start", "backoff"}
  BY RuntimeAssumption DEF TryRestart, RestartGivesNone, AskRecord, Goto, Typed, TypeOK, Procs
<1>5. QED
  BY <1>1, <1>2, <1>3, <1>4

\* A handler's work on its wrapper moves no other task.
LEMMA FrameEnsure ==
  ASSUME Typed, NEW t \in Tasks, EnsureStep(t) \/ RestartStep(t) \/ ResetStep(t) \/ FailStep(t)
  PROVE  KeysKept /\ Elsewhere(t)
<1>k. t \in Procs /\ key[t] \in Keys /\ t # Watchdog
  BY TaskType
<1>1. CASE EnsureDead(t) \/ RestartFails(t)
  <2>1. PICK C \in SUBSET Keys : TryRestart(t, key[t], C)
    BY <1>1, <1>k DEF EnsureDead, RestartFails, Typed, TypeOK
  <2>2. QED
    BY <1>k, <2>1, FrameTry DEF Elsewhere
<1>2. CASE EnsureReuse(t) \/ EnsureUpserted(t)
  BY <1>2, <1>k DEF EnsureReuse, EnsureUpserted, EnsureReturns, Goto, Elsewhere, KeysKept,
                    Typed, TypeOK, Procs
<1>3. CASE EnsureMissing(t) \/ EnsureStart(t)
  BY <1>3, <1>k DEF EnsureMissing, EnsureStart, AskRecord, Goto, Elsewhere, KeysKept,
                    Typed, TypeOK, Procs
<1>4. CASE RestartWakes(t) \/ RestartStarts(t)
  BY <1>4, <1>k DEF RestartWakes, RestartStarts, RestartGivesNone, EnsureReturns, AskRecord, Goto,
                    Elsewhere, KeysKept, Typed, TypeOK, Procs
<1>5. CASE ResetStep(t)
  BY <1>5, <1>k DEF ResetStep, ResetSession, Cleared, Goto, Elsewhere, KeysKept,
                    Typed, TypeOK, Procs
<1>6. CASE EnsureStartFails(t) \/ EnsureUpsertFails(t) \/ ClearFails(t) \/ RestartRaises(t)
  BY <1>6, <1>k DEF EnsureStartFails, EnsureUpsertFails, ClearFails, RestartRaises, Goto,
                    Elsewhere, KeysKept, Typed, TypeOK, Procs
<1>7. QED
  BY <1>1, <1>2, <1>3, <1>4, <1>5, <1>6 DEF EnsureStep, RestartStep, FailStep, RestartFault

\* A handler that begins moves no other task.
LEMMA FrameBegin ==
  ASSUME Typed, NEW t \in Tasks, BeginTurn(t)
  PROVE  KeysKept /\ Elsewhere(t)
BY TaskType DEF BeginTurn, Begin, Goto, Elsewhere, KeysKept, Typed, TypeOK, Procs

\* A handler's turn on its wrapper moves no other task.
LEMMA OwnFrame ==
  ASSUME Typed, NEW t \in Tasks, OwnTurn(t)
  PROVE  KeysKept /\ Elsewhere(t)
<1>k. t \in Procs
  BY TaskType
<1>1. CASE Proceed(t) \/ Acquire(t)
  BY <1>1, <1>k DEF Proceed, Acquire, Enter, SendMessage, SwitchModel, LocalCommand, Goto,
                    Elsewhere, KeysKept, Typed, TypeOK, Procs
<1>2. CASE Answered(t) \/ Refused(t) \/ Saved(t) \/ TimesOut(t) \/ TurnFails(t)
  BY <1>2, <1>k DEF Answered, Refused, Saved, TimesOut, TurnFails, Retry, Goto,
                    Elsewhere, KeysKept, Typed, TypeOK, Procs
<1>3. QED
  BY <1>1, <1>2 DEF OwnTurn

\* The watchdog, crashes of children and the cleanup move no task.
LEMMA FrameBackground ==
  ASSUME Typed, Background
  PROVE  KeysKept /\ TasksStay
<1>k. Watchdog \in Procs /\ Watchdog \notin Tasks
  BY RuntimeAssumption DEF Procs
<1>1. CASE RestartFails(Watchdog) \/ \E k \in Keys : CheckDead(k)
  <2>1. PICK k \in Keys, C \in SUBSET Keys : TryRestart(Watchdog, k, C)
    BY <1>1, <1>k DEF CheckDead, RestartFails, Typed, TypeOK
  <2>2. QED
    BY <1>k, <2>1, FrameTry DEF TasksStay
<1>2. CASE RestartWakes(Watchdog) \/ RestartStarts(Watchdog) \/ RestartRaises(Watchdog)
  BY <1>2, <1>k DEF RestartWakes, RestartStarts, RestartRaises, RestartGivesNone, Goto,
                    TasksStay, KeysKept, Typed, TypeOK, Procs
<1>3. CASE WatchdogLooks \/ CheckedAll \/ CleanedAll \/ Shutdown
  BY <1>3, <1>k DEF WatchdogLooks, CheckedAll, CleanedAll, Shutdown, Goto,
                    TasksStay, KeysKept, Typed, TypeOK, Procs
<1>4. CASE \E k \in Keys : CheckFine(k) \/ CleanActive(k) \/ CleanIdle(k) \/ GoesIdle(k)
  BY <1>4 DEF CheckFine, CleanActive, CleanIdle, GoesIdle, handlers, TasksStay, KeysKept
<1>5. CASE \E w \in Wrappers : WrapperCrashes(w)
  BY <1>5 DEF WrapperCrashes, handlers, TasksStay, KeysKept
<1>6. QED
  BY <1>1, <1>2, <1>3, <1>4, <1>5 DEF Background, RestartStep, RestartFault, WatchdogStep

-----------------------------------------------------------------------------
\* Where a handler's step in the registry takes it.
LEMMA EquippedStep ==
  ASSUME Typed, HasWrapper, NEW t \in Tasks,
         EnsureStep(t) \/ RestartStep(t) \/ ResetStep(t) \/ FailStep(t)
  PROVE  /\ pc'[t] \in Equipped => mine'[t] # 0
         /\ pc'[t] \notin {"idle", "sending", "waiting", "saving"}
<1>k. t \in Procs /\ key[t] \in Keys /\ t # Watchdog /\ pc \in [Procs -> Labels]
  BY TaskType DEF Typed, TypeOK
<1>b. built + 1 # 0 /\ 0 \notin alive
  BY DEF Typed, TypeOK
<1>1. CASE EnsureDead(t) \/ RestartFails(t)
  <2>1. PICK C \in SUBSET Keys : TryRestart(t, key[t], C)
    BY <1>1, <1>k DEF EnsureDead, RestartFails, Typed, TypeOK
  <2>2. QED
    BY <1>k, <2>1, FrameTry DEF Equipped
<1>2. CASE EnsureReuse(t)
  BY <1>2, <1>k, <1>b DEF EnsureReuse, EnsureReturns, Goto, Typed, TypeOK
<1>3. CASE EnsureUpserted(t)
  BY <1>3, <1>k DEF EnsureUpserted, EnsureReturns, Goto, Typed, TypeOK, HasWrapper, Equipped
<1>4. CASE EnsureStart(t)
  BY <1>4, <1>k, <1>b DEF EnsureStart, BuildStarted, Builds, Goto, Typed, TypeOK
<1>5. CASE EnsureMissing(t) \/ RestartWakes(t)
  BY <1>5, <1>k DEF EnsureMissing, RestartWakes, RestartGivesNone, AskRecord, Goto, Equipped
<1>6. CASE RestartStarts(t)
  BY <1>6, <1>k, <1>b DEF RestartStarts, EnsureReturns, BuildStarted, Builds, Goto, Typed, TypeOK
<1>7. CASE ResetStep(t)
  BY <1>7, <1>k DEF ResetStep, ResetSession, Cleared, Goto, Equipped
<1>8. CASE EnsureStartFails(t) \/ EnsureUpsertFails(t) \/ ClearFails(t) \/ RestartRaises(t)
  BY <1>8, <1>k DEF EnsureStartFails, EnsureUpsertFails, ClearFails, RestartRaises, Goto, Equipped
<1>9. QED
  BY <1>1, <1>2, <1>3, <1>4, <1>5, <1>6, <1>7, <1>8
     DEF EnsureStep, RestartStep, FailStep, RestartFault

\* Session ids are only ever added.
LEMMA MintedTask ==
  ASSUME Typed, NEW p \in Procs, EnsureStep(p) \/ RestartStep(p) \/ ResetStep(p) \/ FailStep(p)
                                 \/ RestartFault(p)
  PROVE  minted <= minted'
<1>1. minted \in Nat
  BY DEF Typed, TypeOK
<1>2. ASSUME BuildStarted(seen[p]) PROVE minted <= minted'
  BY <1>1, <1>2 DEF BuildStarted, Builds
<1>3. ASSUME NEW W, StopAll(W) PROVE minted <= minted'
  BY <1>1, <1>3 DEF StopAll
<1>4. ASSUME UNCHANGED objects PROVE minted <= minted'
  BY <1>1, <1>4 DEF objects
<1>5. CASE EnsureStep(p)
  BY <1>2, <1>4, <1>5
     DEF EnsureStep, EnsureReuse, EnsureDead, EnsureMissing, EnsureStart, EnsureUpserted, TryRestart
<1>6. CASE RestartStep(p) \/ RestartFault(p)
  BY <1>2, <1>4, <1>6 DEF RestartStep, RestartFault, RestartWakes, RestartStarts, RestartFails,
                          RestartRaises, TryRestart
<1>7. CASE ResetStep(p)
  BY <1>3, <1>4, <1>7 DEF ResetStep, ResetSession, Cleared
<1>8. CASE FailStep(p)
  BY <1>4, <1>6, <1>8 DEF FailStep, EnsureStartFails, EnsureUpsertFails, ClearFails
<1>9. QED
  BY <1>5, <1>6, <1>7, <1>8

\* The watchdog, crashes and the cleanup take no conversation away.
LEMMA MintedBackground ==
  ASSUME Typed, Background
  PROVE  minted <= minted'
<1>1. minted \in Nat /\ Watchdog \in Procs
  BY DEF Typed, TypeOK, Procs
<1>2. ASSUME NEW W, StopAll(W) PROVE minted <= minted'
  BY <1>1, <1>2 DEF StopAll
<1>3. ASSUME UNCHANGED minted PROVE minted <= minted'
  BY <1>1, <1>3
<1>4. CASE WatchdogStep \/ Shutdown
  BY <1>2, <1>3, <1>4 DEF WatchdogStep, Shutdown, WatchdogLooks, CheckFine, CheckDead, CleanActive,
                          CleanIdle, CheckedAll, CleanedAll, TryRestart, objects
<1>5. CASE \/ \E w \in Wrappers : WrapperCrashes(w)
           \/ \E k \in Keys : GoesIdle(k)
  BY <1>3, <1>5 DEF WrapperCrashes, GoesIdle, objects
<1>6. QED
  BY <1>1, <1>4, <1>5, MintedTask DEF Background

\* The watchdog, crashes and the cleanup keep the registry typed.
LEMMA TypedBackground ==
  ASSUME Typed, Background
  PROVE  Typed'
<1>1. ASSUME Next PROVE Typed'
  BY <1>1, TypedStep
<1>2. QED
  BY <1>1 DEF Background, Next

\* What a handler does in the registry keeps it typed.
LEMMA TypedTask ==
  ASSUME Typed, NEW t \in Tasks, EnsureStep(t) \/ RestartStep(t) \/ ResetStep(t) \/ FailStep(t)
                                 \/ Begin(t)
  PROVE  Typed'
<1>1. Next
  BY DEF HandlerStep, Next
<1>2. QED
  BY <1>1, TypedStep

\* A step that leaves the turns alone leaves them typed.
LEMMA TurnsKept ==
  ASSUME TurnsTyped, minted \in Nat, minted' \in Nat, minted <= minted', UNCHANGED turns
  PROVE  TurnsTyped'
BY DEF TurnsTyped, turns

\* The steps of a handler that are Conversation's own.
LEMMA TypedTurn ==
  ASSUME Typed, TurnsTyped, HasWrapper, NEW t \in Tasks,
         OwnTurn(t)
  PROVE  /\ Typed' /\ TurnsTyped'
         /\ minted <= minted'
         /\ pc[t] # "sending" /\ pc'[t] = "sending" => sent'[t] \in 1..minted'
<1>k. t \in Procs /\ key[t] \in Keys /\ minted \in Nat /\ pc \in [Procs -> Labels]
  BY TaskType DEF Typed, TypeOK
<1>1. CASE Enter(t) /\ pc[t] \in {"returned", "waiting"}
  BY <1>1, EnterType DEF HasWrapper, Equipped
<1>2. CASE Proceed(t) /\ ~Enter(t)
  <2>1. pc' \in [Procs -> Labels] /\ pc'[t] = "waiting"
    BY <1>2, <1>k DEF Proceed, Goto, Labels
  <2>2. UNCHANGED <<registry, objects, records, key, seen, mine, myLock, todo, crashes, turns>>
    BY <1>2 DEF Proceed
  <2>3. Typed'
    BY <2>1, <2>2 DEF Typed, TypeOK, SidsMinted, registry, objects
  <2>4. TurnsTyped' /\ minted' = minted
    BY <2>2 DEF TurnsTyped, turns, objects
  <2>5. QED
    BY <1>k, <2>1, <2>3, <2>4
<1>3. CASE Answered(t)
  <2>1. pc' \in [Procs -> Labels] /\ pc'[t] = "saving"
    BY <1>3, <1>k DEF Answered, Goto, Labels
  <2>2. hist' \in [Wrappers -> BOOLEAN]
    BY <1>3 DEF Answered, Typed, TypeOK
  <2>3. QED
    BY <1>3, <1>k, <2>1, <2>2 DEF Answered, Typed, TypeOK, SidsMinted, TurnsTyped, registry, objects
<1>4. CASE Refused(t) \/ TimesOut(t)
  <2>1. Retry(t)
    BY <1>4 DEF Refused, TimesOut
  <2>2. pc' \in [Procs -> Labels] /\ pc'[t] \in {"failed", "stop"}
    BY <2>1, <1>k DEF Retry, Goto, Labels
  <2>3. QED
    BY <2>1, <1>k, <2>2 DEF Retry, Typed, TypeOK, SidsMinted, TurnsTyped, registry, objects
<1>5. CASE Saved(t)
  <2> DEFINE r == [agent |-> key[t][1], sid |-> sid[mine[t]]]
  <2>1. mine[t] \in Wrappers /\ sid[mine[t]] \in 0..minted
    BY <1>5, TaskType DEF Saved, HasWrapper, Equipped, Typed, TypeOK
  <2>2. r \in Record /\ SidOf(r) <= minted
    BY <1>k, <2>1, TaskType, RuntimeAssumption DEF Record, SidOf
  <2>3. records' = [records EXCEPT ![Scope(key[t][2])] = r]
    BY <1>5 DEF Saved
  <2>4. /\ records' \in [StoreKeys -> Record \cup {NoRecord}]
        /\ \A s \in StoreKeys : SidOf(records'[s]) <= minted
    BY <2>2, <2>3 DEF Typed, TypeOK, SidsMinted
  <2>5. pc' \in [Procs -> Labels] /\ pc'[t] = "done"
    BY <1>5, <1>k DEF Saved, Goto, Labels
  <2>6. QED
    BY <1>5, <1>k, <2>4, <2>5 DEF Saved, Typed, TypeOK, SidsMinted, TurnsTyped, registry, objects,
                                  turns
<1>6. CASE TurnFails(t)
  <2>1. pc' \in [Procs -> Labels] /\ pc'[t] = "failed"
    BY <1>6, <1>k DEF TurnFails, Goto, Labels
  <2>2. QED
    BY <1>6, <1>k, <2>1 DEF TurnFails, Typed, TypeOK, SidsMinted, TurnsTyped, registry, objects,
                            turns
<1>7. QED
  BY <1>1, <1>2, <1>3, <1>4, <1>5, <1>6 DEF OwnTurn, Proceed, Acquire

\* A step is a task's, on its wrapper or in the registry, or the background's.
LEMMA StepCases ==
  ASSUME Step
  PROVE  \/ \E t \in Tasks : OwnTurn(t) \/ RegistryTurn(t) \/ BeginTurn(t)
         \/ Background
BY DEF Step, TurnStep, Fault, OwnTurn, RegistryTurn

\* Every wrapper a handler uses was given to it, and only what the provider
\* was sent counts.
LEMMA WrapperKept ==
  ASSUME Typed, HasWrapper, NEW t \in Tasks, OwnTurn(t)
  PROVE  (pc'[t] \in Equipped => mine'[t] # 0) /\ mine' = mine
<1>k. t \in Procs /\ pc \in [Procs -> Labels]
  BY TaskType DEF Typed, TypeOK
<1>1. mine' = mine
  BY DEF OwnTurn, Proceed, Acquire, Enter, Answered, Refused, TimesOut, Retry, Saved, TurnFails
<1>2. pc[t] \in Equipped
  BY DEF OwnTurn, Proceed, Acquire, Answered, Refused, TimesOut, Saved, TurnFails, Equipped
<1>3. QED
  BY <1>1, <1>2 DEF HasWrapper

\* Every step keeps the types, and a message is sent in a conversation there is.
LEMMA TypedConversation ==
  ASSUME Typed, TurnsTyped, HasWrapper, Step
  PROVE  /\ Typed' /\ TurnsTyped' /\ HasWrapper'
         /\ KeysKept
         /\ minted <= minted'
         /\ \A t \in Tasks : Sends(t) => sent'[t] \in 1..minted'
<1>1. ASSUME NEW t \in Tasks, OwnTurn(t)
      PROVE  /\ Typed' /\ TurnsTyped' /\ HasWrapper'
             /\ KeysKept
             /\ minted <= minted'
             /\ \A u \in Tasks : Sends(u) => sent'[u] \in 1..minted'
  <2>1. KeysKept /\ Elsewhere(t)
    BY <1>1, OwnFrame
  <2>2. Typed' /\ TurnsTyped' /\ minted <= minted'
    BY <1>1, TypedTurn
  <2>3. HasWrapper'
    BY <1>1, <2>1, WrapperKept DEF HasWrapper, Elsewhere
  <2>4. \A u \in Tasks : Sends(u) => sent'[u] \in 1..minted'
    BY <1>1, <2>1, TypedTurn DEF Sends, Elsewhere
  <2>5. QED
    BY <2>1, <2>2, <2>3, <2>4
<1>2. ASSUME NEW t \in Tasks, RegistryTurn(t)
      PROVE  /\ Typed' /\ TurnsTyped' /\ HasWrapper'
             /\ KeysKept
             /\ minted <= minted'
             /\ \A u \in Tasks : Sends(u) => sent'[u] \in 1..minted'
  <2>1. KeysKept /\ Elsewhere(t)
    BY <1>2, FrameEnsure DEF RegistryTurn
  <2>2. Typed' /\ minted <= minted'
    BY <1>2, TypedTask, MintedTask, TaskType DEF RegistryTurn
  <2>3. TurnsTyped'
    BY <1>2, <2>2, TurnsKept DEF RegistryTurn, Typed, TypeOK
  <2>4. (pc'[t] \in Equipped => mine'[t] # 0) /\ pc'[t] # "sending"
    BY <1>2, EquippedStep DEF RegistryTurn
  <2>5. HasWrapper'
    BY <2>1, <2>4 DEF HasWrapper, Elsewhere
  <2>6. \A u \in Tasks : ~Sends(u)
    BY <2>1, <2>4 DEF Sends, Elsewhere
  <2>7. QED
    BY <2>1, <2>2, <2>3, <2>5, <2>6
<1>3. ASSUME NEW t \in Tasks, BeginTurn(t)
      PROVE  /\ Typed' /\ TurnsTyped' /\ HasWrapper'
             /\ KeysKept
             /\ minted <= minted'
             /\ \A u \in Tasks : Sends(u) => sent'[u] \in 1..minted'
  <2>1. KeysKept /\ Elsewhere(t)
    BY <1>3, FrameBegin
  <2>2. Typed' /\ minted' = minted /\ minted \in Nat
    BY <1>3, TypedTask DEF BeginTurn, Begin, objects, Typed, TypeOK
  <2>3. TurnsTyped'
    BY <1>3, <2>2, TurnsKept DEF BeginTurn
  <2>4. pc'[t] \in {"stop", "ensure"}
    BY <1>3, TaskType DEF BeginTurn, Begin, Goto, Typed, TypeOK
  <2>5. HasWrapper'
    BY <2>1, <2>4 DEF HasWrapper, Elsewhere, Equipped
  <2>6. \A u \in Tasks : ~Sends(u)
    BY <2>1, <2>4 DEF Sends, Elsewhere
  <2>7. QED
    BY <2>1, <2>2, <2>3, <2>5, <2>6
<1>4. ASSUME Background
      PROVE  /\ Typed' /\ TurnsTyped' /\ HasWrapper'
             /\ KeysKept
             /\ minted <= minted'
             /\ \A u \in Tasks : Sends(u) => sent'[u] \in 1..minted'
  <2>1. KeysKept /\ TasksStay
    BY <1>4, FrameBackground
  <2>2. Typed' /\ minted <= minted'
    BY <1>4, TypedBackground, MintedBackground
  <2>3. TurnsTyped'
    BY <1>4, <2>2, TurnsKept DEF Background, Typed, TypeOK
  <2>4. HasWrapper' /\ \A u \in Tasks : ~Sends(u)
    BY <2>1 DEF HasWrapper, TasksStay, Sends
  <2>5. QED
    BY <2>1, <2>2, <2>3, <2>4
<1>5. QED
  BY <1>1, <1>2, <1>3, <1>4, StepCases

\* What is remembered is of provider sessions there are.
LEMMA RememberType ==
  ASSUME HistoryTyped, minted \in Nat, minted' \in Nat, minted <= minted', Remember,
         KeysKept, key \in [Procs -> Keys], Tasks \subseteq Procs,
         \A t \in Tasks : Sends(t) => sent'[t] \in 1..minted'
  PROVE  HistoryTyped'
<1>1. 1..minted \subseteq 1..minted' /\ 0..minted \subseteq 0..minted' /\ 1..minted' \subseteq 0..minted'
      /\ 0 \in 0..minted'
  OBVIOUS
<1>2. said' \in [Keys -> SUBSET (1..minted')]
  BY <1>1 DEF Remember, HistoryTyped
<1>3. \A t \in Tasks : barred[t] \subseteq 1..minted'
  BY <1>1 DEF HistoryTyped
<1>4. old' \in [Keys -> SUBSET (1..minted')]
  BY <1>1, <1>3 DEF Remember, HistoryTyped
<1>5. \A t \in Tasks : said[key[t]] \subseteq 1..minted' /\ old[key[t]] \subseteq 1..minted'
  BY <1>1 DEF HistoryTyped
<1>6. barred' \in [Tasks -> SUBSET (1..minted')]
  BY <1>3, <1>5 DEF Remember
<1>7. last' \in [Keys -> 0..minted']
  <2>1. ASSUME NEW k \in Keys PROVE last'[k] \in 0..minted'
    <3>1. last'[k] = IF \E t \in Tasks : (EndsNew(t) \/ EndsModel(t)) /\ key[t] = k THEN 0
                     ELSE IF \E t \in Tasks : Sends(t) /\ key[t] = k
                            THEN sent'[CHOOSE t \in Tasks : Sends(t) /\ key[t] = k]
                            ELSE last[k]
      BY DEF Remember
    <3>2. CASE \E t \in Tasks : Sends(t) /\ key[t] = k
      <4> DEFINE s == CHOOSE t \in Tasks : Sends(t) /\ key[t] = k
      <4>1. s \in Tasks /\ Sends(s)
        BY <3>2
      <4>2. sent'[s] \in 0..minted'
        BY <4>1, <1>1
      <4>3. last'[k] \in {0, sent'[s]}
        BY <3>1, <3>2
      <4>4. QED
        BY <4>2, <4>3, <1>1
    <3>3. CASE ~\E t \in Tasks : Sends(t) /\ key[t] = k
      BY <3>1, <3>3, <1>1 DEF HistoryTyped
    <3>4. QED
      BY <3>2, <3>3
  <2>2. QED
    BY <2>1 DEF Remember
<1>8. QED
  BY <1>2, <1>4, <1>6, <1>7 DEF HistoryTyped

\* Types are inductive.
LEMMA TypedConvStep ==
  ASSUME ConvTyped, [ConvNext]_vars
  PROVE  ConvTyped' /\ KeysKept
<1>1. CASE ConvNext
  <2>1. /\ Typed' /\ TurnsTyped' /\ HasWrapper' /\ KeysKept /\ minted <= minted'
        /\ \A t \in Tasks : Sends(t) => sent'[t] \in 1..minted'
    BY <1>1, TypedConversation DEF ConvNext, ConvTyped
  <2>2. HistoryTyped'
    BY <1>1, <2>1, RememberType DEF ConvNext, ConvTyped, Typed, TypeOK, Procs
  <2>3. QED
    BY <2>1, <2>2 DEF ConvTyped
<1>2. CASE UNCHANGED vars
  <2>1. Typed'
    BY <1>2, TypedStep DEF ConvTyped, vars
  <2>2. UNCHANGED <<turns, history, minted, pc, mine, key>>
    BY <1>2 DEF vars, runtimeVars, objects, handlers
  <2>3. TurnsTyped' /\ HistoryTyped' /\ HasWrapper' /\ KeysKept
    BY <2>2 DEF ConvTyped, TurnsTyped, HistoryTyped, HasWrapper, turns, history, KeysKept
  <2>4. QED
    BY <2>1, <2>3 DEF ConvTyped
<1>3. QED
  BY <1>1, <1>2

\* The first state is typed.
LEMMA TypedConvInit == ConvInit => ConvTyped
<1>1. SUFFICES ASSUME ConvInit PROVE ConvTyped
  OBVIOUS
<1>2. Typed /\ Init /\ minted = 0
  BY <1>1, TypedInit DEF ConvInit, Init
<1>3. 0 \in 0..minted /\ {} \in SUBSET (1..minted)
  BY <1>2
<1>4. TurnsTyped /\ HistoryTyped
  BY <1>1, <1>3 DEF ConvInit, TurnsTyped, HistoryTyped
<1>5. HasWrapper
  BY <1>2, RuntimeAssumption DEF Init, HasWrapper, Equipped, Procs
<1>6. QED
  BY <1>2, <1>4, <1>5 DEF ConvTyped

\* Every state is typed.
LEMMA AlwaysTyped == ConvSpec => []ConvTyped
<1>1. ConvTyped /\ [ConvNext]_vars => ConvTyped'
  BY TypedConvStep
<1>2. QED
  BY <1>1, TypedConvInit, PTL DEF ConvSpec

\* The types of Conversation's state: every provider session that was sent a
\* message, that the provider has or that is remembered was minted.
THEOREM TurnsTypeCorrect == ConvSpec => []TurnsTypeOK
<1>1. ConvTyped => TurnsTypeOK
  BY DEF ConvTyped, Typed, TurnsTyped, HistoryTyped, TurnsTypeOK
<1>2. QED
  BY <1>1, AlwaysTyped, PTL

-----------------------------------------------------------------------------
\* A fresh conversation after /new, when a /new meets no other handler.  Once
\* its clear is called no place of the session holds a provider session that
\* took a message before, and nothing brings one back: each wrapper, record
\* and lookup has its provider session from one of these places or a fresh one.

\* One agent talks in a channel: sessions.json has one record for a channel,
\* whatever agent wrote it.
OneAgentEach == \A t, u \in Tasks : key[t][2] = key[u][2] => key[t] = key[u]

\* The session of k cannot come to provider session x.
Absent(x, k) ==
  /\ SidOf(RecordOf(k)) # x
  /\ wrappers[k] # 0 => sid[wrappers[k]] # x
  /\ \A t \in InFlight : key[t] = k =>
       /\ mine[t] # 0 => sid[mine[t]] # x
       /\ SidOf(seen[t]) # x

NewLabels == \A t \in Tasks : Kind[t] = "new" => pc[t] \in {"idle", "stop", "clear", "done", "failed"}

NothingYet == \A t \in Tasks : pc[t] = "idle" \/ Kind[t] = "new" => mine[t] = 0 /\ seen[t] = NoRecord

NewAlone == \A t, u \in InFlight : Kind[t] = "new" => u = t

OldGone ==
  /\ \A t \in Tasks : \A x \in old[key[t]] : Absent(x, key[t])
  /\ \A t \in Tasks : Kind[t] = "new" /\ pc[t] = "clear" => \A x \in barred[t] : Absent(x, key[t])
  /\ \A t \in Tasks : Kind[t] # "new" /\ pc[t] # "idle" => barred[t] \subseteq old[key[t]]

\* A conversation that a channel has forgotten does not come back through a step
\* that works with records and wrappers only.
LEMMA AbsentHands ==
  ASSUME Typed, Typed', NEW p \in Procs, Hands(p), NEW k \in Keys, NEW x \in 1..minted,
         Absent(x, k),
         p # Watchdog /\ key[p][2] = k[2] => key[p] = k,
         key[p] = k => p \in InFlight \/ SidOf(seen[p]) = 0,
         \A t \in Tasks : key[t] = k /\ pc'[t] \notin Ended =>
            pc[t] \notin Ended \/ (mine'[t] = 0 /\ SidOf(seen'[t]) = 0)
  PROVE  Absent(x, k)'
<1>k. k[2] \in Channels /\ Scope(k[2]) \in StoreKeys /\ minted \in Nat /\ x # 0 /\ x # minted + 1
  BY KeyParts DEF Typed, TypeOK
<1>1. ASSUME key[p] = k, NEW s \in Give(p) PROVE s # x
  BY <1>1, <1>k DEF Give, Absent
<1>2. SidOf(RecordOf(k)') # x
  <2>1. RecordOf(k) = records[Scope(k[2])] /\ RecordOf(k)' = records'[Scope(k[2])]
    BY <1>k DEF RecordOf, Lookup
  <2>2. Scope(k[2]) = Scope(key[p][2]) => k[2] = key[p][2]
    BY DEF Scope
  <2>3. QED
    BY <1>k, <1>1, <2>1, <2>2 DEF Hands, Absent
<1>3. wrappers'[k] # 0 => sid'[wrappers'[k]] # x
  <2>1. wrappers[k] \in 0..built
    BY DEF Typed, TypeOK
  <2>2. QED
    BY <1>k, <1>1, <2>1 DEF Hands, Absent, Typed, TypeOK
<1>4. ASSUME NEW t \in Tasks, key'[t] = k, pc'[t] \notin Ended
      PROVE  (mine'[t] # 0 => sid'[mine'[t]] # x) /\ SidOf(seen'[t]) # x
  <2>1. key[t] = k /\ mine[t] \in 0..built
    BY <1>4 DEF Hands, KeysKept, Typed, TypeOK, Procs
  <2>2. CASE pc[t] \notin Ended
    <3>1. (mine[t] # 0 => sid[mine[t]] # x) /\ SidOf(seen[t]) # x
      BY <2>1, <2>2 DEF Absent, InFlight
    <3>2. mine'[t] # 0 => sid'[mine'[t]] # x
      BY <1>k, <1>1, <2>1, <3>1 DEF Hands, Typed, TypeOK
    <3>3. SidOf(seen'[t]) # x
      BY <1>k, <1>1, <2>1, <3>1 DEF Hands
    <3>4. QED
      BY <3>2, <3>3
  <2>3. QED
    BY <1>4, <1>k, <2>1, <2>2
<1>5. QED
  BY <1>2, <1>3, <1>4 DEF Absent, InFlight

\* Where Conversation's own steps put provider sessions.
LEMMA OwnSids ==
  ASSUME Typed, HasWrapper, NEW t \in Tasks, OwnTurn(t)
  PROVE  /\ \A w \in Wrappers : sid'[w] \in {sid[w], minted + 1} /\ (w # mine[t] => sid'[w] = sid[w])
         /\ \A s \in StoreKeys :
              \/ records'[s] = records[s]
              \/ s = Scope(key[t][2]) /\ SidOf(records'[s]) \in {minted + 1, sid[mine[t]]}
         /\ UNCHANGED <<wrappers, mine, seen, built>>
         /\ pc[t] \notin Ended /\ pc[t] \in Equipped /\ mine[t] \in Wrappers
<1>1. UNCHANGED <<wrappers, mine, seen, built>>
  BY DEF OwnTurn, Proceed, Acquire, Enter, SendMessage, SwitchModel, LocalCommand, Answered,
         Refused, TimesOut, Retry, Saved, TurnFails, registry, objects
<1>2. pc[t] \in Equipped /\ mine[t] \in Wrappers
  <2>1. pc[t] \in Equipped
    BY DEF OwnTurn, Proceed, Acquire, Answered, Refused, TimesOut, Saved, TurnFails, Equipped
  <2>2. QED
    BY <2>1, TaskType DEF HasWrapper
<1>3. CASE SendMessage(t) /\ Enter(t)
  <2>1. sid' = [sid EXCEPT ![mine[t]] = IF sid[mine[t]] = 0 THEN minted + 1 ELSE sid[mine[t]]]
        /\ records' = records
    BY <1>3 DEF SendMessage
  <2>2. \A w \in Wrappers : sid'[w] \in {sid[w], minted + 1} /\ (w # mine[t] => sid'[w] = sid[w])
    BY <2>1 DEF Typed, TypeOK
  <2>3. QED
    BY <1>1, <1>2, <2>1, <2>2 DEF Ended, Equipped
<1>4. CASE SwitchModel(t) /\ Enter(t)
  <2> DEFINE r == [agent |-> key[t][1], sid |-> minted + 1]
  <2>1. sid' = [sid EXCEPT ![mine[t]] = minted + 1]
        /\ records' = [records EXCEPT ![Scope(key[t][2])] = r]
    BY <1>4 DEF SwitchModel
  <2>2. SidOf(r) = minted + 1
    BY TaskType, RuntimeAssumption DEF SidOf, Record, Typed, TypeOK
  <2>3. \A w \in Wrappers : sid'[w] \in {sid[w], minted + 1} /\ (w # mine[t] => sid'[w] = sid[w])
    BY <2>1 DEF Typed, TypeOK
  <2>4. \A s \in StoreKeys : \/ records'[s] = records[s]
                             \/ s = Scope(key[t][2]) /\ records'[s] = r
    BY <2>1 DEF Typed, TypeOK
  <2>5. QED
    BY <1>1, <1>2, <2>2, <2>3, <2>4 DEF Ended, Equipped
<1>5. CASE Saved(t)
  <2> DEFINE r == [agent |-> key[t][1], sid |-> sid[mine[t]]]
  <2>1. sid' = sid /\ records' = [records EXCEPT ![Scope(key[t][2])] = r]
    BY <1>5 DEF Saved, objects
  <2>2. SidOf(r) = sid[mine[t]]
    BY <1>2, TaskType, RuntimeAssumption DEF SidOf, Record, Typed, TypeOK
  <2>3. \A s \in StoreKeys : \/ records'[s] = records[s]
                             \/ s = Scope(key[t][2]) /\ records'[s] = r
    BY <2>1 DEF Typed, TypeOK
  <2>4. QED
    BY <1>1, <1>2, <2>1, <2>2, <2>3 DEF Ended, Equipped
<1>6. CASE sid' = sid /\ records' = records
  BY <1>1, <1>2, <1>6 DEF Ended, Equipped
<1>7. QED
  BY <1>3, <1>4, <1>5, <1>6 DEF OwnTurn, Proceed, Acquire, Enter, LocalCommand, Answered,
     Refused, TimesOut, Retry, TurnFails, objects

\* Nor through a handler's turn on its wrapper.
LEMMA AbsentOwn ==
  ASSUME Typed, HasWrapper, NEW t \in Tasks, OwnTurn(t), NEW k \in Keys, NEW x \in 1..minted,
         Absent(x, k), key[t][2] = k[2] => key[t] = k
  PROVE  Absent(x, k)'
<1>k. k[2] \in Channels /\ Scope(k[2]) \in StoreKeys /\ minted \in Nat /\ x # 0 /\ x # minted + 1
  BY KeyParts DEF Typed, TypeOK
<1>0. KeysKept /\ Elsewhere(t)
  BY OwnFrame
<1>1. /\ \A w \in Wrappers : sid'[w] \in {sid[w], minted + 1}
      /\ \A s \in StoreKeys :
           \/ records'[s] = records[s]
           \/ s = Scope(key[t][2]) /\ SidOf(records'[s]) \in {minted + 1, sid[mine[t]]}
      /\ UNCHANGED <<wrappers, mine, seen, built>>
      /\ pc[t] \notin Ended /\ mine[t] \in Wrappers
  BY OwnSids
<1>w. \A w \in 0..built : w # 0 => w \in Wrappers
  BY RuntimeAssumption DEF Typed, TypeOK, Wrappers
<1>2. SidOf(RecordOf(k)') # x
  <2>1. RecordOf(k) = records[Scope(k[2])] /\ RecordOf(k)' = records'[Scope(k[2])]
    BY <1>k DEF RecordOf, Lookup
  <2>2. Scope(k[2]) = Scope(key[t][2]) => k[2] = key[t][2]
    BY DEF Scope
  <2>3. key[t] = k => sid[mine[t]] # x
    BY <1>1, <1>w DEF Absent, InFlight, Wrappers
  <2>4. QED
    BY <1>k, <1>1, <2>1, <2>2, <2>3 DEF Absent
<1>3. wrappers'[k] # 0 => sid'[wrappers'[k]] # x
  BY <1>k, <1>1, <1>w DEF Absent, Typed, TypeOK
<1>4. ASSUME NEW u \in Tasks, key'[u] = k, pc'[u] \notin Ended
      PROVE  (mine'[u] # 0 => sid'[mine'[u]] # x) /\ SidOf(seen'[u]) # x
  <2>1. key[u] = k /\ mine[u] \in 0..built /\ pc[u] \notin Ended
    BY <1>4, <1>0, <1>1 DEF KeysKept, Elsewhere, Typed, TypeOK, Procs
  <2>2. (mine[u] # 0 => sid[mine[u]] # x) /\ SidOf(seen[u]) # x
    BY <2>1 DEF Absent, InFlight
  <2>3. QED
    BY <1>k, <1>1, <1>w, <2>1, <2>2
<1>5. QED
  BY <1>2, <1>3, <1>4 DEF Absent, InFlight

\* What the background does, it does with records and wrappers only.
LEMMA HandsBackground ==
  ASSUME Typed, Background
  PROVE  Hands(Watchdog)
<1>k. Watchdog \in Procs
  BY DEF Procs
<1>1. ASSUME NEW w \in Wrappers, WrapperCrashes(w)
      PROVE  Hands(Watchdog)
  BY <1>k, <1>1, HandsQuiet DEF WrapperCrashes, registry, handlers, KeysKept
<1>2. ASSUME NEW k \in Keys, GoesIdle(k)
      PROVE  Hands(Watchdog)
  BY <1>k, <1>2, HandsQuiet DEF GoesIdle, objects, handlers, KeysKept
<1>3. QED
  BY <1>k, <1>1, <1>2, HandsRestart, HandsWatchdog DEF Background

\* Where a handler's step in the registry starts, and where /new goes there.
LEMMA RegistryFrom ==
  ASSUME NEW t \in Tasks, RegistryTurn(t)
  PROVE  pc[t] \in {"ensure", "start", "upserting", "backoff", "restart", "stop", "clear"}
BY DEF RegistryTurn, EnsureStep, EnsureReuse, EnsureDead, EnsureMissing, EnsureStart, EnsureUpserted,
       RestartStep, RestartWakes, RestartStarts, RestartFault, RestartFails, RestartRaises,
       ResetStep, ResetSession, Cleared, FailStep, EnsureStartFails, EnsureUpsertFails, ClearFails

\* A handler at work in the registry does not come out of it sending.
LEMMA RegistryTo ==
  ASSUME Typed, HasWrapper, NEW t \in Tasks, RegistryTurn(t)
  PROVE  pc'[t] \notin {"idle", "sending", "waiting", "saving"}
BY EquippedStep DEF RegistryTurn

\* /new takes its three steps where it stops the wrapper and clears the record.
LEMMA ResetFrom ==
  ASSUME NEW t \in Tasks, RegistryTurn(t), pc[t] \in {"stop", "clear"}
  PROVE  ResetSession(t) \/ Cleared(t) \/ ClearFails(t)
BY DEF RegistryTurn, EnsureStep, EnsureReuse, EnsureDead, EnsureMissing, EnsureStart, EnsureUpserted,
       RestartStep, RestartWakes, RestartStarts, RestartFault, RestartFails, RestartRaises,
       ResetStep, FailStep, EnsureStartFails, EnsureUpsertFails

\* Where a handler's turn on its wrapper ends up.
LEMMA OwnTo ==
  ASSUME Typed, NEW t \in Tasks, OwnTurn(t)
  PROVE  pc'[t] \in {"waiting", "sending", "saving", "stop", "done", "failed"}
<1>k. t \in Procs /\ pc \in [Procs -> Labels]
  BY TaskType DEF Typed, TypeOK
<1>1. CASE Proceed(t) \/ Acquire(t)
  BY <1>1, <1>k DEF Proceed, Acquire, Enter, SendMessage, SwitchModel, LocalCommand, Goto
<1>2. CASE ~(Proceed(t) \/ Acquire(t))
  BY <1>2, <1>k DEF OwnTurn, Answered, Refused, TimesOut, Retry, Saved, TurnFails, Goto
<1>3. QED
  BY <1>1, <1>2

\* Where a handler begins, and what it has then: nothing.
LEMMA BeginTo ==
  ASSUME Typed, NEW t \in Tasks, BeginTurn(t)
  PROVE  /\ pc[t] = "idle"
         /\ pc'[t] = IF Kind[t] = "new" THEN "stop" ELSE "ensure"
         /\ UNCHANGED <<mine, seen, wrappers, records, objects, key, turns>>
BY TaskType DEF BeginTurn, Begin, Goto, registry, Typed, TypeOK

\* A handler that has not begun has no wrapper and has read no record.
LEMMA BeginningsStep ==
  ASSUME Typed, HasWrapper, NewLabels, NothingYet, Step
  PROVE  NewLabels' /\ NothingYet'
<1>1. ASSUME NEW t \in Tasks, OwnTurn(t) PROVE NewLabels' /\ NothingYet'
  <2>1. Elsewhere(t) /\ UNCHANGED <<mine, seen>> /\ pc[t] \in Equipped
    BY <1>1, OwnFrame, OwnSids
  <2>2. pc'[t] # "idle" /\ Kind[t] # "new"
    BY <1>1, <2>1, OwnTo DEF NewLabels, Equipped
  <2>3. QED
    BY <2>1, <2>2 DEF Elsewhere, NewLabels, NothingYet
<1>2. ASSUME NEW t \in Tasks, RegistryTurn(t) PROVE NewLabels' /\ NothingYet'
  <2>1. Elsewhere(t) /\ pc'[t] # "idle"
    BY <1>2, FrameEnsure, EquippedStep DEF RegistryTurn
  <2>2. CASE Kind[t] = "new"
    <3>1. ResetSession(t) \/ Cleared(t) \/ ClearFails(t)
      BY <1>2, <2>2, RegistryFrom, ResetFrom DEF NewLabels
    <3>2. pc'[t] \in {"clear", "done", "failed"} /\ UNCHANGED <<mine, seen>>
      BY <2>2, <3>1, TaskType DEF ResetSession, Cleared, ClearFails, Goto, Typed, TypeOK
    <3>3. QED
      BY <2>1, <3>2 DEF Elsewhere, NewLabels, NothingYet
  <2>3. CASE Kind[t] # "new"
    BY <2>1, <2>3 DEF Elsewhere, NewLabels, NothingYet
  <2>4. QED
    BY <2>2, <2>3
<1>3. ASSUME NEW t \in Tasks, BeginTurn(t) PROVE NewLabels' /\ NothingYet'
  BY <1>3, BeginTo, FrameBegin DEF Elsewhere, NewLabels, NothingYet
<1>4. CASE Background
  BY <1>4, FrameBackground DEF TasksStay, NewLabels, NothingYet
<1>5. QED
  BY <1>1, <1>2, <1>3, <1>4, StepCases

\* While no second handler may overlap a /new, /new is alone in its channel.
LEMMA AloneStep ==
  ASSUME Typed, HasWrapper, NewAlone, "new" \notin scenario.may, Step
  PROVE  NewAlone'
<1>1. ASSUME InFlight' \subseteq InFlight PROVE NewAlone'
  BY <1>1 DEF NewAlone
<1>2. ASSUME NEW t \in Tasks, OwnTurn(t) \/ RegistryTurn(t) PROVE NewAlone'
  <2>1. Elsewhere(t) /\ pc[t] \notin Ended
    BY <1>2, OwnFrame, OwnSids, FrameEnsure, RegistryFrom DEF RegistryTurn, Ended
  <2>2. QED
    BY <1>1, <2>1 DEF Elsewhere, InFlight
<1>3. ASSUME NEW t \in Tasks, BeginTurn(t) PROVE NewAlone'
  <2>1. \A u \in InFlight : Kind[t] # "new" /\ Kind[u] # "new"
    BY <1>3 DEF BeginTurn, May
  <2>2. Elsewhere(t)
    BY <1>3, FrameBegin
  <2>3. InFlight' \subseteq InFlight \cup {t}
    BY <2>2 DEF Elsewhere, InFlight
  <2>4. QED
    BY <2>1, <2>3 DEF NewAlone
<1>4. CASE Background
  <2>1. InFlight' \subseteq InFlight
    BY <1>4, FrameBackground DEF TasksStay, InFlight
  <2>2. QED
    BY <1>1, <2>1
<1>5. QED
  BY <1>2, <1>3, <1>4, StepCases

\* What a channel has forgotten stays forgotten, whatever step is taken.
LEMMA AbsentKept ==
  ASSUME ConvTyped, Typed', NothingYet, OneAgentEach, Step,
         NEW u \in Tasks, NEW x \in 1..minted, Absent(x, key[u])
  PROVE  Absent(x, key[u])'
<1>k. PICK k \in Keys : k = key[u]
  BY TaskType DEF ConvTyped
<1>0. Typed /\ HasWrapper /\ \A t \in Tasks : t \in Procs /\ (key[t][2] = k[2] => key[t] = k)
  BY <1>k DEF ConvTyped, OneAgentEach, Procs
<1>n. SidOf(NoRecord) = 0
  BY DEF SidOf
<1>1. ASSUME KeysKept, Absent(x, k)' PROVE Absent(x, key[u])'
  <2>1. key'[u] = k
    BY <1>1, <1>k DEF KeysKept
  <2>2. QED
    BY <1>1, <2>1
<1>2. ASSUME NEW t \in Tasks, OwnTurn(t) PROVE Absent(x, key[u])'
  <2>1. Elsewhere(t) /\ KeysKept /\ pc[t] \notin Ended
    BY <1>0, <1>2, OwnFrame, OwnSids
  <2>2. QED
    BY <1>0, <1>1, <1>2, <1>k, <2>1, AbsentOwn
<1>3. ASSUME NEW t \in Tasks, RegistryTurn(t) PROVE Absent(x, key[u])'
  <2>1. Elsewhere(t) /\ KeysKept /\ pc[t] \notin Ended
    BY <1>0, <1>3, FrameEnsure, RegistryFrom DEF RegistryTurn, Ended
  <2>2. Hands(t)
    BY <1>0, <1>3, HandsEnsure, HandsRestart, HandsTasks DEF RegistryTurn
  <2>3. Absent(x, k)'
    BY <1>0, <1>k, <2>1, <2>2, AbsentHands DEF Elsewhere, InFlight
  <2>4. QED
    BY <1>1, <1>k, <2>1, <2>3
<1>4. ASSUME NEW t \in Tasks, BeginTurn(t) PROVE Absent(x, key[u])'
  <2>1. Elsewhere(t) /\ KeysKept /\ pc[t] = "idle" /\ UNCHANGED <<mine, seen>>
    BY <1>0, <1>4, FrameBegin, BeginTo
  <2>2. mine[t] = 0 /\ SidOf(seen[t]) = 0
    BY <2>1, <1>n DEF NothingYet
  <2>3. Hands(t)
    BY <1>0, <1>4, HandsTasks DEF BeginTurn
  <2>4. \A v \in Tasks : pc'[v] \notin Ended =>
          pc[v] \notin Ended \/ (mine'[v] = 0 /\ SidOf(seen'[v]) = 0)
    BY <2>1, <2>2 DEF Elsewhere
  <2>5. Absent(x, k)'
    BY <1>0, <1>k, <2>2, <2>3, <2>4, AbsentHands
  <2>6. QED
    BY <1>1, <1>k, <2>1, <2>5
<1>5. CASE Background
  <2>1. TasksStay /\ KeysKept /\ Hands(Watchdog)
    BY <1>0, <1>5, FrameBackground, HandsBackground
  <2>2. Watchdog \in Procs /\ SidOf(seen[Watchdog]) = 0
    BY <1>0, <1>n DEF Procs, Typed, SidsMinted
  <2>3. Absent(x, k)'
    BY <1>0, <1>k, <2>1, <2>2, AbsentHands DEF TasksStay
  <2>4. QED
    BY <1>1, <1>k, <2>1, <2>3
<1>6. QED
  BY <1>2, <1>3, <1>4, <1>5, StepCases

\* The clear of a /new that meets no one takes every provider session away.
LEMMA ResetAbsent ==
  ASSUME Typed, NewAlone, NothingYet, NEW t \in Tasks, Kind[t] = "new", ResetSession(t),
         NEW x \in 1..minted
  PROVE  Absent(x, key[t])'
<1>k. PICK k \in Keys : k = key[t] /\ Scope(k[2]) \in StoreKeys
  BY TaskType
<1>n. SidOf(NoRecord) = 0 /\ x # 0
  BY DEF SidOf
<1>1. /\ records'[Scope(k[2])] = NoRecord /\ wrappers'[k] = 0 /\ key'[t] = k
      /\ UNCHANGED <<mine, seen, key>>
  BY <1>k DEF ResetSession, Dropped, Typed, TypeOK
<1>2. SidOf(RecordOf(k)') # x
  BY <1>k, <1>n, <1>1 DEF RecordOf, Lookup
<1>3. Elsewhere(t) /\ pc[t] = "stop"
  BY FrameEnsure DEF ResetStep, ResetSession
<1>4. ASSUME NEW u \in Tasks, pc'[u] \notin Ended
      PROVE  mine'[u] = 0 /\ seen'[u] = NoRecord
  <2>1. u = t
    BY <1>3, <1>4 DEF NewAlone, InFlight, Elsewhere, Ended
  <2>2. QED
    BY <1>1, <2>1 DEF NothingYet
<1>5. Absent(x, k)'
  BY <1>n, <1>1, <1>2, <1>4 DEF Absent, InFlight
<1>6. QED
  BY <1>1, <1>5

\* Only a /new ends one, at its clear.
LEMMA EndsNewKind ==
  ASSUME Typed, HasWrapper, Step, NEW u \in Tasks, EndsNew(u)
  PROVE  Kind[u] = "new"
<1>1. pc[u] = "clear" /\ pc'[u] = "done"
  BY DEF EndsNew
<1>2. ASSUME NEW t \in Tasks, OwnTurn(t) PROVE FALSE
  BY <1>1, <1>2, OwnFrame, OwnSids DEF Elsewhere, Equipped
<1>3. ASSUME NEW t \in Tasks, RegistryTurn(t) PROVE Kind[u] = "new"
  <2>1. t = u
    BY <1>1, <1>3, FrameEnsure DEF RegistryTurn, Elsewhere
  <2>2. ResetSession(u) \/ Cleared(u) \/ ClearFails(u)
    BY <1>1, <1>3, <2>1, ResetFrom
  <2>3. QED
    BY <1>1, <2>2, TaskType DEF ResetSession, Cleared, ClearFails, Goto, Typed, TypeOK
<1>4. ASSUME NEW t \in Tasks, BeginTurn(t) PROVE FALSE
  BY <1>1, <1>4, FrameBegin, BeginTo DEF Elsewhere
<1>5. ~Background
  BY <1>1, FrameBackground DEF TasksStay
<1>6. QED
  BY <1>2, <1>3, <1>4, <1>5, StepCases

\* What becomes old was barred by a /new that ends.
LEMMA OldFrom ==
  ASSUME Remember, NEW k \in Keys, NEW x \in old'[k]
  PROVE  x \in old[k] \/ \E u \in Tasks : EndsNew(u) /\ key[u] = k /\ x \in barred[u]
BY DEF Remember

\* Conversations from before a /new are remembered as such.
LEMMA OldGrows ==
  ASSUME Remember, NEW k \in Keys
  PROVE  old[k] \subseteq old'[k]
BY DEF Remember

\* What a message must not be sent in is fixed when it begins.
LEMMA BarredStep ==
  ASSUME Remember, NEW t \in Tasks
  PROVE  /\ pc[t] # "idle" => barred'[t] = barred[t]
         /\ pc[t] = "idle" /\ pc'[t] # "idle" /\ Kind[t] # "new" => barred'[t] = old[key[t]]
BY DEF Remember

\* Conversations from before a /new stay out of records, wrappers and hands.
LEMMA OldStep ==
  ASSUME ConvTyped, Typed', NothingYet, NewLabels, NewAlone, OneAgentEach, OldGone,
         Step, Remember, KeysKept
  PROVE  OldGone'
<1>0. Typed /\ HasWrapper
  BY DEF ConvTyped
<1>k. \A t \in Tasks : key[t] \in Keys /\ key'[t] = key[t]
  BY <1>0, TaskType DEF KeysKept
<1>1. ASSUME NEW t \in Tasks, NEW x \in old'[key[t]] PROVE Absent(x, key[t])'
  <2>1. CASE x \in old[key[t]]
    <3>1. x \in 1..minted
      BY <1>k, <2>1 DEF ConvTyped, HistoryTyped
    <3>2. Absent(x, key[t])
      BY <2>1 DEF OldGone
    <3>3. QED
      BY <3>1, <3>2, AbsentKept
  <2>2. CASE \E u \in Tasks : EndsNew(u) /\ key[u] = key[t] /\ x \in barred[u]
    <3>1. PICK u \in Tasks : EndsNew(u) /\ key[u] = key[t] /\ x \in barred[u]
      BY <2>2
    <3>2. Kind[u] = "new" /\ pc[u] = "clear"
      BY <1>0, <3>1, EndsNewKind DEF EndsNew
    <3>3. x \in 1..minted /\ Absent(x, key[t])
      BY <3>1, <3>2 DEF ConvTyped, HistoryTyped, OldGone
    <3>4. QED
      BY <3>3, AbsentKept
  <2>3. QED
    BY <1>1, <1>k, <2>1, <2>2, OldFrom
<1>2. ASSUME NEW t \in Tasks, Kind[t] = "new", pc'[t] = "clear", NEW x \in barred'[t]
      PROVE  Absent(x, key[t])'
  <2>1. pc[t] \in {"clear", "stop"} /\ (pc[t] = "stop" => ResetSession(t))
    <3>1. ASSUME NEW u \in Tasks, OwnTurn(u)
          PROVE  pc[t] = "clear"
      BY <1>0, <1>2, <3>1, OwnFrame, OwnTo DEF Elsewhere
    <3>2. ASSUME NEW u \in Tasks, RegistryTurn(u), pc[t] # "clear"
          PROVE  ResetSession(t) /\ pc[t] = "stop"
      <4>1. u = t
        BY <1>0, <1>2, <3>2, FrameEnsure DEF Elsewhere, RegistryTurn
      <4>2. ResetSession(t) \/ Cleared(t) \/ ClearFails(t)
        BY <1>2, <3>2, <4>1, RegistryFrom, ResetFrom DEF NewLabels
      <4>3. QED
        BY <3>2, <4>2 DEF ResetSession, Cleared, ClearFails
    <3>3. ASSUME NEW u \in Tasks, BeginTurn(u)
          PROVE  pc[t] = "clear"
      BY <1>0, <1>2, <3>3, FrameBegin, BeginTo DEF Elsewhere
    <3>4. ASSUME Background PROVE pc[t] = "clear"
      BY <1>0, <1>2, <3>4, FrameBackground DEF TasksStay
    <3>5. QED
      BY <3>1, <3>2, <3>3, <3>4, StepCases
  <2>2. barred'[t] = barred[t] /\ x \in 1..minted
    BY <1>2, <2>1, BarredStep DEF ConvTyped, HistoryTyped
  <2>3. CASE pc[t] = "clear"
    <3>1. Absent(x, key[t])
      BY <1>2, <2>2, <2>3 DEF OldGone
    <3>2. QED
      BY <2>2, <3>1, AbsentKept
  <2>4. CASE ResetSession(t)
    BY <1>0, <1>2, <2>2, <2>4, ResetAbsent
  <2>5. QED
    BY <2>1, <2>3, <2>4
<1>3. ASSUME NEW t \in Tasks, Kind[t] # "new", pc'[t] # "idle"
      PROVE  barred'[t] \subseteq old'[key[t]]
  BY <1>3, <1>k, BarredStep, OldGrows DEF OldGone
<1>4. QED
  BY <1>1, <1>2, <1>3, <1>k DEF OldGone

\* What one handler does to the turn of another: nothing.
LEMMA TurnElsewhere ==
  ASSUME TurnsTyped, NEW t \in Tasks, OwnTurn(t), NEW u \in Tasks, u # t
  PROVE  /\ sent'[u] = sent[u]
         /\ u \in stale' <=> u \in stale
         /\ u \in holding' <=> u \in holding
         /\ u \in retried' <=> u \in retried
BY DEF OwnTurn, Proceed, Acquire, Enter, SendMessage, SwitchModel, LocalCommand, Answered, Refused,
       TimesOut, Retry, Saved, TurnFails, turns, TurnsTyped

\* A message at the provider, until it leaves it.
LEMMA SendingKept ==
  ASSUME Typed, TurnsTyped, HasWrapper, Step, NEW t \in Tasks, pc[t] = "sending", pc'[t] = "sending"
  PROVE  sent'[t] = sent[t] /\ (t \in stale' <=> t \in stale)
<1>1. ASSUME NEW u \in Tasks, OwnTurn(u)
      PROVE  sent'[t] = sent[t] /\ (t \in stale' <=> t \in stale)
  <2>1. CASE u = t
    <3>1. Answered(t) \/ Refused(t) \/ TimesOut(t) \/ TurnFails(t)
      BY <1>1, <2>1 DEF OwnTurn, Proceed, Acquire, Saved
    <3>2. pc'[t] # "sending"
      BY <3>1, TaskType DEF Answered, Refused, TimesOut, TurnFails, Retry, Goto, Typed, TypeOK
    <3>3. QED
      BY <3>2
  <2>2. QED
    BY <1>1, <2>1, TurnElsewhere
<1>2. ASSUME NEW u \in Tasks, RegistryTurn(u) \/ BeginTurn(u)
      PROVE  UNCHANGED <<sent, stale>>
  BY <1>2 DEF RegistryTurn, BeginTurn, turns
<1>3. ASSUME Background
      PROVE  UNCHANGED <<sent, stale>>
  BY <1>3 DEF Background, turns
<1>4. QED
  BY <1>1, <1>2, <1>3, StepCases

\* A message goes to the provider from the lock.
LEMMA SendingFrom ==
  ASSUME Typed, HasWrapper, Step, NEW t \in Tasks, pc[t] # "sending", pc'[t] = "sending"
  PROVE  SendMessage(t) /\ OwnTurn(t) /\ pc[t] \in {"returned", "waiting"}
<1>1. ASSUME NEW u \in Tasks, OwnTurn(u)
      PROVE  SendMessage(t) /\ OwnTurn(t) /\ pc[t] \in {"returned", "waiting"}
  <2>1. u = t
    BY <1>1, OwnFrame DEF Elsewhere
  <2>2. ~(Answered(t) \/ Refused(t) \/ TimesOut(t) \/ Saved(t) \/ TurnFails(t))
    BY TaskType DEF Answered, Refused, TimesOut, Retry, Saved, TurnFails, Goto, Typed, TypeOK
  <2>3. Proceed(t) \/ Acquire(t)
    BY <1>1, <2>1, <2>2 DEF OwnTurn
  <2>4. pc[t] \in {"returned", "waiting"}
    BY <2>3 DEF Proceed, Acquire
  <2>5. Enter(t)
    BY <2>3, TaskType DEF Proceed, Acquire, Goto, Typed, TypeOK
  <2>6. ~(SwitchModel(t) \/ LocalCommand(t))
    BY TaskType DEF SwitchModel, LocalCommand, Goto, Typed, TypeOK
  <2>7. QED
    BY <1>1, <2>1, <2>4, <2>5, <2>6 DEF Enter
<1>2. ASSUME NEW u \in Tasks, RegistryTurn(u)
      PROVE  FALSE
  <2>1. u = t
    BY <1>2, FrameEnsure DEF RegistryTurn, Elsewhere
  <2>2. QED
    BY <1>2, <2>1, RegistryTo
<1>3. ASSUME NEW u \in Tasks, BeginTurn(u)
      PROVE  FALSE
  BY <1>3, FrameBegin, BeginTo DEF Elsewhere
<1>4. ~Background
  BY FrameBackground DEF TasksStay
<1>5. QED
  BY <1>1, <1>2, <1>3, <1>4, StepCases

\* A message begun after a /new is sent in no conversation from before it.
LEMMA FreshStep ==
  ASSUME ConvTyped, Typed', OldGone, FreshAfterNew, Step, Remember
  PROVE  FreshAfterNew'
<1>0. Typed /\ TurnsTyped /\ HasWrapper
  BY DEF ConvTyped
<1>1. SUFFICES ASSUME NEW t \in Tasks, pc'[t] = "sending", t \notin stale'
               PROVE  sent'[t] \notin barred'[t]
  BY DEF FreshAfterNew
<1>2. CASE pc[t] = "sending"
  BY <1>0, <1>1, <1>2, SendingKept, BarredStep DEF FreshAfterNew
<1>3. CASE pc[t] # "sending"
  <2>1. SendMessage(t) /\ OwnTurn(t) /\ pc[t] \in {"returned", "waiting"}
    BY <1>0, <1>1, <1>3, SendingFrom
  <2>2. barred'[t] = barred[t] /\ barred[t] \subseteq old[key[t]] /\ barred[t] \subseteq 1..minted
    BY <2>1, BarredStep DEF OldGone, SendMessage, ConvTyped, HistoryTyped
  <2>3. mine[t] \in Wrappers /\ mine[t] # 0 /\ sid'[mine[t]] \in {sid[mine[t]], minted + 1}
    BY <1>0, <2>1, OwnSids DEF HasWrapper, Equipped
  <2>4. sent'[t] = sid'[mine[t]]
    BY <2>1 DEF SendMessage, ConvTyped, TurnsTyped
  <2>5. sid[mine[t]] \notin old[key[t]]
    <3>1. t \in InFlight
      BY <2>1 DEF InFlight, Ended
    <3>2. QED
      BY <2>3, <3>1 DEF OldGone, Absent
  <2>6. minted \in Nat
    BY <1>0 DEF Typed, TypeOK
  <2>7. QED
    BY <2>2, <2>3, <2>4, <2>5, <2>6
<1>4. QED
  BY <1>2, <1>3

FreshInv ==
  /\ NewLabels /\ NothingYet
  /\ "new" \notin scenario.may /\ OneAgentEach => NewAlone /\ OldGone /\ FreshAfterNew

\* The invariant under FreshAfterNew is inductive.
LEMMA FreshInvStep ==
  ASSUME ConvTyped, FreshInv, [ConvNext]_vars
  PROVE  FreshInv'
<1>1. ConvTyped' /\ KeysKept
  BY TypedConvStep
<1>2. OneAgentEach' <=> OneAgentEach
  BY <1>1 DEF OneAgentEach, KeysKept
<1>3. CASE ConvNext
  <2>1. NewLabels' /\ NothingYet'
    BY <1>3, BeginningsStep DEF ConvNext, FreshInv, ConvTyped
  <2>2. ASSUME "new" \notin scenario.may, OneAgentEach
        PROVE  NewAlone' /\ OldGone' /\ FreshAfterNew'
    BY <1>1, <1>3, <2>2, AloneStep, OldStep, FreshStep DEF ConvNext, FreshInv, ConvTyped
  <2>3. scenario' = scenario
    BY <1>3 DEF ConvNext
  <2>4. QED
    BY <1>2, <2>1, <2>2, <2>3 DEF FreshInv
<1>4. CASE UNCHANGED vars
  <2>1. UNCHANGED <<scenario, pc, mine, seen, key, records, wrappers, sid, old, barred, sent, stale>>
    BY <1>4 DEF vars, runtimeVars, registry, objects, handlers, turns, history
  <2>2. \A x, k : Absent(x, k)' <=> Absent(x, k)
    BY <2>1 DEF Absent, RecordOf, Lookup, InFlight
  <2>3. QED
    BY <1>2, <2>1, <2>2 DEF FreshInv, NewLabels, NothingYet, NewAlone, InFlight, OldGone, FreshAfterNew
<1>5. QED
  BY <1>3, <1>4

\* It holds at first.
LEMMA FreshInvInit == ConvInit => FreshInv
<1>1. SUFFICES ASSUME ConvInit PROVE FreshInv
  OBVIOUS
<1>2. \A t \in Tasks : pc[t] = "idle" /\ mine[t] = 0 /\ seen[t] = NoRecord
  BY <1>1, RuntimeAssumption DEF ConvInit, Init, Procs
<1>3. \A t \in Tasks : key[t] \in Keys
  BY <1>1 DEF ConvInit, Init, Procs
<1>4. \A t \in Tasks : old[key[t]] = {}
  BY <1>1, <1>3 DEF ConvInit
<1>5. QED
  BY <1>2, <1>4 DEF FreshInv, NewLabels, NothingYet, NewAlone, InFlight, Ended, OldGone, FreshAfterNew

\* When no other handler is at work with a /new, a message that comes after it
\* does not go to a provider session used before it, whatever else happens:
\* messages that meet, idle cleanup, failures, timeouts, crashes, a shutdown.
THEOREM FreshConversation ==
  ConvSpec => []("new" \notin scenario.may /\ OneAgentEach => FreshAfterNew)
<1>1. ConvTyped /\ FreshInv /\ [ConvNext]_vars => (ConvTyped /\ FreshInv)'
  BY TypedConvStep, FreshInvStep
<1>2. FreshInv => ("new" \notin scenario.may /\ OneAgentEach => FreshAfterNew)
  BY DEF FreshInv
<1>3. QED
  BY <1>1, <1>2, TypedConvInit, FreshInvInit, PTL DEF ConvSpec

-----------------------------------------------------------------------------
\* The registry's isolation under the handlers that use it.

\* A task's step in the registry is one of ProviderRuntime.
LEMMA RegistryNext ==
  ASSUME NEW t \in Tasks, RegistryTurn(t) \/ BeginTurn(t)
  PROVE  Next
BY DEF RegistryTurn, BeginTurn, Next, HandlerStep

\* A step of the background is one of ProviderRuntime.
LEMMA BackgroundNext ==
  ASSUME Background
  PROVE  Next
BY DEF Background, Next

\* Wrappers stay with the channels they were made for.
LEMMA IsolatedConvStep ==
  ASSUME ConvTyped, Typed', Isolated, [ConvNext]_vars
  PROVE  Isolated'
<1>0. Typed
  BY DEF ConvTyped
<1>1. ASSUME [Next]_runtimeVars PROVE Isolated'
  BY <1>0, <1>1, IsolatedStep
<1>2. ASSUME NEW t \in Tasks, OwnTurn(t) PROVE Isolated'
  <2>1. UNCHANGED <<wrappers, locks, mine, myLock, key>>
    BY <1>2 DEF OwnTurn, Proceed, Acquire, Enter, Answered, Refused, TimesOut, Retry, Saved,
                TurnFails, registry
  <2>2. QED
    BY <2>1 DEF Isolated
<1>3. CASE UNCHANGED vars
  BY <1>1, <1>3 DEF vars
<1>4. QED
  BY <1>1, <1>2, <1>3, StepCases, RegistryNext, BackgroundNext DEF ConvNext

\* Channels stay separate.
LEMMA SeparateConvStep ==
  ASSUME ConvTyped, Typed', Isolated, ChannelsSeparate, [ConvNext]_vars
  PROVE  ChannelsSeparate'
<1>0. Typed /\ HasWrapper
  BY DEF ConvTyped
<1>1. ASSUME [Next]_runtimeVars PROVE ChannelsSeparate'
  BY <1>0, <1>1, HandsStep, SeparateStep
<1>2. ASSUME NEW t \in Tasks, OwnTurn(t) PROVE ChannelsSeparate'
  <2> DEFINE c0 == key[t][2]
             Ok(c, s) == s \in SidsOf(c) \/ s = 0 \/ (c = c0 /\ s = minted + 1)
  <2>1. /\ \A w \in Wrappers : sid'[w] \in {sid[w], minted + 1} /\ (w # mine[t] => sid'[w] = sid[w])
        /\ \A s \in StoreKeys :
             \/ records'[s] = records[s]
             \/ s = Scope(c0) /\ SidOf(records'[s]) \in {minted + 1, sid[mine[t]]}
        /\ UNCHANGED <<wrappers, mine, seen, built>>
        /\ mine[t] \in Wrappers
    BY <1>0, <1>2, OwnSids
  <2>k. UNCHANGED key /\ \A w \in 0..built : w # 0 => w \in Wrappers
    BY <1>0, <1>2, RuntimeAssumption
       DEF OwnTurn, Proceed, Acquire, Enter, Answered, Refused, TimesOut, Retry, Saved, TurnFails,
           Typed, TypeOK, Wrappers
  <2>2. ASSUME NEW c \in Channels PROVE Ok(c, SidOf(records'[Scope(c)]))
    <3>1. Scope(c) \in StoreKeys /\ SidOf(records[Scope(c)]) \in SidsOf(c)
      BY DEF StoreKeys, SidsOf
    <3>2. Scope(c) = Scope(c0) => c = c0
      BY DEF Scope
    <3>3. sid[mine[t]] \in SidsOf(c0)
      BY <2>1 DEF SidsOf, Wrappers
    <3>4. QED
      BY <2>1, <3>1, <3>2, <3>3
  <2>3. ASSUME NEW k \in Keys, wrappers[k] # 0 PROVE Ok(k[2], sid'[wrappers[k]])
    <3>1. wrappers[k] \in Wrappers /\ sid[wrappers[k]] \in SidsOf(k[2])
      BY <1>0, <2>3, <2>k DEF Typed, TypeOK, SidsOf
    <3>2. wrappers[k] = mine[t] => k = key[t]
      BY <2>1, <2>3 DEF Isolated
    <3>3. QED
      BY <2>1, <3>1, <3>2
  <2>4. ASSUME NEW u \in Tasks, mine[u] # 0 PROVE Ok(key[u][2], sid'[mine[u]])
    <3>1. mine[u] \in Wrappers /\ sid[mine[u]] \in SidsOf(key[u][2])
      BY <1>0, <2>4, <2>k DEF Typed, TypeOK, Procs, SidsOf
    <3>2. mine[u] = mine[t] => key[u] = key[t]
      BY <2>1, <2>4 DEF Isolated
    <3>3. QED
      BY <2>1, <3>1, <3>2
  <2>5. ASSUME NEW c \in Channels, NEW s \in SidsOf(c)'
        PROVE  Ok(c, s)
    <3>1. CASE s = SidOf(records'[Scope(c)])
      BY <2>2, <3>1
    <3>2. CASE \E k \in Keys : k[2] = c /\ wrappers'[k] # 0 /\ s = sid'[wrappers'[k]]
      BY <2>1, <2>3, <3>2
    <3>3. CASE \E u \in Tasks : key'[u][2] = c /\ mine'[u] # 0 /\ s = sid'[mine'[u]]
      BY <2>1, <2>k, <2>4, <3>3
    <3>4. CASE \E q \in Procs : key'[q][2] = c /\ s = SidOf(seen'[q])
      BY <2>1, <2>k, <3>4 DEF SidsOf
    <3>5. QED
      BY <2>5, <3>1, <3>2, <3>3, <3>4 DEF SidsOf
  <2>6. QED
    BY <1>0, <2>5, SeparateGrow
<1>3. CASE UNCHANGED vars
  BY <1>1, <1>3 DEF vars
<1>4. QED
  BY <1>1, <1>2, <1>3, StepCases, RegistryNext, BackgroundNext DEF ConvNext

\* Every state is typed, and wrappers are with the channels they were made for.
LEMMA AlwaysIsolated == ConvSpec => [](ConvTyped /\ Isolated)
<1>1. ConvTyped /\ Isolated /\ [ConvNext]_vars => (ConvTyped /\ Isolated)'
  BY TypedConvStep, IsolatedConvStep DEF ConvTyped
<1>2. ConvInit => Isolated
  BY IsolatedInit DEF ConvInit
<1>3. QED
  BY <1>1, <1>2, TypedConvInit, PTL DEF ConvSpec

\* What the registry keeps apart stays apart when its wrappers are used: no
\* wrapper or lock is shared between sessions, and no provider session between
\* channels, whatever messages, /model and late upserts do to them.
THEOREM ConversationsApart == ConvSpec => [](Isolated /\ ChannelsSeparate)
<1>1. ConvTyped /\ Isolated /\ ChannelsSeparate /\ [ConvNext]_vars => ChannelsSeparate'
  BY TypedConvStep, SeparateConvStep DEF ConvTyped
<1>2. ConvInit => ChannelsSeparate
  BY SeparateInit DEF ConvInit
<1>3. QED
  BY <1>1, <1>2, AlwaysIsolated, PTL DEF ConvSpec

-----------------------------------------------------------------------------
\* One message of a session at a time.  When messages and /new are all there
\* is and nothing fails, messages may meet each other: a handler that has its
\* wrapper keeps the session from counting as idle, so its lock stays, and no
\* message is refused, because a wrapper takes itself to have history just
\* when the provider has its conversation.  When nothing meets there is only
\* one message at all.

Called == \A t \in Tasks : pc[t] # "idle" => t \in scenario.who

CalmCase ==
  /\ scenario.may \subseteq {"overlap"}
  /\ \A t \in scenario.who : Kind[t] \in {"message", "new"}
  /\ OneAgentEach

\* No wrapper dies, and a registered one has a provider session.
AllLive ==
  /\ \A k \in Keys : wrappers[k] # 0 => wrappers[k] \in alive /\ sid[wrappers[k]] # 0
  /\ \A p \in Procs : pc[p] \notin {"backoff", "restart"}

\* A handler that has its wrapper keeps its session busy.
Busy ==
  \A t \in Tasks : pc[t] \in Equipped =>
    activity[key[t]] = "recent" /\ wrappers[key[t]] # 0 /\ sid[mine[t]] # 0

\* The lock of a handler is its session's, and held while its message is at
\* the provider.
LockKept ==
  \A t \in Tasks :
    /\ t \in holding <=> pc[t] = "sending"
    /\ pc[t] \in {"returned", "waiting", "sending"} => myLock[t] = locks[key[t]] /\ myLock[t] # NoLock
    /\ pc[t] \in {"idle", "ensure", "start", "upserting"} => myLock[t] = NoLock
    /\ pc[t] \in {"stop", "clear"} => Kind[t] = "new"

\* Conversations of the provider that every wrapper which resumes them knows of.
Settled == {x \in convs : \A w \in 1..built : sid[w] = x => hist[w]}

\* Wrappers that alone have their provider session, which the provider has no
\* conversation of unless the wrapper's message is there.
Private ==
  {w \in 1..built :
     /\ ~hist[w]
     /\ \A v \in 1..built : v # w => sid[v] # sid[w]
     /\ sid[w] \in convs => \E t \in Tasks : pc[t] = "sending" /\ mine[t] = w}

HistoryTrue ==
  /\ stale = {}
  /\ \A w \in 1..built : (sid[w] = 0 /\ ~hist[w]) \/ sid[w] \in Settled \/ w \in Private
  /\ \A t \in Tasks : pc[t] = "sending" => sid[mine[t]] \in convs
  /\ \A t \in Tasks : pc[t] = "saving" => sid[mine[t]] \in Settled

SeenSettled == \A t \in Tasks : seen[t] # NoRecord => SidOf(seen[t]) \in Settled

RecordsSettled ==
  \A s \in StoreKeys : records[s] # NoRecord =>
    \/ SidOf(records[s]) \in Settled
    \/ \E t \in Tasks : /\ pc[t] \in Equipped /\ Scope(key[t][2]) = s
                        /\ SidOf(records[s]) = sid[mine[t]]

Calm ==
  /\ AllLive /\ Busy /\ LockKept /\ HistoryTrue /\ SeenSettled /\ RecordsSettled /\ Serialized

-----------------------------------------------------------------------------
\* A conversation with history everywhere keeps it while conversations only grow.
LEMMA SettledKept ==
  ASSUME convs \subseteq convs',
         \A w \in 1..built' :
           \/ w \in 1..built /\ sid'[w] = sid[w] /\ (hist[w] => hist'[w])
           \/ sid'[w] = 0 \/ sid'[w] = minted + 1 \/ hist'[w],
         TurnsTyped, minted \in Nat
  PROVE  Settled \subseteq Settled'
<1>1. SUFFICES ASSUME NEW x \in Settled, NEW w \in 1..built', sid'[w] = x
               PROVE  x \in convs' /\ hist'[w]
  BY DEF Settled
<1>2. x \in 1..minted /\ x \in convs' /\ \A v \in 1..built : sid[v] = x => hist[v]
  BY <1>1 DEF Settled, TurnsTyped
<1>3. QED
  BY <1>1, <1>2

\* A settled conversation is one there is.
LEMMA SettledType ==
  ASSUME TurnsTyped
  PROVE  Settled \subseteq 1..minted
BY DEF TurnsTyped, Settled

\* What the session part of Calm reads.
LEMMA CalmFrame ==
  ASSUME HistoryTrue, SeenSettled, RecordsSettled, KeysKept,
         UNCHANGED <<built, sid, hist, convs, stale, records>>,
         \A u \in Tasks :
           /\ pc[u] \in Equipped => pc'[u] \in Equipped /\ mine'[u] = mine[u]
           /\ pc[u] = "sending" <=> pc'[u] = "sending"
           /\ pc'[u] = "saving" => pc[u] = "saving"
           /\ seen'[u] = seen[u] \/ (seen'[u] # NoRecord => SidOf(seen'[u]) \in Settled)
  PROVE  HistoryTrue' /\ SeenSettled' /\ RecordsSettled'
<1>1. Settled' = Settled
  BY DEF Settled
<1>2. Private \subseteq Private'
  BY DEF Private, Equipped
<1>3. HistoryTrue'
  BY <1>1, <1>2 DEF HistoryTrue, Equipped
<1>4. SeenSettled'
  BY <1>1 DEF SeenSettled
<1>5. RecordsSettled'
  BY <1>1 DEF RecordsSettled, KeysKept
<1>6. QED
  BY <1>3, <1>4, <1>5

\* A handler that comes into its wrapper and lock.
LEMMA CalmReturns ==
  ASSUME Typed, Calm, NEW t \in Tasks, NEW w, EnsureReturns(t, w), Kind[t] = "message",
         pc[t] \in {"ensure", "upserting"}, UNCHANGED holding
  PROVE  LockKept' /\ pc'[t] = "returned"
<1>k. t \in Procs /\ pc[t] \notin {"returned", "waiting", "sending"} /\ key[t] \in Keys /\ NoLock \notin Tasks
  BY TaskType, RuntimeAssumption
<1>1. myLock[t] = NoLock
  BY DEF Calm, LockKept
<1>2. /\ locks' = [locks EXCEPT ![key[t]] = IF locks[key[t]] = NoLock THEN t ELSE locks[key[t]]]
      /\ myLock' = [myLock EXCEPT ![t] = locks'[key[t]]]
      /\ pc' = [pc EXCEPT ![t] = "returned"] /\ key' = key
  BY <1>1 DEF EnsureReturns, Goto
<1>3. pc'[t] = "returned"
  BY <1>k, <1>2 DEF Typed, TypeOK
<1>4. myLock'[t] = locks'[key[t]] /\ locks'[key[t]] # NoLock
  BY <1>k, <1>2 DEF Typed, TypeOK
<1>5. \A u \in Tasks : u # t => pc'[u] = pc[u] /\ myLock'[u] = myLock[u]
  BY <1>k, <1>2 DEF Typed, TypeOK, Procs
<1>6. \A j \in Keys : locks[j] # NoLock => locks'[j] = locks[j]
  BY <1>2 DEF Typed, TypeOK
<1>7. \A u \in Tasks : key[u] \in Keys /\ key'[u] = key[u]
  BY <1>2, TaskType
<1>8. QED
  BY <1>k, <1>2, <1>3, <1>4, <1>5, <1>6, <1>7 DEF Calm, LockKept

\* A message that finds its wrapper keeps the channel calm.
LEMMA CalmReuse ==
  ASSUME Typed, Calm, NEW t \in Tasks, EnsureReuse(t), Kind[t] = "message", UNCHANGED turns
  PROVE  Calm'
<1>k. t \in Procs /\ key[t] \in Keys /\ pc \in [Procs -> Labels]
  BY TaskType DEF Typed, TypeOK
<1>1. /\ pc[t] = "ensure" /\ wrappers[key[t]] # 0
      /\ mine' = [mine EXCEPT ![t] = wrappers[key[t]]]
      /\ activity' = [activity EXCEPT ![key[t]] = "recent"]
      /\ UNCHANGED <<wrappers, objects, records, key, seen>>
      /\ EnsureReturns(t, wrappers[key[t]])
  BY DEF EnsureReuse, EnsureReturns, Typed, TypeOK
<1>2. LockKept' /\ pc'[t] = "returned"
  BY <1>1, CalmReturns DEF turns
<1>3. \A u \in Procs : u # t => pc'[u] = pc[u] /\ mine'[u] = mine[u]
  BY <1>1 DEF EnsureReturns, Goto, Typed, TypeOK
<1>4. mine'[t] = wrappers[key[t]] /\ activity'[key[t]] = "recent"
      /\ \A j \in Keys : activity[j] = "recent" => activity'[j] = "recent"
  BY <1>k, <1>1 DEF Typed, TypeOK
<1>5. AllLive'
  BY <1>1, <1>2, <1>3 DEF Calm, AllLive, objects
<1>6. Busy'
  BY <1>1, <1>2, <1>3, <1>4, TaskType DEF Calm, Busy, AllLive, objects, Procs
<1>7. HistoryTrue' /\ SeenSettled' /\ RecordsSettled'
  BY <1>1, <1>2, <1>3, CalmFrame DEF Calm, KeysKept, objects, turns, Procs, Equipped
<1>8. Serialized'
  BY <1>1, <1>2, <1>3 DEF Calm, Serialized, Procs
<1>9. QED
  BY <1>2, <1>5, <1>6, <1>7, <1>8 DEF Calm

\* A message that has to make a wrapper keeps the channel calm.
LEMMA CalmMissing ==
  ASSUME Typed, Calm, OneAgentEach, NEW t \in Tasks, EnsureMissing(t), UNCHANGED turns
  PROVE  Calm'
<1>k. t \in Procs /\ key[t] \in Keys /\ pc \in [Procs -> Labels] /\ Scope(key[t][2]) \in StoreKeys
  BY TaskType DEF Typed, TypeOK
<1>1. /\ pc[t] = "ensure" /\ wrappers[key[t]] = 0
      /\ seen' = [seen EXCEPT ![t] = RecordOf(key[t])]
      /\ pc' = [pc EXCEPT ![t] = "start"]
      /\ UNCHANGED <<registry, objects, records, key, mine, myLock>>
  BY DEF EnsureMissing, AskRecord, Goto
<1>2. pc'[t] = "start" /\ seen'[t] = records[Scope(key[t][2])]
  BY <1>k, <1>1, LookupOwn DEF Typed, TypeOK
<1>3. \A u \in Procs : u # t => pc'[u] = pc[u] /\ seen'[u] = seen[u]
  BY <1>1 DEF Typed, TypeOK
<1>4. seen'[t] # NoRecord => SidOf(seen'[t]) \in Settled
  <2>1. ASSUME NEW u \in Tasks, pc[u] \in Equipped, Scope(key[u][2]) = Scope(key[t][2])
        PROVE  FALSE
    <3>1. key[u] = key[t]
      BY <2>1 DEF Scope, OneAgentEach
    <3>2. QED
      BY <1>1, <2>1, <3>1 DEF Calm, Busy
  <2>2. QED
    BY <1>k, <1>2, <2>1 DEF Calm, RecordsSettled
<1>5. AllLive' /\ Busy' /\ LockKept' /\ Serialized'
  BY <1>1, <1>2, <1>3 DEF Calm, AllLive, Busy, LockKept, Serialized, objects, registry, turns, Procs,
                          Equipped
<1>6. HistoryTrue' /\ SeenSettled' /\ RecordsSettled'
  BY <1>1, <1>2, <1>3, <1>4, CalmFrame DEF Calm, KeysKept, objects, turns, Procs, Equipped
<1>7. QED
  BY <1>5, <1>6 DEF Calm

\* So does one that writes the record of the wrapper it made.
LEMMA CalmUpserted ==
  ASSUME Typed, Calm, NEW t \in Tasks, EnsureUpserted(t), Kind[t] = "message", UNCHANGED turns
  PROVE  Calm'
<1>k. t \in Procs /\ key[t] \in Keys /\ pc \in [Procs -> Labels]
  BY TaskType DEF Typed, TypeOK
<1>1. /\ pc[t] = "upserting"
      /\ mine' = [mine EXCEPT ![t] = mine[t]]
      /\ UNCHANGED <<wrappers, activity, objects, records, key, seen>>
      /\ EnsureReturns(t, mine[t])
  BY DEF EnsureUpserted, EnsureReturns
<1>2. LockKept' /\ pc'[t] = "returned" /\ mine' = mine
  BY <1>1, CalmReturns DEF turns, Typed, TypeOK
<1>3. \A u \in Procs : u # t => pc'[u] = pc[u]
  BY <1>1 DEF EnsureReturns, Goto, Typed, TypeOK
<1>5. AllLive' /\ Busy' /\ Serialized'
  BY <1>1, <1>2, <1>3 DEF Calm, AllLive, Busy, Serialized, objects, Procs, Equipped
<1>6. HistoryTrue' /\ SeenSettled' /\ RecordsSettled'
  BY <1>1, <1>2, <1>3, CalmFrame DEF Calm, KeysKept, objects, turns, Procs, Equipped
<1>7. QED
  BY <1>2, <1>5, <1>6 DEF Calm

\* A handler's new wrapper begins a conversation of its own or resumes one the
\* provider has.
LEMMA CalmStart ==
  ASSUME Typed, TurnsTyped, HasWrapper, Calm, NEW t \in Tasks, EnsureStart(t), UNCHANGED turns
  PROVE  Calm'
<1> DEFINE b == built + 1
           k == key[t]
           r == [agent |-> k[1], sid |-> sid'[b]]
<1>k. t \in Procs /\ k \in Keys /\ pc \in [Procs -> Labels] /\ Scope(k[2]) \in StoreKeys
  BY TaskType DEF Typed, TypeOK
<1>m. minted \in Nat /\ built \in Nat /\ SidOf(NoRecord) = 0
  BY DEF Typed, TypeOK, SidOf
<1>1. /\ pc[t] = "start" /\ BuildStarted(seen[t]) /\ built' = b
      /\ wrappers' = [wrappers EXCEPT ![k] = b]
      /\ activity' = [activity EXCEPT ![k] = "recent"]
      /\ records' = [records EXCEPT ![Scope(k[2])] = r]
      /\ mine' = [mine EXCEPT ![t] = b]
      /\ seen' = [seen EXCEPT ![t] = NoRecord]
      /\ pc' = [pc EXCEPT ![t] = "upserting"]
      /\ alive' = alive \cup {b}
      /\ hist' = [hist EXCEPT ![b] = (seen[t] # NoRecord)]
      /\ UNCHANGED <<locks, key, myLock>>
  BY DEF EnsureStart, BuildStarted, Builds, Goto
<1>2. /\ SidOf(seen[t]) \in 0..minted
      /\ b \in Wrappers /\ minted <= minted'
      /\ sid'[b] = (IF SidOf(seen[t]) = 0 THEN minted + 1 ELSE SidOf(seen[t]))
      /\ \A w \in Wrappers : w # b => sid'[w] = sid[w] /\ hist'[w] = hist[w]
      /\ hist'[b] = (seen[t] # NoRecord)
  <2>1. seen[t] \in Record \cup {NoRecord} /\ SidOf(seen[t]) <= minted
    BY <1>k DEF Typed, TypeOK, SidsMinted
  <2>2. SidOf(seen[t]) \in Nat
    BY <2>1, SidType
  <2>3. b \in Wrappers
    BY <1>1, <2>1, BuildType
  <2>4. QED
    BY <1>1, <1>m, <2>1, <2>2, <2>3, BuildType DEF Typed, TypeOK
<1>3. seen[t] # NoRecord => SidOf(seen[t]) \in Settled /\ SidOf(seen[t]) \in 1..minted
  BY SettledType DEF Calm, SeenSettled
<1>4. sid'[b] # 0
  BY <1>2, <1>m
<1>w. \A w \in 1..built : w \in Wrappers /\ w # b /\ sid'[w] = sid[w] /\ hist'[w] = hist[w]
                          /\ sid[w] \in 0..minted
  BY <1>2, <1>m, RuntimeAssumption, SMTT(30) DEF Wrappers, Typed, TypeOK
<1>5. 1..built' = 1..built \cup {b}
  BY <1>1, <1>m
<1>6. \A u \in Procs : u # t => pc'[u] = pc[u] /\ mine'[u] = mine[u] /\ seen'[u] = seen[u]
  BY <1>1 DEF Typed, TypeOK
<1>7. pc'[t] = "upserting" /\ mine'[t] = b /\ seen'[t] = NoRecord
  BY <1>1, <1>k DEF Typed, TypeOK
<1>8. \A j \in Keys : /\ wrappers[j] \in 0..built
                      /\ wrappers'[j] = (IF j = k THEN b ELSE wrappers[j])
                      /\ activity'[j] = (IF j = k THEN "recent" ELSE activity[j])
  BY <1>1 DEF Typed, TypeOK
<1>9. AllLive'
  <2>1. \A j \in Keys : wrappers'[j] # 0 => wrappers'[j] \in alive' /\ sid'[wrappers'[j]] # 0
    BY <1>1, <1>4, <1>8, <1>w, <1>m DEF Calm, AllLive
  <2>2. \A p \in Procs : pc'[p] \notin {"backoff", "restart"}
    BY <1>6, <1>7 DEF Calm, AllLive
  <2>3. QED
    BY <2>1, <2>2 DEF AllLive
<1>10. Busy'
  <2>1. SUFFICES ASSUME NEW u \in Tasks, pc'[u] \in Equipped
                 PROVE  activity'[key[u]] = "recent" /\ wrappers'[key[u]] # 0 /\ sid'[mine'[u]] # 0
    BY <1>1 DEF Busy
  <2>2. key[u] \in Keys /\ u \in Procs /\ mine[u] \in 0..built
    BY TaskType
  <2>3. CASE u = t
    BY <1>4, <1>7, <1>8, <1>m, <2>2, <2>3
  <2>4. CASE u # t
    <3>1. activity[key[u]] = "recent" /\ wrappers[key[u]] # 0 /\ sid[mine[u]] # 0 /\ mine[u] \in 0..built
      BY <1>6, <2>1, <2>2, <2>4 DEF Calm, Busy
    <3>2. mine'[u] = mine[u] /\ sid'[mine[u]] # 0
      <4>1. mine[u] \in 1..built \/ mine[u] = 0
        BY <1>m, <3>1
      <4>2. CASE mine[u] \in 1..built
        BY <1>6, <1>w, <2>2, <2>4, <3>1, <4>2
      <4>3. CASE mine[u] = 0
        BY <1>6, <2>1, <2>2, <2>4, <4>3 DEF HasWrapper
      <4>4. QED
        BY <4>1, <4>2, <4>3
    <3>3. QED
      BY <1>8, <1>m, <2>2, <3>1, <3>2
  <2>5. QED
    BY <2>3, <2>4
<1>11. LockKept' /\ Serialized'
  BY <1>1, <1>6, <1>7 DEF Calm, LockKept, Serialized, turns, Procs
<1>12. Settled \subseteq Settled'
  <2>1. convs' = convs
    BY DEF turns
  <2>2. \A w \in 1..built' :
           \/ w \in 1..built /\ sid'[w] = sid[w] /\ (hist[w] => hist'[w])
           \/ sid'[w] = 0 \/ sid'[w] = minted + 1 \/ hist'[w]
    BY <1>2, <1>3, <1>5, <1>w, <1>m
  <2>3. QED
    BY <1>m, <2>1, <2>2, SettledKept
<1>13. HistoryTrue'
  <2>1. \A w \in 1..built : (sid[w] = 0 /\ ~hist[w]) \/ sid[w] \in Settled \/ w \in Private
    BY DEF Calm, HistoryTrue
  <2>2. ASSUME NEW w \in 1..built, w \in Private PROVE w \in Private'
    <3>1. sid'[b] # sid[w]
      <4>1. CASE seen[t] = NoRecord
        BY <1>2, <1>m, <1>w, <4>1
      <4>2. CASE seen[t] # NoRecord
        BY <1>2, <1>3, <1>m, <2>2, <4>2 DEF Settled, Private
      <4>3. QED
        BY <4>1, <4>2
    <3>2. sid[w] \in convs => \E u \in Tasks : pc'[u] = "sending" /\ mine'[u] = w
      BY <1>1, <1>6, <2>2 DEF Private, Procs
    <3>3. QED
      BY <1>5, <1>w, <2>2, <3>1, <3>2 DEF Private, turns
  <2>3. ASSUME NEW w \in 1..built
        PROVE  (sid'[w] = 0 /\ ~hist'[w]) \/ sid'[w] \in Settled' \/ w \in Private'
    BY <1>12, <1>w, <2>1, <2>2, SettledType
  <2>4. sid'[b] \in Settled' \/ b \in Private'
    <3>1. CASE seen[t] = NoRecord
      <4>1. sid'[b] = minted + 1 /\ ~hist'[b]
        BY <1>2, <1>m, <3>1
      <4>2. sid'[b] \notin convs'
        BY <4>1, <1>m DEF TurnsTyped, turns
      <4>3. \A v \in 1..built' : v # b => sid'[v] # sid'[b]
        BY <1>5, <1>w, <1>m, <4>1
      <4>4. QED
        BY <1>1, <1>m, <4>1, <4>2, <4>3 DEF Private
    <3>2. CASE seen[t] # NoRecord
      BY <1>2, <1>3, <1>12, <1>m, <3>2
    <3>3. QED
      BY <3>1, <3>2
  <2>5. \A u \in Tasks : pc'[u] \in {"sending", "saving"} =>
          pc'[u] = pc[u] /\ mine'[u] = mine[u] /\ sid'[mine'[u]] = sid[mine[u]]
    <3>1. SUFFICES ASSUME NEW u \in Tasks, pc'[u] \in {"sending", "saving"}
                   PROVE  pc'[u] = pc[u] /\ mine'[u] = mine[u] /\ sid'[mine'[u]] = sid[mine[u]]
      OBVIOUS
    <3>2. u # t /\ u \in Procs /\ mine[u] \in 0..built
      BY <1>7, <3>1, TaskType
    <3>3. pc'[u] = pc[u] /\ mine'[u] = mine[u] /\ mine[u] # 0
      BY <1>6, <3>1, <3>2 DEF HasWrapper, Equipped
    <3>4. QED
      BY <1>m, <1>w, <3>2, <3>3
  <2>6. \A w \in 1..built' : (sid'[w] = 0 /\ ~hist'[w]) \/ sid'[w] \in Settled' \/ w \in Private'
    BY <1>5, <2>3, <2>4
  <2>7. \A u \in Tasks : pc'[u] = "sending" => sid'[mine'[u]] \in convs'
    BY <2>5 DEF Calm, HistoryTrue, turns
  <2>8. \A u \in Tasks : pc'[u] = "saving" => sid'[mine'[u]] \in Settled'
    <3>1. SUFFICES ASSUME NEW u \in Tasks, pc'[u] = "saving"
                   PROVE  sid'[mine'[u]] \in Settled'
      OBVIOUS
    <3>2. sid[mine[u]] \in Settled /\ sid'[mine'[u]] = sid[mine[u]]
      BY <2>5, <3>1 DEF Calm, HistoryTrue
    <3>3. QED
      BY <1>12, <3>2
  <2>9. stale' = {}
    BY DEF Calm, HistoryTrue, turns
  <2>10. QED
    BY <2>6, <2>7, <2>8, <2>9 DEF HistoryTrue
<1>14. SeenSettled'
  <2>1. \A u \in Tasks : seen'[u] # NoRecord => seen'[u] = seen[u]
    BY <1>6, <1>7 DEF Procs
  <2>2. QED
    BY <2>1, <1>12, SettledType DEF Calm, SeenSettled
<1>15. RecordsSettled'
  <2>1. SUFFICES ASSUME NEW s \in StoreKeys, records'[s] # NoRecord
                 PROVE  \/ SidOf(records'[s]) \in Settled' \/ \E u \in Tasks :
                             pc'[u] \in Equipped /\ Scope(key[u][2]) = s
                             /\ SidOf(records'[s]) = sid'[mine'[u]]
    BY <1>1 DEF RecordsSettled
  <2>2. CASE s = Scope(k[2])
    <3>1. records'[s] = r
      BY <1>1, <2>1, <2>2 DEF Typed, TypeOK
    <3>2. SidOf(records'[s]) = sid'[b]
      BY <2>1, <3>1 DEF SidOf
    <3>3. QED
      BY <1>7, <2>2, <3>2 DEF Equipped
  <2>3. CASE s # Scope(k[2])
    <3>1. records'[s] = records[s]
      BY <1>1, <2>3 DEF Typed, TypeOK
    <3>2. CASE SidOf(records[s]) \in Settled
      BY <1>12, <3>1, <3>2, SettledType
    <3>3. ASSUME NEW u \in Tasks, pc[u] \in Equipped, Scope(key[u][2]) = s,
                 SidOf(records[s]) = sid[mine[u]]
          PROVE  pc'[u] \in Equipped /\ SidOf(records'[s]) = sid'[mine'[u]]
      <4>1. u # t /\ mine[u] \in 0..built /\ mine[u] # 0 /\ u \in Procs
        BY <1>1, <3>3, TaskType DEF Equipped, HasWrapper
      <4>2. QED
        BY <1>6, <1>m, <1>w, <3>1, <3>3, <4>1
    <3>4. \/ SidOf(records[s]) \in Settled
          \/ \E u \in Tasks : /\ pc[u] \in Equipped /\ Scope(key[u][2]) = s
                              /\ SidOf(records[s]) = sid[mine[u]]
      BY <2>1, <3>1 DEF Calm, RecordsSettled
    <3>5. QED
      BY <3>2, <3>3, <3>4
  <2>4. QED
    BY <2>2, <2>3
<1>16. QED
  BY <1>9, <1>10, <1>11, <1>13, <1>14, <1>15 DEF Calm

\* A session nobody uses is dropped, with its wrapper stopped: by a /new or
\* because it was idle.
LEMMA CalmDrop ==
  ASSUME Typed, TurnsTyped, HasWrapper, Isolated, Calm, NEW k \in Keys,
         Dropped({k}), StopAll({wrappers[k]}),
         UNCHANGED <<key, seen, mine, myLock>>, UNCHANGED turns,
         \A s \in StoreKeys : records'[s] \in {NoRecord, records[s]},
         \A u \in Tasks : key[u] = k => pc[u] \notin Equipped,
         \A u \in Tasks : pc'[u] = pc[u] \/ (pc[u] = "stop" /\ pc'[u] = "clear"),
         \A p \in Procs : pc'[p] \notin {"backoff", "restart"}
  PROVE  Calm'
<1>1. /\ wrappers' = [j \in Keys |-> IF j \in {k} THEN 0 ELSE wrappers[j]]
      /\ locks' = [j \in Keys |-> IF j \in {k} THEN NoLock ELSE locks[j]]
      /\ activity' = [j \in Keys |-> IF j \in {k} THEN "none" ELSE activity[j]]
      /\ alive' = alive \ {wrappers[k]} /\ built' = built /\ minted' = minted
      /\ sid' = [w \in Wrappers |-> IF w \in {wrappers[k]} THEN 0 ELSE sid[w]]
      /\ hist' = [w \in Wrappers |-> w \notin {wrappers[k]} /\ hist[w]]
  BY DEF Dropped, StopAll
<1>w. \A w \in 0..built : w # 0 => w \in Wrappers /\ w \in 1..built
  BY RuntimeAssumption DEF Typed, TypeOK, Wrappers
<1>2. \A w \in 1..built : IF w = wrappers[k] THEN sid'[w] = 0 /\ ~hist'[w]
                                             ELSE sid'[w] = sid[w] /\ hist'[w] = hist[w]
  <2>1. SUFFICES ASSUME NEW w \in 1..built
                 PROVE  IF w = wrappers[k] THEN sid'[w] = 0 /\ ~hist'[w]
                                           ELSE sid'[w] = sid[w] /\ hist'[w] = hist[w]
    OBVIOUS
  <2>2. w \in Wrappers /\ hist[w] \in BOOLEAN
    <3>1. w \in 0..built /\ w # 0
      BY DEF Typed, TypeOK
    <3>2. QED
      BY <1>w, <3>1 DEF Typed, TypeOK
  <2>3. sid'[w] = (IF w \in {wrappers[k]} THEN 0 ELSE sid[w])
    BY <1>1, <2>2
  <2>4. hist'[w] = (w \notin {wrappers[k]} /\ hist[w])
    BY <1>1, <2>2, Zenon
  <2>5. QED
    BY <2>2, <2>3, <2>4
<1>3. (\A u \in Tasks : pc'[u] # "clear" => pc'[u] = pc[u]) /\ "clear" \notin Equipped
  BY DEF Equipped
<1>4. ASSUME NEW u \in Tasks, pc[u] \in Equipped
      PROVE  /\ key[u] \in Keys /\ key[u] # k
             /\ mine[u] \in 1..built /\ mine[u] # wrappers[k] /\ sid'[mine[u]] = sid[mine[u]]
  <2>1. key[u] \in Keys /\ key[u] # k /\ mine[u] # 0 /\ mine[u] \in 1..built
    BY <1>4, <1>w, TaskType DEF HasWrapper
  <2>2. mine[u] # wrappers[k]
    BY <2>1 DEF Isolated
  <2>3. QED
    BY <1>2, <2>1, <2>2
<1>5. AllLive'
  <2>1. ASSUME NEW j \in Keys, wrappers'[j] # 0
        PROVE  wrappers'[j] \in alive' /\ sid'[wrappers'[j]] # 0
    <3>1. j # k /\ wrappers'[j] = wrappers[j]
      BY <1>1, <2>1
    <3>2. wrappers[j] # wrappers[k] /\ wrappers[j] \in 1..built
      BY <1>w, <2>1, <3>1 DEF Isolated, Typed, TypeOK
    <3>3. QED
      BY <1>1, <1>2, <2>1, <3>1, <3>2 DEF Calm, AllLive
  <2>2. QED
    BY <2>1 DEF AllLive
<1>6. Busy'
  <2>1. SUFFICES ASSUME NEW u \in Tasks, pc'[u] \in Equipped
                 PROVE  activity'[key[u]] = "recent" /\ wrappers'[key[u]] # 0 /\ sid'[mine[u]] # 0
    BY DEF Busy
  <2>2. pc[u] \in Equipped
    BY <1>3, <2>1
  <2>3. QED
    BY <1>1, <1>4, <2>2 DEF Calm, Busy
<1>7. LockKept'
  <2>1. SUFFICES ASSUME NEW u \in Tasks
                 PROVE  /\ u \in holding <=> pc'[u] = "sending"
                        /\ pc'[u] \in {"returned", "waiting", "sending"} =>
                             myLock[u] = locks'[key[u]] /\ myLock[u] # NoLock
                        /\ pc'[u] \in {"idle", "ensure", "start", "upserting"} => myLock[u] = NoLock
                        /\ pc'[u] \in {"stop", "clear"} => Kind[u] = "new"
    BY DEF LockKept, turns
  <2>2. pc[u] \in Equipped => locks'[key[u]] = locks[key[u]]
    BY <1>1, <1>4
  <2>3. QED
    BY <2>2 DEF Calm, LockKept, Equipped
<1>8. Settled \subseteq Settled'
  <2>1. minted \in Nat
    BY DEF Typed, TypeOK
  <2>2. QED
    BY <1>1, <1>2, <2>1, SettledKept DEF turns
<1>9. HistoryTrue'
  <2>1. \A w \in 1..built : (sid[w] = 0 /\ ~hist[w]) \/ sid[w] \in Settled \/ w \in Private
    BY DEF Calm, HistoryTrue
  <2>2. ASSUME NEW w \in 1..built, w # wrappers[k], w \in Private PROVE w \in Private' \/ (sid'[w] = 0 /\ ~hist'[w])
    <3>1. CASE sid[w] = 0
      BY <1>2, <2>2, <3>1 DEF Private
    <3>2. CASE sid[w] # 0
      <4>1. sid[w] \in convs => \E u \in Tasks : pc'[u] = "sending" /\ mine[u] = w
        <5>1. SUFFICES ASSUME NEW u \in Tasks, pc[u] = "sending", mine[u] = w
                       PROVE  pc'[u] = "sending"
          BY <2>2 DEF Private
        <5>2. QED
          BY <5>1
      <4>2. \A v \in 1..built : v # w => sid'[v] # sid'[w]
        BY <1>2, <2>2, <3>2 DEF Private
      <4>3. QED
        BY <1>1, <1>2, <2>2, <4>1, <4>2 DEF Private, turns
    <3>3. QED
      BY <3>1, <3>2
  <2>3. \A w \in 1..built' : (sid'[w] = 0 /\ ~hist'[w]) \/ sid'[w] \in Settled' \/ w \in Private'
    BY <1>1, <1>2, <1>8, <2>1, <2>2
  <2>4. \A u \in Tasks : pc'[u] = "sending" => sid'[mine'[u]] \in convs'
    BY <1>4 DEF Calm, HistoryTrue, Equipped, turns
  <2>5. \A u \in Tasks : pc'[u] = "saving" => sid'[mine'[u]] \in Settled'
    BY <1>4, <1>8 DEF Calm, HistoryTrue, Equipped
  <2>6. QED
    BY <2>3, <2>4, <2>5 DEF Calm, HistoryTrue, turns
<1>10. SeenSettled'
  BY <1>8 DEF Calm, SeenSettled
<1>11. RecordsSettled'
  BY <1>4, <1>8 DEF Calm, RecordsSettled, Equipped
<1>12. Serialized'
  BY DEF Calm, Serialized
<1>13. QED
  BY <1>5, <1>6, <1>7, <1>9, <1>10, <1>11, <1>12 DEF Calm

\* Steps that only move a handler on, or the watchdog.
LEMMA CalmMove ==
  ASSUME Typed, Calm, UNCHANGED <<wrappers, locks, objects, records, key, seen, mine, myLock>>,
         UNCHANGED turns,
         \A u \in Tasks : pc[u] \in Equipped => activity'[key[u]] = activity[key[u]],
         \A u \in Tasks :
           \/ pc'[u] = pc[u]
           \/ pc[u] = "idle" /\ pc'[u] = "stop" /\ Kind[u] = "new"
           \/ pc[u] = "idle" /\ pc'[u] = "ensure"
           \/ pc[u] = "clear" /\ pc'[u] = "done"
           \/ pc[u] = "returned" /\ pc'[u] = "waiting",
         \A p \in Procs : pc'[p] \notin {"backoff", "restart"}
  PROVE  Calm'
<1>1. AllLive'
  BY DEF Calm, AllLive, objects
<1>2. \A u \in Tasks : pc'[u] \in Equipped <=> pc[u] \in Equipped
  BY DEF Equipped
<1>3. Busy'
  BY <1>2 DEF Calm, Busy, objects
<1>4. LockKept'
  BY DEF Calm, LockKept, turns
<1>5. Serialized'
  BY DEF Calm, Serialized
<1>6. HistoryTrue' /\ SeenSettled' /\ RecordsSettled'
  BY <1>2, CalmFrame DEF Calm, KeysKept, objects, turns
<1>7. QED
  BY <1>1, <1>3, <1>4, <1>5, <1>6 DEF Calm

\* A handler enters the lock: nobody is in it, and its wrapper is right about
\* the conversation.
LEMMA CalmSend ==
  ASSUME Typed, TurnsTyped, HasWrapper, Isolated, Calm, NEW t \in Tasks,
         pc[t] \in {"returned", "waiting"}, Free(myLock[t]), SendMessage(t),
         UNCHANGED <<registry, key, seen, mine, myLock>>
  PROVE  Calm'
<1> DEFINE w == mine[t]
<1>k. t \in Procs /\ pc \in [Procs -> Labels] /\ w \in 1..built /\ w \in Wrappers /\ w # 0
  BY TaskType, RuntimeAssumption, SMTT(30) DEF Typed, TypeOK, HasWrapper, Equipped, Wrappers
<1>n. sid[w] # 0 /\ sid \in [Wrappers -> 0..minted] /\ sent \in [Tasks -> 0..minted]
  BY DEF Calm, Busy, Equipped, Typed, TypeOK, TurnsTyped
<1>1. /\ sid' = sid /\ minted' = minted /\ built' = built /\ hist' = hist /\ records' = records
      /\ alive' = alive \cup {w} /\ holding' = holding \cup {t}
      /\ sent' = [sent EXCEPT ![t] = sid'[w]]
      /\ stale' = IF hist[w] = (sent'[t] \in convs) THEN stale \ {t} ELSE stale \cup {t}
      /\ convs' = IF t \in stale' THEN convs ELSE convs \cup {sent'[t]}
      /\ pc' = [pc EXCEPT ![t] = "sending"]
  BY <1>k, <1>n DEF SendMessage, Goto
<1>2. sent'[t] = sid[w]
  BY <1>1, <1>n
<1>3. pc'[t] = "sending" /\ \A p \in Procs : p # t => pc'[p] = pc[p]
  BY <1>1, <1>k
<1>4. ASSUME NEW u \in Tasks, pc[u] = "sending" PROVE key[u] # key[t]
  <2>1. u \in holding /\ myLock[u] = locks[key[u]] /\ myLock[t] = locks[key[t]]
    BY <1>4 DEF Calm, LockKept
  <2>2. myLock[u] # myLock[t]
    BY <1>4, <2>1 DEF Free, Ended
  <2>3. QED
    BY <2>1, <2>2
<1>5. hist[w] = (sid[w] \in convs)
  <2>b. hist[w] \in BOOLEAN
    BY <1>k DEF Typed, TypeOK
  <2>1. CASE sid[w] \in Settled
    <3>1. hist[w] /\ sid[w] \in convs
      BY <1>k, <2>1 DEF Settled
    <3>2. QED
      BY <2>b, <3>1
  <2>2. CASE w \in Private
    <3>1. ~\E u \in Tasks : pc[u] = "sending" /\ mine[u] = w
      BY <1>4, <1>k DEF Isolated
    <3>2. ~hist[w] /\ sid[w] \notin convs
      BY <2>2, <3>1 DEF Private
    <3>3. QED
      BY <2>b, <3>2
  <2>3. QED
    BY <1>k, <1>n, <2>1, <2>2 DEF Calm, HistoryTrue
<1>6. stale' = {} /\ convs' = convs \cup {sid[w]}
  BY <1>1, <1>2, <1>5 DEF Calm, HistoryTrue
<1>7. \A u \in Tasks : u \in Procs
  BY DEF Procs
<1>8. AllLive'
  BY <1>1, <1>3, <1>k DEF Calm, AllLive, registry
<1>9. Busy'
  BY <1>1, <1>3, <1>7 DEF Calm, Busy, Equipped, registry
<1>10. LockKept'
  BY <1>1, <1>3, <1>7 DEF Calm, LockKept, registry
<1>11. Serialized'
  BY <1>3, <1>4, <1>7 DEF Calm, Serialized
<1>12. Settled \subseteq Settled'
  BY <1>1, <1>6 DEF Settled
<1>13. HistoryTrue'
  <2>1. ASSUME NEW v \in 1..built, v \in Private PROVE v \in Private'
    <3>1. sid[v] \in convs' => \E u \in Tasks : pc'[u] = "sending" /\ mine[u] = v
      <4>1. CASE v = w
        BY <1>3, <4>1
      <4>2. CASE v # w
        <5>1. sid[v] # sid[w]
          BY <1>k, <2>1, <4>2 DEF Private
        <5>2. sid[v] \in convs' => \E u \in Tasks : pc[u] = "sending" /\ mine[u] = v
          BY <1>6, <2>1, <5>1 DEF Private
        <5>3. QED
          BY <1>3, <1>7, <5>2
      <4>3. QED
        BY <4>1, <4>2
    <3>2. QED
      BY <1>1, <2>1, <3>1 DEF Private
  <2>2. \A v \in 1..built' : (sid'[v] = 0 /\ ~hist'[v]) \/ sid'[v] \in Settled' \/ v \in Private'
    BY <1>1, <1>12, <2>1 DEF Calm, HistoryTrue
  <2>3. \A u \in Tasks : pc'[u] = "sending" => sid'[mine'[u]] \in convs'
    BY <1>1, <1>3, <1>6, <1>7 DEF Calm, HistoryTrue
  <2>4. \A u \in Tasks : pc'[u] = "saving" => sid'[mine'[u]] \in Settled'
    BY <1>1, <1>3, <1>7, <1>12 DEF Calm, HistoryTrue
  <2>5. QED
    BY <1>6, <2>2, <2>3, <2>4 DEF HistoryTrue
<1>14. SeenSettled'
  BY <1>12 DEF Calm, SeenSettled
<1>15. RecordsSettled'
  BY <1>1, <1>3, <1>7, <1>12 DEF Calm, RecordsSettled, Equipped
<1>16. QED
  BY <1>8, <1>9, <1>10, <1>11, <1>13, <1>14, <1>15 DEF Calm

\* The answer: from here on every wrapper with this provider session is right
\* to take it for begun.
LEMMA CalmAnswered ==
  ASSUME Typed, TurnsTyped, HasWrapper, Calm, NEW t \in Tasks, Answered(t)
  PROVE  Calm'
<1> DEFINE w == mine[t]
<1>k. t \in Procs /\ pc \in [Procs -> Labels] /\ pc[t] = "sending" /\ w \in 1..built /\ w \in Wrappers
  BY TaskType, RuntimeAssumption, SMTT(30) DEF Answered, Typed, TypeOK, HasWrapper, Equipped, Wrappers
<1>1. /\ hist' = [hist EXCEPT ![w] = TRUE] /\ holding' = holding \ {t}
      /\ pc' = [pc EXCEPT ![t] = "saving"]
      /\ UNCHANGED <<registry, built, alive, sid, minted, records, key, seen, mine, myLock, convs, stale>>
  BY DEF Answered, Goto
<1>2. pc'[t] = "saving" /\ \A p \in Procs : p # t => pc'[p] = pc[p]
  BY <1>1, <1>k
<1>7. \A u \in Tasks : u \in Procs
  BY DEF Procs
<1>h. \A v \in 1..built : v \in Wrappers /\ (hist'[v] <=> v = w \/ hist[v])
  <2>1. \A v \in 1..built : v \in Wrappers
    BY RuntimeAssumption DEF Typed, TypeOK, Wrappers
  <2>2. hist'[w] /\ \A v \in Wrappers : v # w => hist'[v] = hist[v]
    BY <1>1, <1>k DEF Typed, TypeOK
  <2>3. QED
    BY <2>1, <2>2
<1>3. sid[w] \in convs /\ sid[w] # 0
  BY <1>k DEF Calm, HistoryTrue, Busy, Equipped
<1>4. Settled \subseteq Settled'
  BY <1>1, <1>h DEF Settled
<1>5. sid[w] \in Settled'
  <2>1. ASSUME NEW v \in 1..built, sid[v] = sid[w] PROVE hist'[v]
    <3>1. CASE sid[w] \in Settled
      BY <1>h, <2>1, <3>1 DEF Settled
    <3>2. CASE w \in Private
      BY <1>h, <1>k, <2>1, <3>2 DEF Private
    <3>3. QED
      BY <1>3, <1>k, <3>1, <3>2 DEF Calm, HistoryTrue
  <2>2. QED
    BY <1>1, <1>3, <2>1 DEF Settled
<1>8. AllLive'
  BY <1>1, <1>2 DEF Calm, AllLive, registry
<1>9. Busy'
  BY <1>1, <1>2, <1>k, <1>7 DEF Calm, Busy, Equipped, registry
<1>10. LockKept'
  BY <1>1, <1>2, <1>k, <1>7 DEF Calm, LockKept, registry
<1>11. Serialized'
  BY <1>2, <1>7, <1>1 DEF Calm, Serialized
<1>13. HistoryTrue'
  <2>1. ASSUME NEW v \in 1..built, v # w, v \in Private PROVE v \in Private'
    <3>1. sid[v] \in convs => \E u \in Tasks : pc'[u] = "sending" /\ mine[u] = v
      BY <1>2, <1>7, <2>1 DEF Private
    <3>2. QED
      BY <1>1, <1>h, <2>1, <3>1 DEF Private
  <2>2. \A v \in 1..built' : (sid'[v] = 0 /\ ~hist'[v]) \/ sid'[v] \in Settled' \/ v \in Private'
    BY <1>1, <1>4, <1>5, <1>h, <2>1 DEF Calm, HistoryTrue
  <2>3. \A u \in Tasks : pc'[u] = "sending" => sid'[mine'[u]] \in convs'
    BY <1>1, <1>2, <1>7 DEF Calm, HistoryTrue
  <2>4. \A u \in Tasks : pc'[u] = "saving" => sid'[mine'[u]] \in Settled'
    BY <1>1, <1>2, <1>4, <1>5, <1>7 DEF Calm, HistoryTrue
  <2>5. QED
    BY <1>1, <2>2, <2>3, <2>4 DEF Calm, HistoryTrue
<1>14. SeenSettled'
  BY <1>1, <1>4 DEF Calm, SeenSettled
<1>15. RecordsSettled'
  BY <1>1, <1>2, <1>4, <1>7 DEF Calm, RecordsSettled, Equipped
<1>16. QED
  BY <1>8, <1>9, <1>10, <1>11, <1>13, <1>14, <1>15 DEF Calm

\* So does the record written at the end of a turn.
LEMMA CalmSaved ==
  ASSUME Typed, Calm, NEW t \in Tasks, Saved(t)
  PROVE  Calm'
<1> DEFINE s0 == Scope(key[t][2])
<1>k. t \in Procs /\ pc \in [Procs -> Labels] /\ pc[t] = "saving" /\ s0 \in StoreKeys
  BY TaskType DEF Saved, Typed, TypeOK
<1>1. /\ records' = [records EXCEPT ![s0] = [agent |-> key[t][1], sid |-> sid[mine[t]]]]
      /\ pc' = [pc EXCEPT ![t] = "done"]
      /\ UNCHANGED <<registry, objects, key, seen, mine, myLock, turns>>
  BY DEF Saved, Goto
<1>2. pc'[t] = "done" /\ \A p \in Procs : p # t => pc'[p] = pc[p]
  BY <1>1, <1>k
<1>3. \A u \in Tasks : u \in Procs
  BY DEF Procs
<1>4. Settled' = Settled
  BY <1>1 DEF Settled, objects, turns
<1>5. AllLive' /\ Busy'
  BY <1>1, <1>2, <1>3 DEF Calm, AllLive, Busy, Equipped, registry, objects
<1>6. LockKept' /\ Serialized'
  BY <1>1, <1>2, <1>3, <1>k DEF Calm, LockKept, Serialized, registry, turns
<1>7. HistoryTrue'
  <2>1. Private \subseteq Private'
    BY <1>1, <1>2, <1>3, <1>k DEF Private, objects, turns
  <2>2. QED
    BY <1>1, <1>2, <1>3, <1>4, <2>1 DEF Calm, HistoryTrue, objects, turns
<1>8. SeenSettled'
  BY <1>1, <1>4 DEF Calm, SeenSettled
<1>9. RecordsSettled'
  <2>1. SUFFICES ASSUME NEW s \in StoreKeys, records'[s] # NoRecord
                 PROVE  \/ SidOf(records'[s]) \in Settled
                        \/ \E u \in Tasks : /\ pc'[u] \in Equipped /\ Scope(key[u][2]) = s
                                            /\ SidOf(records'[s]) = sid[mine[u]]
    BY <1>1, <1>4 DEF RecordsSettled, objects
  <2>2. CASE s = s0
    <3>1. SidOf(records'[s]) = sid[mine[t]]
      BY <1>1, <2>1, <2>2 DEF SidOf, Typed, TypeOK
    <3>2. QED
      BY <1>k, <3>1 DEF Calm, HistoryTrue
  <2>3. CASE s # s0
    <3>1. records'[s] = records[s]
      BY <1>1, <2>3 DEF Typed, TypeOK
    <3>2. \/ SidOf(records[s]) \in Settled
          \/ \E u \in Tasks : /\ pc[u] \in Equipped /\ Scope(key[u][2]) = s
                              /\ SidOf(records[s]) = sid[mine[u]]
      BY <2>1, <3>1 DEF Calm, RecordsSettled
    <3>3. QED
      BY <1>2, <1>3, <2>3, <3>1, <3>2
  <2>4. QED
    BY <2>2, <2>3
<1>10. QED
  BY <1>5, <1>6, <1>7, <1>8, <1>9 DEF Calm

-----------------------------------------------------------------------------
\* Which steps there are when no call fails, nothing dies or is shut down.
QuietBackground ==
  /\ \/ RestartStep(Watchdog)
     \/ WatchdogStep
     \/ \E k \in Keys : GoesIdle(k) /\ \A t \in InFlight : key[t] # k
  /\ UNCHANGED turns

\* Where only overlaps may happen, a step is a turn's or a quiet one.
LEMMA QuietCases ==
  ASSUME Step, scenario.may \subseteq {"overlap"}
  PROVE  \/ \E t \in Tasks : BeginTurn(t) \/ TurnStep(t)
         \/ QuietBackground
BY DEF Step, TurnStep, Fault, May, Background, QuietBackground

\* Handlers of the scenario only.
LEMMA CalledStep ==
  ASSUME Typed, HasWrapper, Called, Step, UNCHANGED scenario
  PROVE  Called'
<1>1. ASSUME NEW t \in Tasks, OwnTurn(t) PROVE Called'
  BY <1>1, OwnFrame, OwnSids DEF Elsewhere, Called, Ended
<1>2. ASSUME NEW t \in Tasks, RegistryTurn(t) PROVE Called'
  BY <1>2, FrameEnsure, RegistryFrom DEF RegistryTurn, Elsewhere, Called
<1>3. ASSUME NEW t \in Tasks, BeginTurn(t) PROVE Called'
  BY <1>3, FrameBegin DEF BeginTurn, Elsewhere, Called
<1>4. CASE Background
  BY <1>4, FrameBackground DEF TasksStay, Called
<1>5. QED
  BY <1>1, <1>2, <1>3, <1>4, StepCases

\* Every step of a turn keeps the channel calm.
LEMMA CalmTurn ==
  ASSUME ConvTyped, Isolated, Called, NewLabels, NewAlone, CalmCase, Calm,
         NEW t \in Tasks, TurnStep(t)
  PROVE  Calm'
<1>0. Typed /\ TurnsTyped /\ HasWrapper /\ OneAgentEach
  BY DEF ConvTyped, CalmCase
<1>k. /\ t \in Procs /\ key[t] \in Keys /\ pc \in [Procs -> Labels]
      /\ \A u \in Tasks : u \in Procs
      /\ \A j \in Keys : wrappers[j] # 0 => wrappers[j] \in alive
      /\ \A p \in Procs : pc[p] \notin {"backoff", "restart"}
  BY <1>0, TaskType DEF Typed, TypeOK, Calm, AllLive
<1>m. pc[t] \notin {"idle", "stop", "clear"} => Kind[t] = "message" \/ pc[t] \in {"done", "failed"}
  BY DEF Called, CalmCase, NewLabels
<1>1. CASE EnsureStep(t) /\ UNCHANGED turns
  <2>1. pc[t] \in {"ensure", "start", "upserting"}
    BY <1>1 DEF EnsureStep, EnsureReuse, EnsureDead, EnsureMissing, EnsureStart, EnsureUpserted
  <2>2. Kind[t] = "message" /\ ~EnsureDead(t)
    BY <1>k, <1>m, <2>1 DEF EnsureDead
  <2>3. QED
    BY <1>0, <1>1, <2>2, CalmReuse, CalmMissing, CalmStart, CalmUpserted DEF EnsureStep
<1>2. CASE RestartStep(t)
  BY <1>k, <1>2 DEF RestartStep, RestartWakes, RestartStarts
<1>3. CASE ResetSession(t) /\ UNCHANGED turns
  <2>1. /\ pc[t] = "stop" /\ Dropped({key[t]}) /\ StopAll({wrappers[key[t]]})
        /\ pc' = [pc EXCEPT ![t] = "clear"]
        /\ records' = [records EXCEPT ![Scope(key[t][2])] = NoRecord]
        /\ UNCHANGED <<key, seen, mine, myLock>>
    BY <1>3 DEF ResetSession, Goto
  <2>2. \A u \in Tasks : u # t => pc[u] \notin Equipped
    BY <2>1 DEF Calm, LockKept, NewAlone, InFlight, Ended, Equipped
  <2>3. \A u \in Tasks : pc[u] \notin Equipped
    BY <2>1, <2>2 DEF Equipped
  <2>4. \A s \in StoreKeys : records'[s] \in {NoRecord, records[s]}
    BY <1>0, <2>1 DEF Typed, TypeOK
  <2>5. \A u \in Tasks : pc'[u] = pc[u] \/ (pc[u] = "stop" /\ pc'[u] = "clear")
    BY <1>k, <2>1
  <2>6. \A p \in Procs : pc'[p] \notin {"backoff", "restart"}
    BY <1>k, <2>1
  <2>7. QED
    BY <1>0, <1>3, <1>k, <2>1, <2>3, <2>4, <2>5, <2>6, CalmDrop
<1>4. CASE Cleared(t) /\ UNCHANGED turns
  <2>1. pc[t] = "clear" /\ Kind[t] = "new" /\ pc' = [pc EXCEPT ![t] = "done"]
        /\ UNCHANGED <<registry, objects, records, key, seen, mine, myLock>>
    BY <1>4 DEF Cleared, Goto, Calm, LockKept
  <2>2. /\ \A u \in Tasks : pc'[u] = pc[u] \/ (pc[u] = "clear" /\ pc'[u] = "done")
        /\ \A p \in Procs : pc'[p] \notin {"backoff", "restart"}
    BY <1>k, <2>1
  <2>3. QED
    BY <1>0, <1>4, <2>1, <2>2, CalmMove DEF registry
<1>5. CASE Proceed(t) \/ Acquire(t)
  <2>1. /\ pc[t] \in {"returned", "waiting"} /\ t \notin holding /\ Kind[t] = "message"
    BY <1>5, <1>m DEF Proceed, Acquire, Calm, LockKept
  <2>2. CASE Enter(t) /\ Free(myLock[t])
    <3>1. SendMessage(t) /\ UNCHANGED <<registry, key, seen, mine, myLock>>
      BY <2>1, <2>2 DEF Enter, SwitchModel, LocalCommand
    <3>2. QED
      BY <1>0, <2>1, <2>2, <3>1, CalmSend
  <2>3. CASE /\ pc[t] = "returned" /\ Goto(t, "waiting")
             /\ UNCHANGED <<registry, objects, records, key, seen, mine, myLock, todo, crashes, turns>>
    <3>1. /\ \A u \in Tasks : pc'[u] = pc[u] \/ (pc[u] = "returned" /\ pc'[u] = "waiting")
          /\ \A p \in Procs : pc'[p] \notin {"backoff", "restart"}
      BY <1>k, <2>3 DEF Goto
    <3>2. QED
      BY <1>0, <2>3, <3>1, CalmMove DEF registry
  <2>4. QED
    BY <1>5, <2>1, <2>2, <2>3 DEF Proceed, Acquire
<1>6. CASE Answered(t) \/ Saved(t)
  BY <1>0, <1>6, CalmAnswered, CalmSaved
<1>7. CASE Refused(t)
  BY <1>7 DEF Refused, Calm, HistoryTrue
<1>8. QED
  BY <1>1, <1>2, <1>3, <1>4, <1>5, <1>6, <1>7 DEF TurnStep, ResetStep

\* A handler that begins keeps the channel calm.
LEMMA CalmBegin ==
  ASSUME ConvTyped, Calm, NEW t \in Tasks, BeginTurn(t)
  PROVE  Calm'
<1>0. Typed
  BY DEF ConvTyped
<1>1. /\ UNCHANGED <<wrappers, locks, activity, objects, records, key, seen, mine, myLock>>
      /\ UNCHANGED turns
      /\ pc[t] = "idle" /\ pc' = [pc EXCEPT ![t] = IF Kind[t] = "new" THEN "stop" ELSE "ensure"]
  BY DEF BeginTurn, Begin, Goto, registry
<1>2. /\ \A u \in Tasks :
           \/ pc'[u] = pc[u]
           \/ pc[u] = "idle" /\ pc'[u] = "stop" /\ Kind[u] = "new"
           \/ pc[u] = "idle" /\ pc'[u] = "ensure"
      /\ \A p \in Procs : pc'[p] \notin {"backoff", "restart"}
  BY <1>0, <1>1, TaskType DEF Typed, TypeOK, Calm, AllLive
<1>3. QED
  BY <1>0, <1>1, <1>2, CalmMove

\* A quiet step of the background keeps the channel calm.
LEMMA CalmBackground ==
  ASSUME ConvTyped, Isolated, Calm, QuietBackground
  PROVE  Calm'
<1>0. Typed /\ TurnsTyped /\ HasWrapper
  BY DEF ConvTyped
<1>k. /\ Watchdog \in Procs /\ Watchdog \notin Tasks /\ pc \in [Procs -> Labels]
      /\ \A u \in Tasks : u \in Procs /\ u # Watchdog
      /\ \A j \in Keys : wrappers[j] # 0 => wrappers[j] \in alive
      /\ \A p \in Procs : pc[p] \notin {"backoff", "restart"}
  BY <1>0, RuntimeAssumption DEF Procs, Typed, TypeOK, Calm, AllLive
<1>1. CASE RestartStep(Watchdog)
  BY <1>k, <1>1 DEF RestartStep, RestartWakes, RestartStarts
<1>2. CASE \E k \in Keys : GoesIdle(k) /\ \A t \in InFlight : key[t] # k
  <2>1. PICK k \in Keys : GoesIdle(k) /\ \A t \in InFlight : key[t] # k
    BY <1>2
  <2>2. \A u \in Tasks : pc[u] \in Equipped => activity'[key[u]] = activity[key[u]]
    <3>1. SUFFICES ASSUME NEW u \in Tasks, pc[u] \in Equipped
                   PROVE  activity'[key[u]] = activity[key[u]]
      OBVIOUS
    <3>2. key[u] # k /\ key[u] \in Keys
      BY <1>0, <2>1, <3>1, TaskType DEF InFlight, Ended, Equipped
    <3>3. QED
      BY <1>0, <2>1, <3>2 DEF GoesIdle, Typed, TypeOK
  <2>3. UNCHANGED <<wrappers, locks, objects, records, pc, key, seen, mine, myLock>> /\ UNCHANGED turns
    BY <2>1 DEF GoesIdle, handlers, QuietBackground
  <2>4. QED
    BY <1>0, <1>k, <2>2, <2>3, CalmMove
<1>3. CASE /\ UNCHANGED <<registry, objects, records, key, seen, mine, myLock>> /\ UNCHANGED turns
           /\ \/ UNCHANGED pc
              \/ \E l \in {"checking", "cleaning", "asleep"} : Goto(Watchdog, l)
  <2>1. /\ \A u \in Tasks : pc'[u] = pc[u]
        /\ \A p \in Procs : pc'[p] \notin {"backoff", "restart"}
    BY <1>3, <1>k DEF Goto
  <2>2. QED
    BY <1>0, <1>3, <2>1, CalmMove DEF registry
<1>4. CASE \E k \in Keys : CleanIdle(k)
  <2>1. PICK k \in Keys : CleanIdle(k)
    BY <1>4
  <2>2. /\ Dropped({k}) /\ StopAll({wrappers[k]}) /\ activity[k] = "idle"
        /\ UNCHANGED <<records, pc, key, seen, mine, myLock>> /\ UNCHANGED turns
    BY <2>1 DEF CleanIdle, handlers, QuietBackground
  <2>3. \A u \in Tasks : key[u] = k => pc[u] \notin Equipped
    BY <2>2 DEF Calm, Busy
  <2>4. QED
    BY <1>0, <1>k, <2>2, <2>3, CalmDrop
<1>5. CASE WatchdogStep
  <2>1. ~ \E k \in Keys : CheckDead(k)
    BY <1>k DEF CheckDead
  <2>2. QED
    BY <1>3, <1>4, <1>5, <2>1
       DEF WatchdogStep, WatchdogLooks, CheckFine, CleanActive, CheckedAll, CleanedAll, handlers,
           QuietBackground
<1>6. QED
  BY <1>1, <1>2, <1>5 DEF QuietBackground

\* It is calm at first.
LEMMA CalmInit ==
  ASSUME ConvInit
  PROVE  Calm
<1>1. /\ built = 0 /\ wrappers = [k \in Keys |-> 0] /\ stale = {} /\ holding = {}
      /\ records = [s \in StoreKeys |-> NoRecord]
      /\ myLock = [p \in Procs |-> NoLock] /\ seen = [p \in Procs |-> NoRecord]
      /\ \A p \in Procs : pc[p] \in {"asleep", "idle"}
  BY DEF ConvInit, Init
<1>2. \A t \in Tasks : t \in Procs /\ pc[t] = "idle"
  BY RuntimeAssumption DEF ConvInit, Init, Procs
<1>3. AllLive /\ Busy /\ LockKept /\ Serialized
  BY <1>1, <1>2 DEF AllLive, Busy, LockKept, Serialized, Equipped
<1>4. HistoryTrue /\ SeenSettled /\ RecordsSettled
  BY <1>1, <1>2 DEF HistoryTrue, SeenSettled, RecordsSettled
<1>5. QED
  BY <1>3, <1>4 DEF Calm

-----------------------------------------------------------------------------
\* When messages do not meet there is one message at work at a time, whatever
\* fails, dies or goes idle.
Meetings ==
  /\ \A t, u \in InFlight : t # u => May(IF "new" \in {Kind[t], Kind[u]} THEN "new" ELSE "overlap")
  /\ \A t \in Tasks : pc[t] = "sending" => Kind[t] = "message"

\* Without overlaps handlers of a channel do not meet.
LEMMA MeetingsStep ==
  ASSUME ConvTyped, Meetings, Step, UNCHANGED scenario
  PROVE  Meetings'
<1>0. Typed /\ HasWrapper
  BY DEF ConvTyped
<1>1. ASSUME InFlight' \subseteq InFlight,
             \A t \in Tasks : pc'[t] = "sending" => pc[t] = "sending" \/ Kind[t] = "message"
      PROVE  Meetings'
  BY <1>1 DEF Meetings, May
<1>2. ASSUME NEW t \in Tasks, OwnTurn(t) PROVE Meetings'
  <2>1. Elsewhere(t) /\ pc[t] \notin Ended
    BY <1>0, <1>2, OwnFrame, OwnSids
  <2>2. pc'[t] = "sending" => Kind[t] = "message"
    BY <1>0, <1>2, TaskType
       DEF OwnTurn, Proceed, Acquire, Enter, SendMessage, SwitchModel, LocalCommand, Answered, Refused,
           TimesOut, Retry, Saved, TurnFails, Goto, Typed, TypeOK
  <2>3. QED
    BY <1>1, <2>1, <2>2 DEF Elsewhere, InFlight
<1>3. ASSUME NEW t \in Tasks, RegistryTurn(t) PROVE Meetings'
  <2>1. Elsewhere(t) /\ pc[t] \notin Ended /\ pc'[t] # "sending"
    BY <1>0, <1>3, FrameEnsure, RegistryFrom, RegistryTo DEF RegistryTurn, Ended
  <2>2. QED
    BY <1>1, <2>1 DEF Elsewhere, InFlight
<1>4. ASSUME NEW t \in Tasks, BeginTurn(t) PROVE Meetings'
  <2>1. Elsewhere(t) /\ pc'[t] # "sending"
    BY <1>0, <1>4, FrameBegin, BeginTo
  <2>2. InFlight' \subseteq InFlight \cup {t}
    BY <2>1 DEF Elsewhere, InFlight
  <2>3. \A u \in InFlight : May(IF "new" \in {Kind[t], Kind[u]} THEN "new" ELSE "overlap")
    BY <1>4 DEF BeginTurn
  <2>4. \A u \in Tasks : pc'[u] = "sending" => pc[u] = "sending"
    BY <2>1 DEF Elsewhere
  <2>5. \A u, v \in InFlight' : u # v => May(IF "new" \in {Kind[u], Kind[v]} THEN "new" ELSE "overlap")
    BY <2>2, <2>3 DEF Meetings
  <2>6. QED
    BY <2>4, <2>5 DEF Meetings, May
<1>5. CASE Background
  BY <1>0, <1>1, <1>5, FrameBackground DEF TasksStay, InFlight
<1>6. QED
  BY <1>2, <1>3, <1>4, <1>5, StepCases

\* What the scenario says holds at first.
LEMMA MeetingsInit ==
  ASSUME ConvInit
  PROVE  Meetings /\ Called /\ NewLabels /\ NothingYet /\ NewAlone
BY RuntimeAssumption DEF ConvInit, Init, Meetings, Called, NewLabels, NothingYet, NewAlone, InFlight,
                         Ended, Procs

SerialInv ==
  /\ Meetings /\ Called /\ NewLabels /\ NothingYet
  /\ "new" \notin scenario.may => NewAlone
  /\ CalmCase => Calm

\* The invariant under Serialized is inductive.
LEMMA SerialStep ==
  ASSUME ConvTyped, Isolated, SerialInv, [ConvNext]_vars
  PROVE  SerialInv'
<1>0. Typed /\ HasWrapper
  BY DEF ConvTyped
<1>1. CASE ConvNext
  <2>1. Step /\ UNCHANGED scenario /\ KeysKept
    BY <1>1, TypedConvStep DEF ConvNext
  <2>2. Meetings' /\ Called' /\ NewLabels' /\ NothingYet'
    BY <1>0, <2>1, MeetingsStep, CalledStep, BeginningsStep DEF SerialInv
  <2>3. "new" \notin scenario'.may => NewAlone'
    BY <1>0, <2>1, AloneStep DEF SerialInv
  <2>4. ASSUME CalmCase' PROVE Calm'
    <3>1. CalmCase
      BY <1>0, <2>1, <2>4 DEF CalmCase, OneAgentEach, KeysKept
    <3>2. Calm /\ NewAlone
      BY <3>1 DEF SerialInv, CalmCase
    <3>3. QED
      BY <2>1, <3>1, <3>2, QuietCases, CalmTurn, CalmBegin, CalmBackground DEF SerialInv, CalmCase
  <2>5. QED
    BY <2>2, <2>3, <2>4 DEF SerialInv
<1>2. CASE UNCHANGED vars
  <2>1. UNCHANGED <<scenario, turns, objects, records, pc, key, seen, mine, myLock, wrappers, activity, locks>>
    BY <1>2 DEF vars, runtimeVars, handlers, registry
  <2>2. Meetings' /\ Called' /\ NewLabels' /\ NothingYet'
    BY <2>1 DEF SerialInv, Meetings, Called, NewLabels, NothingYet, InFlight, May
  <2>3. "new" \notin scenario'.may => NewAlone'
    BY <2>1 DEF SerialInv, NewAlone, InFlight
  <2>4. ASSUME CalmCase' PROVE Calm'
    <3>1. CalmCase
      BY <2>1, <2>4 DEF CalmCase, OneAgentEach
    <3>2. Calm
      BY <3>1 DEF SerialInv
    <3>3. \A p \in Procs : pc'[p] \notin {"backoff", "restart"}
      BY <2>1, <3>2 DEF Calm, AllLive
    <3>4. QED
      BY <1>0, <2>1, <3>2, <3>3, CalmMove
  <2>5. QED
    BY <2>2, <2>3, <2>4 DEF SerialInv
<1>3. QED
  BY <1>1, <1>2

\* tests/test_stability.py:209 "Send two messages concurrently - they should be
\* serialized": two messages of a session are never at the provider at once
\* when the handlers that meet are messages, with /new in between, and nothing
\* fails; nor when messages do not meet, whatever else happens.  (An idle
\* cleanup or a /new at the same time breaks the lock; see README.)
THEOREM OneMessageAtATime ==
  ConvSpec => [](CalmCase \/ "overlap" \notin scenario.may => Serialized)
<1>1. ConvTyped /\ Isolated /\ SerialInv /\ [ConvNext]_vars => SerialInv'
  BY SerialStep
<1>2. ConvInit => SerialInv
  BY MeetingsInit, CalmInit DEF SerialInv
<1>3. SerialInv => (CalmCase \/ "overlap" \notin scenario.may => Serialized)
  <2>1. SUFFICES ASSUME SerialInv, "overlap" \notin scenario.may,
                        NEW t \in Tasks, NEW u \in Tasks, pc[t] = "sending", pc[u] = "sending"
                 PROVE  t = u
    BY DEF SerialInv, Calm, Serialized
  <2>2. t \in InFlight /\ u \in InFlight /\ Kind[t] = "message" /\ Kind[u] = "message"
    BY <2>1 DEF SerialInv, Meetings, InFlight, Ended
  <2>3. QED
    BY <2>1, <2>2 DEF SerialInv, Meetings, May
<1>4. QED
  BY <1>1, <1>2, <1>3, AlwaysIsolated, PTL DEF ConvSpec

-----------------------------------------------------------------------------
\* One conversation.  While one handler is at work at a time the record of a
\* session names the provider session of its wrapper, and that of its last
\* message stays in both until a /new or a /model takes it away: idle cleanup
\* leaves the record, from which the next wrapper has it.  A session is refused
\* only when no message of its conversation was taken yet.

\* No wrapper dies, and a handler uses the one that is registered.
Held ==
  /\ AllLive
  /\ \A t \in Tasks : pc[t] \in Equipped => activity[key[t]] = "recent" /\ mine[t] = wrappers[key[t]]

Owned == \A k \in Keys : wrappers[k] # 0 => \E t \in Tasks : key[t] = k

Recorded == \A k \in Keys : wrappers[k] # 0 => SidOf(RecordOf(k)) = sid[wrappers[k]]

Looked == \A t \in Tasks : pc[t] = "start" => seen[t] = RecordOf(key[t])

\* A message of session k is at the provider and was not refused.
Taken(k) == \E t \in Tasks : pc[t] = "sending" /\ t \notin stale /\ key[t] = k

Lasting ==
  \A k \in Keys : last[k] # 0 /\ (\A t \in Tasks : pc[t] = "clear" => key[t] # k) =>
    /\ last[k] \in convs
    /\ SidOf(RecordOf(k)) = last[k]
    /\ wrappers[k] # 0 => hist[wrappers[k]] \/ Taken(k)

Retrying ==
  \A t \in Tasks :
    (Kind[t] # "new" /\ pc[t] \in {"stop", "clear"}) \/ (pc[t] = "sending" /\ t \in stale)
      => last[key[t]] = 0

LastOwned == \A k \in Keys : last[k] # 0 => \E t \in Tasks : key[t] = k

Lone == Held /\ Owned /\ Recorded /\ Looked /\ Lasting /\ Retrying /\ LastOwned

\* No handler but t is at work.
Only(t) == \A u \in Tasks : u # t => pc[u] \in Ended

\* A handler's step changes the last provider session of its own key only.
LEMMA LastStep ==
  ASSUME Remember, NEW t \in Tasks, Elsewhere(t), NEW k \in Keys
  PROVE  last'[k] = IF (EndsNew(t) \/ EndsModel(t)) /\ key[t] = k THEN 0
                    ELSE IF Sends(t) /\ key[t] = k THEN sent'[t] ELSE last[k]
<1>1. \A u \in Tasks : EndsNew(u) \/ EndsModel(u) \/ Sends(u) => u = t
  BY DEF Elsewhere, EndsNew, EndsModel, Sends
<1>2. last'[k] = IF \E u \in Tasks : (EndsNew(u) \/ EndsModel(u)) /\ key[u] = k THEN 0
                 ELSE IF \E u \in Tasks : Sends(u) /\ key[u] = k
                        THEN sent'[CHOOSE u \in Tasks : Sends(u) /\ key[u] = k]
                        ELSE last[k]
  BY DEF Remember
<1>3. ASSUME Sends(t), key[t] = k PROVE (CHOOSE u \in Tasks : Sends(u) /\ key[u] = k) = t
  <2> DEFINE s == CHOOSE u \in Tasks : Sends(u) /\ key[u] = k
  <2>1. s \in Tasks /\ Sends(s)
    BY <1>3
  <2>2. QED
    BY <1>1, <2>1
<1>4. QED
  BY <1>1, <1>2, <1>3

\* The last conversation of a channel is forgotten by its own handlers only.
LEMMA LastStays ==
  ASSUME Remember, TasksStay, NEW k \in Keys
  PROVE  last'[k] = last[k]
<1>1. \A u \in Tasks : ~EndsNew(u) /\ ~EndsModel(u) /\ ~Sends(u)
  BY DEF TasksStay, EndsNew, EndsModel, Sends
<1>2. QED
  BY <1>1 DEF Remember

\* Steps that leave the places of provider sessions as they are.
LEMMA LoneFrame ==
  ASSUME Typed, Lone,
         UNCHANGED <<wrappers, alive, sid, key, convs>>,
         \A w \in Wrappers : hist[w] => hist'[w],
         \A k \in Keys : SidOf(RecordOf(k)') = SidOf(RecordOf(k)),
         \A k \in Keys : last'[k] \in {0, last[k]},
         \A p \in Procs : pc'[p] \notin {"backoff", "restart"},
         \A u \in Tasks : pc'[u] \in Equipped =>
           activity'[key[u]] = "recent" /\ mine'[u] = wrappers[key[u]],
         \A u \in Tasks : pc'[u] = "start" => seen'[u] = RecordOf(key[u])',
         \A u \in Tasks : pc[u] = "clear" => pc'[u] = "clear" \/ last'[key[u]] = 0,
         \A u \in Tasks : pc[u] = "sending" /\ u \notin stale =>
           (pc'[u] = "sending" /\ u \notin stale') \/ hist'[mine[u]],
         \A u \in Tasks :
           (Kind[u] # "new" /\ pc'[u] \in {"stop", "clear"}) \/ (pc'[u] = "sending" /\ u \in stale')
             => last'[key[u]] = 0
  PROVE  Lone'
<1>1. Held'
  BY DEF Lone, Held, AllLive
<1>2. Owned' /\ LastOwned'
  BY DEF Lone, Owned, LastOwned
<1>3. Recorded'
  BY DEF Lone, Recorded
<1>4. Looked'
  BY DEF Looked
<1>5. Retrying'
  BY DEF Retrying
<1>6. Lasting'
  <2>1. SUFFICES ASSUME NEW k \in Keys, last'[k] # 0, \A t \in Tasks : pc'[t] = "clear" => key[t] # k
                 PROVE  /\ last'[k] \in convs
                        /\ SidOf(RecordOf(k)') = last'[k]
                        /\ wrappers[k] # 0 => hist'[wrappers[k]] \/ Taken(k)'
    BY DEF Lasting
  <2>2. last'[k] = last[k] /\ last[k] # 0 /\ \A t \in Tasks : pc[t] = "clear" => key[t] # k
    BY <2>1
  <2>3. /\ last[k] \in convs
        /\ SidOf(RecordOf(k)) = last[k]
        /\ wrappers[k] # 0 => hist[wrappers[k]] \/ Taken(k)
    BY <2>2 DEF Lone, Lasting
  <2>4. ASSUME wrappers[k] # 0 PROVE hist'[wrappers[k]] \/ Taken(k)'
    <3>1. CASE hist[wrappers[k]]
      <4>1. wrappers[k] \in Wrappers
        BY <2>4, RuntimeAssumption DEF Typed, TypeOK, Wrappers
      <4>2. QED
        BY <3>1, <4>1
    <3>2. CASE Taken(k)
      <4>1. PICK u \in Tasks : pc[u] = "sending" /\ u \notin stale /\ key[u] = k
        BY <3>2 DEF Taken
      <4>2. mine[u] = wrappers[k]
        BY <4>1 DEF Lone, Held, Equipped
      <4>3. QED
        BY <4>1, <4>2 DEF Taken
    <3>3. QED
      BY <2>3, <2>4, <3>1, <3>2
  <2>5. QED
    BY <2>2, <2>3, <2>4
<1>7. QED
  BY <1>1, <1>2, <1>3, <1>4, <1>5, <1>6 DEF Lone

\* The same for a step of a handler that is alone at work.
LEMMA LoneTask ==
  ASSUME Typed, Lone, Remember, NEW t \in Tasks, Only(t), Elsewhere(t),
         UNCHANGED <<wrappers, alive, sid, key, convs>>,
         \A w \in Wrappers : hist[w] => hist'[w],
         \A k \in Keys : SidOf(RecordOf(k)') = SidOf(RecordOf(k)),
         pc'[Watchdog] = pc[Watchdog], pc'[t] \notin {"backoff", "restart", "sending"},
         pc'[t] \in Equipped => activity'[key[t]] = "recent" /\ mine'[t] = wrappers[key[t]],
         pc'[t] = "start" => seen'[t] = RecordOf(key[t])',
         pc[t] = "clear" => EndsNew(t) \/ last[key[t]] = 0,
         pc[t] = "sending" /\ t \notin stale => hist'[mine[t]],
         Kind[t] # "new" /\ pc'[t] \in {"stop", "clear"} => last[key[t]] = 0
  PROVE  Lone'
<1>1. \A k \in Keys : last'[k] = IF (EndsNew(t) \/ EndsModel(t)) /\ key[t] = k THEN 0 ELSE last[k]
  BY LastStep DEF Sends
<1>2. key[t] \in Keys /\ t \in Procs
  BY TaskType
<1>3. \A u \in Tasks : u # t => pc'[u] \in Ended /\ pc[u] \in Ended
  BY DEF Only, Elsewhere
<1>4. \A p \in Procs : pc'[p] \notin {"backoff", "restart"}
  BY <1>3 DEF Procs, Lone, Held, AllLive, Ended
<1>5. \A u \in Tasks : pc'[u] \in Equipped =>
        activity'[key[u]] = "recent" /\ mine'[u] = wrappers[key[u]]
  BY <1>3 DEF Ended, Equipped
<1>6. \A u \in Tasks : pc'[u] = "start" => seen'[u] = RecordOf(key[u])'
  BY <1>3 DEF Ended
<1>7. \A u \in Tasks : pc[u] = "clear" => pc'[u] = "clear" \/ last'[key[u]] = 0
  BY <1>1, <1>2, <1>3 DEF Ended
<1>8. \A u \in Tasks : pc[u] = "sending" /\ u \notin stale =>
        (pc'[u] = "sending" /\ u \notin stale') \/ hist'[mine[u]]
  BY <1>3 DEF Ended
<1>9. \A u \in Tasks :
        (Kind[u] # "new" /\ pc'[u] \in {"stop", "clear"}) \/ (pc'[u] = "sending" /\ u \in stale')
          => last'[key[u]] = 0
  BY <1>1, <1>2, <1>3 DEF Ended
<1>10. \A k \in Keys : last'[k] \in {0, last[k]}
  BY <1>1
<1>11. QED
  BY <1>4, <1>5, <1>6, <1>7, <1>8, <1>9, <1>10, LoneFrame

\* A single handler gets its wrapper with the conversation of the record.
LEMMA LoneEnsure ==
  ASSUME Typed, HasWrapper, Lone, Remember, NEW t \in Tasks, Only(t), UNCHANGED turns,
         EnsureReuse(t) \/ EnsureMissing(t) \/ EnsureUpserted(t)
  PROVE  Lone'
<1>k. t \in Procs /\ key[t] \in Keys /\ pc \in [Procs -> Labels] /\ Watchdog # t /\ Watchdog \in Procs
  BY TaskType DEF Typed, TypeOK, Procs
<1>1. Elsewhere(t)
  BY FrameEnsure DEF EnsureStep
<1>2. /\ UNCHANGED <<wrappers, alive, sid, hist, records, key, convs>>
      /\ pc'[Watchdog] = pc[Watchdog]
  BY <1>k DEF EnsureReuse, EnsureMissing, EnsureUpserted, EnsureReturns, AskRecord, Goto, registry,
              objects, turns
<1>3. \A k \in Keys : RecordOf(k)' = RecordOf(k)
  BY <1>2 DEF RecordOf, Lookup
<1>4. pc[t] \in {"ensure", "upserting"} /\ pc'[t] \in {"returned", "start", "done"}
  BY <1>k DEF EnsureReuse, EnsureMissing, EnsureUpserted, EnsureReturns, AskRecord, Goto
<1>5. pc'[t] \in Equipped => activity'[key[t]] = "recent" /\ mine'[t] = wrappers[key[t]]
  <2>1. CASE EnsureReuse(t)
    BY <1>k, <2>1 DEF EnsureReuse, EnsureReturns, Typed, TypeOK
  <2>2. CASE EnsureMissing(t)
    BY <1>k, <2>2 DEF EnsureMissing, AskRecord, Goto, Equipped
  <2>3. CASE EnsureUpserted(t)
    <3>1. mine' = [mine EXCEPT ![t] = mine[t]] /\ activity' = activity /\ pc[t] = "upserting"
      BY <2>3 DEF EnsureUpserted, EnsureReturns
    <3>2. activity[key[t]] = "recent" /\ mine[t] = wrappers[key[t]]
      BY <3>1 DEF Lone, Held, Equipped
    <3>3. QED
      BY <1>k, <3>1, <3>2 DEF Typed, TypeOK
  <2>4. QED
    BY <2>1, <2>2, <2>3
<1>6. pc'[t] = "start" => seen'[t] = RecordOf(key[t])'
  BY <1>2, <1>3, <1>k DEF EnsureReuse, EnsureMissing, EnsureUpserted, EnsureReturns, AskRecord, Goto,
                          Typed, TypeOK
<1>7. QED
  BY <1>1, <1>2, <1>3, <1>4, <1>5, <1>6, LoneTask

\* A single /new leaves neither record nor wrapper.
LEMMA LoneCleared ==
  ASSUME Typed, HasWrapper, Lone, Remember, NEW t \in Tasks, Only(t), UNCHANGED turns, Cleared(t)
  PROVE  Lone'
<1>k. t \in Procs /\ key[t] \in Keys /\ pc \in [Procs -> Labels] /\ Watchdog # t /\ Watchdog \in Procs
  BY TaskType DEF Typed, TypeOK, Procs
<1>1. Elsewhere(t)
  BY FrameEnsure DEF ResetStep
<1>2. /\ UNCHANGED <<wrappers, alive, sid, hist, records, key, convs>>
      /\ pc'[Watchdog] = pc[Watchdog] /\ pc[t] = "clear"
      /\ pc'[t] = IF Kind[t] = "new" THEN "done" ELSE "ensure"
  BY <1>k DEF Cleared, Goto, registry, objects, turns
<1>3. \A k \in Keys : RecordOf(k)' = RecordOf(k)
  BY <1>2 DEF RecordOf, Lookup
<1>4. EndsNew(t) \/ last[key[t]] = 0
  BY <1>2 DEF EndsNew, Lone, Retrying
<1>5. QED
  BY <1>1, <1>2, <1>3, <1>4, LoneTask DEF Equipped

\* A single handler begins with nothing in hand.
LEMMA LoneBegin ==
  ASSUME Typed, Lone, Remember, NEW t \in Tasks, Only(t), BeginTurn(t)
  PROVE  Lone'
<1>k. t \in Procs /\ key[t] \in Keys /\ pc \in [Procs -> Labels] /\ Watchdog # t /\ Watchdog \in Procs
  BY TaskType DEF Typed, TypeOK, Procs
<1>1. Elsewhere(t)
  BY FrameBegin
<1>2. /\ UNCHANGED <<wrappers, alive, sid, hist, records, key, convs>>
      /\ pc'[Watchdog] = pc[Watchdog] /\ pc[t] = "idle"
      /\ pc'[t] = IF Kind[t] = "new" THEN "stop" ELSE "ensure"
  BY <1>k DEF BeginTurn, Begin, Goto, registry, objects, turns
<1>3. \A k \in Keys : RecordOf(k)' = RecordOf(k)
  BY <1>2 DEF RecordOf, Lookup
<1>4. QED
  BY <1>1, <1>2, <1>3, LoneTask DEF Equipped

\* The steps of a turn that change no provider session.
LEMMA LoneOwn ==
  ASSUME Typed, TurnsTyped, HasWrapper, Lone, Meetings, Remember, NEW t \in Tasks, Only(t),
         KeysKept, Elsewhere(t),
         \/ LocalCommand(t) /\ UNCHANGED <<registry, key, seen, mine>> /\ pc[t] \in {"returned", "waiting"}
         \/ /\ pc[t] = "returned" /\ Goto(t, "waiting")
            /\ UNCHANGED <<registry, objects, records, key, seen, mine, turns>>
         \/ Answered(t) \/ Refused(t) \/ Saved(t)
  PROVE  Lone'
<1>k. t \in Procs /\ key[t] \in Keys /\ pc \in [Procs -> Labels] /\ Watchdog # t /\ Watchdog \in Procs
  BY TaskType DEF Typed, TypeOK, Procs
<1>1. /\ UNCHANGED <<wrappers, activity, alive, sid, key, mine, convs>>
      /\ pc[t] \in Equipped /\ pc'[t] \in {"done", "waiting", "saving", "failed", "stop"}
      /\ pc'[Watchdog] = pc[Watchdog]
  BY <1>k DEF LocalCommand, Answered, Refused, Retry, Saved, Goto, registry, objects, turns, Equipped
<1>2. activity[key[t]] = "recent" /\ mine[t] = wrappers[key[t]] /\ mine[t] \in Wrappers /\ mine[t] # 0
  BY <1>1, TaskType DEF Lone, Held, HasWrapper
<1>3. hist' = hist \/ (Answered(t) /\ hist' = [hist EXCEPT ![mine[t]] = TRUE])
  BY DEF LocalCommand, Answered, Refused, Retry, Saved, objects
<1>4. \A w \in Wrappers : hist[w] => hist'[w]
  BY <1>2, <1>3 DEF Typed, TypeOK
<1>5. pc[t] = "sending" /\ t \notin stale => hist'[mine[t]]
  BY <1>2, <1>3 DEF Refused, Saved, Answered, Typed, TypeOK
<1>6. \A k \in Keys : SidOf(RecordOf(k)') = SidOf(RecordOf(k))
  <2>1. CASE records' = records
    BY <2>1 DEF RecordOf, Lookup
  <2>2. CASE Saved(t)
    <3>1. records' = [records EXCEPT ![Scope(key[t][2])] = [agent |-> key[t][1], sid |-> sid[mine[t]]]]
      BY <2>2 DEF Saved
    <3>2. SUFFICES ASSUME NEW k \in Keys PROVE SidOf(RecordOf(k)') = SidOf(RecordOf(k))
      OBVIOUS
    <3>3. RecordOf(k)' = records'[Scope(k[2])] /\ RecordOf(k) = records[Scope(k[2])]
          /\ Scope(k[2]) \in StoreKeys
      BY KeyParts DEF RecordOf, Lookup
    <3>4. CASE k[2] = key[t][2]
      <4>1. SidOf(RecordOf(k)) = sid[mine[t]]
        <5>1. SidOf(RecordOf(key[t])) = sid[mine[t]]
          BY <1>2, <1>k DEF Lone, Recorded
        <5>2. RecordOf(k) = RecordOf(key[t])
          BY <3>4 DEF RecordOf
        <5>3. QED
          BY <5>1, <5>2
      <4>2. records'[Scope(k[2])] = [agent |-> key[t][1], sid |-> sid[mine[t]]]
        BY <3>1, <3>3, <3>4 DEF Typed, TypeOK
      <4>3. [agent |-> key[t][1], sid |-> sid[mine[t]]] \in Record
        BY <1>2, TaskType DEF Record, Typed, TypeOK
      <4>4. QED
        BY <3>3, <4>1, <4>2, <4>3, RuntimeAssumption DEF SidOf
    <3>5. CASE k[2] # key[t][2]
      BY <3>1, <3>3, <3>5 DEF Scope, Typed, TypeOK
    <3>6. QED
      BY <3>4, <3>5
  <2>3. QED
    BY <2>1, <2>2 DEF LocalCommand, Answered, Refused, Retry
<1>7. Kind[t] # "new" /\ pc'[t] \in {"stop", "clear"} => last[key[t]] = 0
  <2>1. pc'[t] = "stop" => Refused(t)
    BY <1>k DEF LocalCommand, Answered, Saved, Goto
  <2>2. QED
    BY <1>1, <2>1 DEF Refused, Lone, Retrying
<1>8. QED
  BY <1>1, <1>2, <1>4, <1>5, <1>6, <1>7, LoneTask DEF Equipped

\* Steps that change the places of one session.
LEMMA LonePlace ==
  ASSUME Typed, Lone, OneAgentEach, UNCHANGED key, convs \subseteq convs',
         NEW k \in Keys, \E u \in Tasks : key[u] = k,
         \A j \in Keys : j # k => wrappers'[j] = wrappers[j] /\ last'[j] = last[j],
         \A j \in Keys : j # k /\ wrappers[j] # 0 =>
           /\ wrappers[j] \in alive'
           /\ sid'[wrappers[j]] = sid[wrappers[j]]
           /\ hist[wrappers[j]] => hist'[wrappers[j]],
         \A j \in Keys : j[2] # k[2] => RecordOf(j)' = RecordOf(j),
         wrappers'[k] # 0 =>
           /\ wrappers'[k] \in alive' /\ sid'[wrappers'[k]] # 0
           /\ SidOf(RecordOf(k)') = sid'[wrappers'[k]],
         last'[k] # 0 /\ (\A u \in Tasks : pc'[u] = "clear" => key[u] # k) =>
           /\ last'[k] \in convs'
           /\ SidOf(RecordOf(k)') = last'[k]
           /\ wrappers'[k] # 0 => hist'[wrappers'[k]] \/ Taken(k)',
         \A p \in Procs : pc'[p] \notin {"backoff", "restart"},
         \A u \in Tasks : pc'[u] \in Equipped =>
           activity'[key[u]] = "recent" /\ mine'[u] = wrappers'[key[u]],
         Looked', Retrying',
         \A u \in Tasks : key[u] # k /\ pc[u] = "clear" => pc'[u] = "clear",
         \A u \in Tasks : key[u] # k /\ pc[u] = "sending" /\ u \notin stale =>
           pc'[u] = "sending" /\ u \notin stale'
  PROVE  Lone'
<1>1. \A j \in Keys : wrappers[j] # 0 /\ j # k => j[2] # k[2]
  BY DEF Lone, Owned, OneAgentEach
<1>2. \A j \in Keys : last[j] # 0 /\ j # k => j[2] # k[2]
  BY DEF Lone, LastOwned, OneAgentEach
<1>3. Held'
  <2>1. \A j \in Keys : wrappers'[j] # 0 => wrappers'[j] \in alive' /\ sid'[wrappers'[j]] # 0
    BY DEF Lone, Held, AllLive
  <2>2. QED
    BY <2>1 DEF Held, AllLive
<1>4. Owned'
  BY DEF Lone, Owned
<1>5. LastOwned'
  BY DEF Lone, LastOwned
<1>6. Recorded'
  <2>1. SUFFICES ASSUME NEW j \in Keys, wrappers'[j] # 0
                 PROVE  SidOf(RecordOf(j)') = sid'[wrappers'[j]]
    BY DEF Recorded
  <2>2. CASE j # k
    <3>1. SidOf(RecordOf(j)) = sid[wrappers[j]] /\ RecordOf(j)' = RecordOf(j)
      BY <1>1, <2>1, <2>2 DEF Lone, Recorded
    <3>2. QED
      BY <2>1, <2>2, <3>1
  <2>3. QED
    BY <2>1, <2>2
<1>7. Lasting'
  <2>1. SUFFICES ASSUME NEW j \in Keys, last'[j] # 0, \A u \in Tasks : pc'[u] = "clear" => key[u] # j
                 PROVE  /\ last'[j] \in convs'
                        /\ SidOf(RecordOf(j)') = last'[j]
                        /\ wrappers'[j] # 0 => hist'[wrappers'[j]] \/ Taken(j)'
    BY DEF Lasting
  <2>2. CASE j # k
    <3>1. last'[j] = last[j] /\ wrappers'[j] = wrappers[j] /\ RecordOf(j)' = RecordOf(j)
          /\ \A u \in Tasks : pc[u] = "clear" => key[u] # j
      BY <1>2, <2>1, <2>2
    <3>2. /\ last[j] \in convs
          /\ SidOf(RecordOf(j)) = last[j]
          /\ wrappers[j] # 0 => hist[wrappers[j]] \/ Taken(j)
      BY <2>1, <3>1 DEF Lone, Lasting
    <3>3. Taken(j) => Taken(j)'
      BY <2>2 DEF Taken
    <3>4. QED
      BY <2>2, <3>1, <3>2, <3>3
  <2>3. QED
    BY <2>1, <2>2
<1>8. QED
  BY <1>3, <1>4, <1>5, <1>6, <1>7 DEF Lone

\* A message goes to the provider session of the one before.
LEMMA LoneSend ==
  ASSUME Typed, TurnsTyped, HasWrapper, OneAgentEach, Lone, Remember, NEW t \in Tasks, Only(t),
         Elsewhere(t), pc[t] \in {"returned", "waiting"}, SendMessage(t),
         UNCHANGED <<registry, key, seen, mine>>
  PROVE  Lone' /\ (Sends(t) /\ last[key[t]] # 0 => sent'[t] = last[key[t]])
<1> DEFINE w == mine[t]
           k == key[t]
<1>k. /\ t \in Procs /\ k \in Keys /\ pc \in [Procs -> Labels] /\ Watchdog # t /\ Watchdog \in Procs
      /\ w \in Wrappers /\ w # 0
  BY TaskType DEF Typed, TypeOK, Procs, HasWrapper, Equipped
<1>1. w = wrappers[k] /\ w \in alive /\ sid[w] # 0 /\ activity[k] = "recent"
  BY <1>k DEF Lone, Held, AllLive, Equipped
<1>2. sid' = sid /\ alive' = alive /\ hist' = hist /\ records' = records /\ sent'[t] = sid[w]
  BY <1>k, <1>1 DEF SendMessage, TurnsTyped, Typed, TypeOK
<1>3. /\ pc'[t] = "sending" /\ pc'[Watchdog] = pc[Watchdog]
      /\ UNCHANGED <<wrappers, activity, key, seen, mine>>
  BY <1>k DEF SendMessage, Goto, registry
<1>4. convs \subseteq convs' /\ (t \notin stale' => sid[w] \in convs')
      /\ \A u \in Tasks : u # t /\ u \notin stale => u \notin stale'
  BY <1>2 DEF SendMessage
<1>5. last[k] # 0 => sid[w] = last[k] /\ hist[w] /\ sid[w] \in convs
  <2>1. ~Taken(k) /\ \A u \in Tasks : pc[u] # "clear"
    BY DEF Only, Ended, Taken
  <2>2. last[k] # 0 => last[k] \in convs /\ SidOf(RecordOf(k)) = last[k] /\ hist[w]
    BY <1>k, <1>1, <2>1 DEF Lone, Lasting
  <2>3. SidOf(RecordOf(k)) = sid[w]
    BY <1>k, <1>1 DEF Lone, Recorded
  <2>4. QED
    BY <2>2, <2>3
<1>6. last[k] # 0 => t \notin stale'
  BY <1>2, <1>5 DEF SendMessage, Typed, TypeOK
<1>7. \A j \in Keys : last'[j] = IF Sends(t) /\ k = j THEN sid[w] ELSE last[j]
  BY <1>2, <1>3, LastStep DEF EndsNew, EndsModel
<1>8. Sends(t) <=> t \notin stale'
  BY <1>3 DEF Sends
<1>9. \A j \in Keys : RecordOf(j)' = RecordOf(j)
  BY <1>2 DEF RecordOf, Lookup
<1>10. SidOf(RecordOf(k)') = sid[w]
  BY <1>1, <1>9, <1>k DEF Lone, Recorded
<1>11. last'[k] # 0 => t \notin stale' /\ last'[k] = sid[w]
  BY <1>6, <1>7, <1>8, <1>k
<1>12. t \notin stale' => Taken(k)'
  BY <1>3 DEF Taken
<1>13. \A u \in Tasks : u # t => pc'[u] \in Ended /\ pc[u] \in Ended
  BY DEF Only, Elsewhere
<1>14. Looked' /\ Retrying'
  <2>1. Looked'
    BY <1>3, <1>13 DEF Looked, Ended
  <2>2. Retrying'
    BY <1>3, <1>6, <1>7, <1>8, <1>13, <1>k DEF Retrying, Ended
  <2>3. QED
    BY <2>1, <2>2
<1>15. \A p \in Procs : pc'[p] \notin {"backoff", "restart"}
  BY <1>3, <1>13 DEF Procs, Lone, Held, AllLive, Ended
<1>16. \A u \in Tasks : pc'[u] \in Equipped =>
         activity'[key[u]] = "recent" /\ mine'[u] = wrappers'[key[u]]
  BY <1>1, <1>3, <1>13 DEF Ended, Equipped
<1>17. \A j \in Keys : j # k /\ wrappers[j] # 0 =>
         /\ wrappers[j] \in alive'
         /\ sid'[wrappers[j]] = sid[wrappers[j]]
         /\ hist[wrappers[j]] => hist'[wrappers[j]]
  BY <1>2 DEF Lone, Held, AllLive
<1>18. Lone'
  <2>1. \A j \in Keys : j # k => wrappers'[j] = wrappers[j] /\ last'[j] = last[j]
    BY <1>3, <1>7
  <2>2. wrappers'[k] # 0 => /\ wrappers'[k] \in alive' /\ sid'[wrappers'[k]] # 0
                            /\ SidOf(RecordOf(k)') = sid'[wrappers'[k]]
    BY <1>1, <1>2, <1>3, <1>10
  <2>3. last'[k] # 0 => /\ last'[k] \in convs' /\ SidOf(RecordOf(k)') = last'[k] /\ Taken(k)'
    BY <1>4, <1>10, <1>11, <1>12
  <2>4. \A u \in Tasks : /\ key[u] # k /\ pc[u] = "clear" => pc'[u] = "clear"
                         /\ key[u] # k /\ pc[u] = "sending" /\ u \notin stale =>
                              pc'[u] = "sending" /\ u \notin stale'
    BY <1>13 DEF Ended
  <2>5. key' = key
    BY <1>3
  <2>6. QED
    BY <1>4, <1>9, <1>14, <1>15, <1>16, <1>17, <1>k, <2>1, <2>2, <2>3, <2>4, <2>5, LonePlace
<1>19. QED
  BY <1>2, <1>5, <1>18

\* /model gives the wrapper and the record one new provider session.
LEMMA LoneModel ==
  ASSUME Typed, HasWrapper, Isolated, OneAgentEach, Lone, Remember, NEW t \in Tasks, Only(t),
         Elsewhere(t), pc[t] \in {"returned", "waiting"}, SwitchModel(t),
         UNCHANGED <<registry, key, seen, mine>>
  PROVE  Lone'
<1> DEFINE w == mine[t]
           k == key[t]
           r == [agent |-> k[1], sid |-> minted + 1]
<1>k. /\ t \in Procs /\ k \in Keys /\ pc \in [Procs -> Labels] /\ Watchdog # t /\ Watchdog \in Procs
      /\ w \in Wrappers /\ w # 0 /\ minted \in Nat /\ k[1] \in Agents /\ Scope(k[2]) \in StoreKeys
  BY TaskType DEF Typed, TypeOK, Procs, HasWrapper, Equipped
<1>1. w = wrappers[k] /\ w \in alive
  BY <1>k DEF Lone, Held, AllLive, Equipped
<1>2. /\ sid' = [sid EXCEPT ![w] = minted + 1] /\ hist' = [hist EXCEPT ![w] = FALSE]
      /\ records' = [records EXCEPT ![Scope(k[2])] = r]
      /\ UNCHANGED <<wrappers, activity, alive, key, seen, mine, convs, stale>>
  BY DEF SwitchModel, registry, turns
<1>3. pc'[t] = "done" /\ pc'[Watchdog] = pc[Watchdog]
  BY <1>k DEF SwitchModel, Goto
<1>4. sid'[w] = minted + 1 /\ \A v \in Wrappers : v # w => sid'[v] = sid[v] /\ hist'[v] = hist[v]
  BY <1>2, <1>k DEF Typed, TypeOK
<1>5. SidOf(RecordOf(k)') = minted + 1
  <2>1. RecordOf(k)' = r
    BY <1>2, <1>k DEF RecordOf, Lookup, Typed, TypeOK
  <2>2. r \in Record
    BY <1>k DEF Record
  <2>3. QED
    BY <2>1, <2>2, RuntimeAssumption DEF SidOf
<1>6. \A j \in Keys : j[2] # k[2] => RecordOf(j)' = RecordOf(j)
  <2>1. \A j \in Keys : j[2] # k[2] => Scope(j[2]) # Scope(k[2])
    BY DEF Scope
  <2>2. QED
    BY <1>2, <2>1 DEF RecordOf, Lookup, Typed, TypeOK
<1>7. \A j \in Keys : last'[j] = IF k = j THEN 0 ELSE last[j]
  <2>1. EndsModel(t) /\ ~Sends(t)
    BY <1>3 DEF SwitchModel, EndsModel, Sends
  <2>2. ~EndsNew(t)
    BY DEF EndsNew
  <2>3. QED
    BY <2>1, <2>2, LastStep
<1>8. \A u \in Tasks : u # t => pc'[u] \in Ended /\ pc[u] \in Ended
  BY DEF Only, Elsewhere
<1>9. \A p \in Procs : pc'[p] \notin {"backoff", "restart"}
  BY <1>3, <1>8 DEF Procs, Lone, Held, AllLive, Ended
<1>10. \A u \in Tasks : pc'[u] \notin Equipped /\ pc'[u] \notin {"start", "stop", "clear", "sending"}
  BY <1>3, <1>8 DEF Ended, Equipped
<1>11. Looked' /\ Retrying'
  BY <1>10 DEF Looked, Retrying
<1>12. \A j \in Keys : j # k /\ wrappers[j] # 0 =>
         /\ wrappers[j] \in alive'
         /\ sid'[wrappers[j]] = sid[wrappers[j]]
         /\ hist[wrappers[j]] => hist'[wrappers[j]]
  <2>1. SUFFICES ASSUME NEW j \in Keys, j # k, wrappers[j] # 0
                 PROVE  wrappers[j] \in alive /\ wrappers[j] \in Wrappers /\ wrappers[j] # w
    BY <1>2, <1>4
  <2>2. wrappers[j] # w
    BY <1>1, <1>k, <2>1 DEF Isolated
  <2>3. QED
    BY <2>1, <2>2, RuntimeAssumption DEF Lone, Held, AllLive, Typed, TypeOK, Wrappers
<1>13. \A u \in Tasks : pc[u] \in {"clear", "sending"} => u = t
  BY <1>8 DEF Ended
<1>14. wrappers'[k] # 0 => /\ wrappers'[k] \in alive' /\ sid'[wrappers'[k]] # 0
                           /\ SidOf(RecordOf(k)') = sid'[wrappers'[k]]
  BY <1>1, <1>2, <1>4, <1>5, <1>k
<1>15. (\A j \in Keys : j # k => wrappers'[j] = wrappers[j] /\ last'[j] = last[j]) /\ last'[k] = 0
  BY <1>2, <1>7, <1>k
<1>16. key' = key /\ convs \subseteq convs'
  BY <1>2
<1>17. QED
  BY <1>6, <1>9, <1>10, <1>11, <1>12, <1>13, <1>14, <1>15, <1>16, <1>k, LonePlace

\* The new wrapper has the provider session of the record.
LEMMA LoneStart ==
  ASSUME Typed, HasWrapper, OneAgentEach, Lone, Remember, NEW t \in Tasks, Only(t),
         EnsureStart(t), UNCHANGED turns
  PROVE  Lone'
<1> DEFINE b == built + 1
           k == key[t]
           r == [agent |-> k[1], sid |-> sid'[b]]
<1>k. /\ t \in Procs /\ k \in Keys /\ pc \in [Procs -> Labels] /\ Watchdog # t /\ Watchdog \in Procs
      /\ k[1] \in Agents /\ Scope(k[2]) \in StoreKeys /\ minted \in Nat /\ built \in Nat
  BY TaskType DEF Typed, TypeOK, Procs
<1>e. Elsewhere(t)
  BY FrameEnsure DEF EnsureStep
<1>1. /\ pc[t] = "start" /\ BuildStarted(seen[t]) /\ built' = b
      /\ wrappers' = [wrappers EXCEPT ![k] = b]
      /\ activity' = [activity EXCEPT ![k] = "recent"]
      /\ records' = [records EXCEPT ![Scope(k[2])] = r]
      /\ mine' = [mine EXCEPT ![t] = b]
      /\ pc' = [pc EXCEPT ![t] = "upserting"]
      /\ alive' = alive \cup {b}
      /\ hist' = [hist EXCEPT ![b] = (seen[t] # NoRecord)]
      /\ UNCHANGED <<key, convs>>
  BY DEF EnsureStart, BuildStarted, Builds, Goto, turns
<1>2. seen[t] = RecordOf(k) /\ seen[t] \in Record \cup {NoRecord} /\ SidOf(seen[t]) <= minted
      /\ SidOf(seen[t]) \in Nat
  BY <1>1, <1>k, LookupOwn, SidType DEF Lone, Looked
<1>3. /\ b \in Wrappers
      /\ sid'[b] = (IF SidOf(seen[t]) = 0 THEN minted + 1 ELSE SidOf(seen[t]))
      /\ \A w \in Wrappers : w # b => sid'[w] = sid[w] /\ hist'[w] = hist[w]
      /\ (seen[t] # NoRecord => hist'[b])
  <2>1. /\ b \in Wrappers
        /\ sid'[b] = (IF SidOf(seen[t]) = 0 THEN minted + 1 ELSE SidOf(seen[t]))
        /\ \A w \in Wrappers : w # b => sid'[w] = sid[w]
    BY <1>1, <1>2, BuildType
  <2>2. (seen[t] # NoRecord => hist'[b]) /\ \A w \in Wrappers : w # b => hist'[w] = hist[w]
    BY <1>1, <2>1 DEF Typed, TypeOK
  <2>3. QED
    BY <2>1, <2>2
<1>4. sid'[b] # 0 /\ sid'[b] \in Nat /\ b # 0
  BY <1>2, <1>3, <1>k
<1>5. SidOf(RecordOf(k)') = sid'[b]
  <2>1. RecordOf(k)' = r
    BY <1>1, <1>k DEF RecordOf, Lookup, Typed, TypeOK
  <2>2. r \in Record
    BY <1>4, <1>k DEF Record
  <2>3. QED
    BY <2>1, <2>2, RuntimeAssumption DEF SidOf
<1>6. \A j \in Keys : j[2] # k[2] => RecordOf(j)' = RecordOf(j)
  <2>1. \A j \in Keys : j[2] # k[2] => Scope(j[2]) # Scope(k[2])
    BY DEF Scope
  <2>2. QED
    BY <1>1, <2>1 DEF RecordOf, Lookup, Typed, TypeOK
<1>7. pc'[t] = "upserting" /\ pc'[Watchdog] = pc[Watchdog]
  BY <1>1, <1>k
<1>8. \A j \in Keys : last'[j] = last[j]
  <2>1. ~EndsNew(t) /\ ~EndsModel(t) /\ ~Sends(t)
    BY <1>7 DEF EndsNew, EndsModel, Sends
  <2>2. QED
    BY <1>e, <2>1, LastStep
<1>9. \A u \in Tasks : u # t => pc'[u] \in Ended /\ pc[u] \in Ended
  BY <1>e DEF Only, Elsewhere
<1>10. \A p \in Procs : pc'[p] \notin {"backoff", "restart"}
  BY <1>7, <1>9 DEF Procs, Lone, Held, AllLive, Ended
<1>11. Looked' /\ Retrying'
  BY <1>7, <1>9 DEF Looked, Retrying, Ended
<1>12. \A j \in Keys : j # k /\ wrappers[j] # 0 =>
         /\ wrappers[j] \in alive'
         /\ sid'[wrappers[j]] = sid[wrappers[j]]
         /\ hist[wrappers[j]] => hist'[wrappers[j]]
  <2>1. SUFFICES ASSUME NEW j \in Keys, wrappers[j] # 0
                 PROVE  wrappers[j] \in alive /\ wrappers[j] \in Wrappers /\ wrappers[j] # b
    BY <1>1, <1>3
  <2>2. wrappers[j] \in 0..built /\ wrappers[j] # 0
    BY <2>1 DEF Typed, TypeOK
  <2>3. QED
    BY <1>k, <2>1, <2>2, RuntimeAssumption, SMTT(30) DEF Lone, Held, AllLive, Typed, TypeOK, Wrappers
<1>13. last'[k] # 0 => last'[k] \in convs' /\ SidOf(RecordOf(k)') = last'[k] /\ hist'[b]
  <2>1. SUFFICES ASSUME last[k] # 0
                 PROVE  last[k] \in convs /\ sid'[b] = last[k] /\ hist'[b]
    BY <1>1, <1>5, <1>8, <1>k
  <2>2. \A u \in Tasks : pc[u] # "clear"
    BY <1>1, <1>9 DEF Ended
  <2>3. last[k] \in convs /\ SidOf(RecordOf(k)) = last[k]
    BY <1>k, <2>1, <2>2 DEF Lone, Lasting
  <2>4. seen[t] # NoRecord
    BY <1>2, <2>1, <2>3 DEF SidOf
  <2>5. QED
    BY <1>2, <1>3, <2>1, <2>3, <2>4
<1>14. wrappers'[k] = b /\ b \in alive' /\ \A j \in Keys : j # k => wrappers'[j] = wrappers[j]
  BY <1>1, <1>k DEF Typed, TypeOK
<1>15. \A u \in Tasks : pc'[u] \in Equipped =>
         activity'[key[u]] = "recent" /\ mine'[u] = wrappers'[key[u]]
  BY <1>1, <1>9, <1>14, <1>k DEF Ended, Equipped, Typed, TypeOK
<1>16. \A u \in Tasks : pc[u] \notin {"clear", "sending"}
  BY <1>1, <1>9 DEF Ended
<1>17. key' = key /\ convs \subseteq convs'
  BY <1>1
<1>18. QED
  BY <1>4, <1>5, <1>6, <1>8, <1>10, <1>11, <1>12, <1>13, <1>14, <1>15, <1>16, <1>17, <1>k, LonePlace

\* A session is dropped: its record goes only with a reset.
LEMMA LoneDrop ==
  ASSUME Typed, OneAgentEach, Isolated, Lone, NEW k \in Keys, \E u \in Tasks : key[u] = k,
         Dropped({k}), StopAll({wrappers[k]}), UNCHANGED <<key, seen, mine>>, UNCHANGED turns,
         \A j \in Keys : last'[j] = last[j],
         \A u \in Tasks : key[u] = k => pc[u] \notin Equipped,
         \A u \in Tasks : pc'[u] = pc[u] \/ (key[u] = k /\ pc[u] = "stop" /\ pc'[u] = "clear"),
         \A p \in Procs : pc'[p] \notin {"backoff", "restart"},
         \/ \A j \in Keys : RecordOf(j)' = RecordOf(j)
         \/ /\ \E u \in Tasks : pc'[u] = "clear" /\ key[u] = k
            /\ \A j \in Keys : j[2] # k[2] => RecordOf(j)' = RecordOf(j)
            /\ \A u \in Tasks : pc[u] # "start"
  PROVE  Lone'
<1>1. /\ wrappers' = [j \in Keys |-> IF j \in {k} THEN 0 ELSE wrappers[j]]
      /\ activity' = [j \in Keys |-> IF j \in {k} THEN "none" ELSE activity[j]]
      /\ alive' = alive \ {wrappers[k]}
      /\ sid' = [w \in Wrappers |-> IF w \in {wrappers[k]} THEN 0 ELSE sid[w]]
      /\ hist' = [w \in Wrappers |-> w \notin {wrappers[k]} /\ hist[w]]
      /\ UNCHANGED <<convs, stale>>
  BY DEF Dropped, StopAll, turns
<1>2. wrappers'[k] = 0 /\ \A j \in Keys : j # k => wrappers'[j] = wrappers[j]
  BY <1>1
<1>3. \A j \in Keys : j # k /\ wrappers[j] # 0 =>
        /\ wrappers[j] \in alive'
        /\ sid'[wrappers[j]] = sid[wrappers[j]]
        /\ hist[wrappers[j]] => hist'[wrappers[j]]
  <2>1. SUFFICES ASSUME NEW j \in Keys, j # k, wrappers[j] # 0
                 PROVE  /\ wrappers[j] \in alive'
                        /\ sid'[wrappers[j]] = sid[wrappers[j]]
                        /\ hist[wrappers[j]] => hist'[wrappers[j]]
    OBVIOUS
  <2>2. wrappers[j] \in alive /\ wrappers[j] # wrappers[k] /\ wrappers[j] \in Wrappers
    BY <2>1, RuntimeAssumption DEF Lone, Held, AllLive, Isolated, Typed, TypeOK, Wrappers
  <2>3. QED
    BY <1>1, <2>2
<1>4. \A j \in Keys : j[2] # k[2] => RecordOf(j)' = RecordOf(j)
  OBVIOUS
<1>5. last'[k] # 0 /\ (\A u \in Tasks : pc'[u] = "clear" => key[u] # k) =>
        last'[k] \in convs' /\ SidOf(RecordOf(k)') = last'[k]
  BY <1>1 DEF Lone, Lasting
<1>6. \A u \in Tasks : pc'[u] \in Equipped =>
        activity'[key[u]] = "recent" /\ mine'[u] = wrappers'[key[u]]
  <2>1. SUFFICES ASSUME NEW u \in Tasks, pc'[u] \in Equipped
                 PROVE  activity'[key[u]] = "recent" /\ mine[u] = wrappers'[key[u]]
    OBVIOUS
  <2>2. pc[u] \in Equipped /\ key[u] # k /\ key[u] \in Keys
    BY <2>1, TaskType DEF Equipped
  <2>3. QED
    BY <1>1, <2>2 DEF Lone, Held
<1>7. Looked'
  <2>1. \A u \in Tasks : pc'[u] = "start" => RecordOf(key[u])' = RecordOf(key[u]) /\ pc[u] = "start"
    <3>1. SUFFICES ASSUME NEW u \in Tasks, pc'[u] = "start"
                   PROVE  RecordOf(key[u])' = RecordOf(key[u]) /\ pc[u] = "start"
      OBVIOUS
    <3>2. PICK j \in Keys : j = key[u]
      BY TaskType
    <3>3. pc[u] = "start" /\ key' = key
      BY <3>1
    <3>4. RecordOf(j)' = RecordOf(j)
      BY <3>3
    <3>5. QED
      BY <3>2, <3>3, <3>4
  <2>2. QED
    BY <2>1 DEF Lone, Looked
<1>8. Retrying'
  <2>1. SUFFICES ASSUME NEW u \in Tasks,
                        \/ Kind[u] # "new" /\ pc'[u] \in {"stop", "clear"}
                        \/ pc'[u] = "sending" /\ u \in stale
                 PROVE  last[key[u]] = 0
    BY <1>1, TaskType DEF Retrying
  <2>2. QED
    BY <2>1 DEF Lone, Retrying
<1>9. \A u \in Tasks : /\ key[u] # k /\ pc[u] = "clear" => pc'[u] = "clear"
                       /\ key[u] # k /\ pc[u] = "sending" /\ u \notin stale =>
                            pc'[u] = "sending" /\ u \notin stale'
  BY <1>1
<1>10. convs \subseteq convs' /\ key' = key
  BY <1>1
<1>11. QED
  BY <1>2, <1>3, <1>4, <1>5, <1>6, <1>7, <1>8, <1>9, <1>10, LonePlace

\* A single /new that stops the wrapper.
LEMMA LoneReset ==
  ASSUME Typed, OneAgentEach, Isolated, Lone, Remember, NEW t \in Tasks, Only(t),
         ResetSession(t), UNCHANGED turns
  PROVE  Lone'
<1>k. /\ t \in Procs /\ key[t] \in Keys /\ pc \in [Procs -> Labels] /\ Watchdog # t /\ Watchdog \in Procs
  BY TaskType DEF Typed, TypeOK, Procs
<1>e. Elsewhere(t)
  BY FrameEnsure DEF ResetStep
<1>1. /\ pc[t] = "stop" /\ Dropped({key[t]}) /\ StopAll({wrappers[key[t]]})
      /\ pc' = [pc EXCEPT ![t] = "clear"]
      /\ records' = [records EXCEPT ![Scope(key[t][2])] = NoRecord]
      /\ UNCHANGED <<key, seen, mine>>
  BY DEF ResetSession, Goto
<1>2. \A u \in Tasks : pc[u] \in Ended \cup {"stop"}
  BY <1>1 DEF Only
<1>3. \A u \in Tasks : pc'[u] = pc[u] \/ (key[u] = key[t] /\ pc[u] = "stop" /\ pc'[u] = "clear")
  BY <1>1, <1>k
<1>4. \A j \in Keys : last'[j] = last[j]
  <2>1. pc'[t] = "clear"
    BY <1>1, <1>k
  <2>2. QED
    BY <1>e, <2>1, LastStep DEF EndsNew, EndsModel, Sends
<1>5. \A j \in Keys : j[2] # key[t][2] => RecordOf(j)' = RecordOf(j)
  <2>1. \A j \in Keys : j[2] # key[t][2] => Scope(j[2]) # Scope(key[t][2])
    BY DEF Scope
  <2>2. QED
    BY <1>1, <2>1 DEF RecordOf, Lookup, Typed, TypeOK
<1>6. \A p \in Procs : pc'[p] \notin {"backoff", "restart"}
  BY <1>1, <1>k DEF Lone, Held, AllLive
<1>7. pc'[t] = "clear"
  BY <1>1, <1>k
<1>8. \A u \in Tasks : pc[u] # "start" /\ pc[u] \notin Equipped
  BY <1>2 DEF Ended, Equipped
<1>9. QED
  BY <1>1, <1>3, <1>4, <1>5, <1>6, <1>7, <1>8, <1>k, LoneDrop

\* The background leaves a single handler's record and wrapper in agreement.
LEMMA LoneBackground ==
  ASSUME Typed, OneAgentEach, Isolated, Lone, Remember, QuietBackground, TasksStay
  PROVE  Lone'
<1>k. /\ Watchdog \in Procs /\ pc \in [Procs -> Labels]
      /\ \A u \in Tasks : u \in Procs /\ u # Watchdog
      /\ \A j \in Keys : wrappers[j] # 0 => wrappers[j] \in alive
      /\ \A p \in Procs : pc[p] \notin {"backoff", "restart"}
  BY RuntimeAssumption DEF Procs, Typed, TypeOK, Lone, Held, AllLive
<1>l. \A j \in Keys : last'[j] = last[j]
  BY LastStays
<1>0. ASSUME UNCHANGED <<wrappers, objects, records, key, turns>>,
             \A p \in Procs : pc'[p] \notin {"backoff", "restart"},
             \A u \in Tasks : pc[u] \in Equipped => activity'[key[u]] = activity[key[u]]
      PROVE  Lone'
  <2>1. \A j \in Keys : RecordOf(j)' = RecordOf(j)
    BY <1>0 DEF RecordOf, Lookup
  <2>2. UNCHANGED <<alive, sid, hist, convs, stale>>
    BY <1>0 DEF objects, turns
  <2>3. \A u \in Tasks : pc'[u] \in Equipped =>
          activity'[key[u]] = "recent" /\ mine'[u] = wrappers[key[u]]
    BY <1>0 DEF TasksStay, Lone, Held
  <2>4. \A u \in Tasks : pc'[u] = "start" => seen'[u] = RecordOf(key[u])'
    <3>1. SUFFICES ASSUME NEW u \in Tasks, pc'[u] = "start"
                   PROVE  seen'[u] = RecordOf(key[u])'
      OBVIOUS
    <3>2. PICK j \in Keys : j = key[u]
      BY TaskType
    <3>3. seen'[u] = RecordOf(j)
      BY <3>1, <3>2 DEF TasksStay, Lone, Looked
    <3>4. key'[u] = j
      BY <1>0, <3>2
    <3>5. QED
      BY <2>1, <3>3, <3>4
  <2>5. \A u \in Tasks :
          (Kind[u] # "new" /\ pc'[u] \in {"stop", "clear"}) \/ (pc'[u] = "sending" /\ u \in stale')
            => last'[key[u]] = 0
    BY <1>l, <2>2, TaskType DEF TasksStay, Lone, Retrying
  <2>6. QED
    BY <1>0, <1>l, <2>1, <2>2, <2>3, <2>4, <2>5, LoneFrame DEF TasksStay
<1>1. CASE RestartStep(Watchdog)
  BY <1>k, <1>1 DEF RestartStep, RestartWakes, RestartStarts
<1>2. CASE \E k \in Keys : GoesIdle(k) /\ \A t \in InFlight : key[t] # k
  <2>1. PICK k \in Keys : GoesIdle(k) /\ \A t \in InFlight : key[t] # k
    BY <1>2
  <2>2. \A u \in Tasks : pc[u] \in Equipped => activity'[key[u]] = activity[key[u]]
    <3>1. SUFFICES ASSUME NEW u \in Tasks, pc[u] \in Equipped
                   PROVE  activity'[key[u]] = activity[key[u]]
      OBVIOUS
    <3>2. key[u] # k /\ key[u] \in Keys
      BY <2>1, <3>1, TaskType DEF InFlight, Ended, Equipped
    <3>3. QED
      BY <2>1, <3>2 DEF GoesIdle, Typed, TypeOK
  <2>3. UNCHANGED <<wrappers, objects, records, key, turns, pc>>
    BY <2>1 DEF GoesIdle, handlers, QuietBackground
  <2>4. QED
    BY <1>0, <1>k, <2>2, <2>3
<1>3. CASE /\ UNCHANGED <<registry, objects, records, key, turns>>
           /\ \/ UNCHANGED pc
              \/ \E l \in {"checking", "cleaning", "asleep"} : Goto(Watchdog, l)
  <2>1. \A p \in Procs : pc'[p] \notin {"backoff", "restart"}
    BY <1>3, <1>k DEF Goto
  <2>2. QED
    BY <1>0, <1>3, <2>1 DEF registry
<1>4. CASE \E k \in Keys : CleanIdle(k)
  <2>1. PICK k \in Keys : CleanIdle(k)
    BY <1>4
  <2>2. /\ Dropped({k}) /\ StopAll({wrappers[k]}) /\ activity[k] = "idle" /\ wrappers[k] # 0
        /\ UNCHANGED <<records, pc, key, seen, mine>> /\ UNCHANGED turns
    BY <2>1 DEF CleanIdle, handlers, QuietBackground
  <2>3. \A u \in Tasks : key[u] = k => pc[u] \notin Equipped
    BY <2>2 DEF Lone, Held
  <2>4. \A j \in Keys : RecordOf(j)' = RecordOf(j)
    BY <2>2 DEF RecordOf, Lookup
  <2>5. \E u \in Tasks : key[u] = k
    BY <2>2 DEF Lone, Owned
  <2>6. QED
    BY <1>k, <1>l, <2>2, <2>3, <2>4, <2>5, LoneDrop
<1>5. CASE WatchdogStep
  <2>1. ~ \E k \in Keys : CheckDead(k)
    BY <1>k DEF CheckDead
  <2>2. QED
    BY <1>3, <1>4, <1>5, <2>1
       DEF WatchdogStep, WatchdogLooks, CheckFine, CleanActive, CheckedAll, CleanedAll, handlers,
           QuietBackground
<1>6. QED
  BY <1>1, <1>2, <1>5 DEF QuietBackground

\* A single handler sends in the last conversation, and leaves the record so.
LEMMA LoneTurn ==
  ASSUME ConvTyped, OneAgentEach, Isolated, Meetings, Lone, Remember, NEW t \in Tasks, Only(t),
         TurnStep(t)
  PROVE  /\ Lone' /\ Elsewhere(t)
         /\ Sends(t) /\ last[key[t]] # 0 => sent'[t] = last[key[t]]
<1>0. Typed /\ TurnsTyped /\ HasWrapper
  BY DEF ConvTyped
<1>k. /\ t \in Procs /\ key[t] \in Keys /\ pc \in [Procs -> Labels]
      /\ \A j \in Keys : wrappers[j] # 0 => wrappers[j] \in alive
      /\ \A p \in Procs : pc[p] \notin {"backoff", "restart"}
  BY <1>0, TaskType DEF Typed, TypeOK, Lone, Held, AllLive
<1>1. CASE RegistryTurn(t) /\ (EnsureStep(t) \/ RestartStep(t) \/ ResetStep(t))
  <2>1. Elsewhere(t) /\ pc'[t] # "sending"
    BY <1>0, <1>1, FrameEnsure, RegistryTo DEF RegistryTurn
  <2>2. ~EnsureDead(t) /\ ~RestartStep(t)
    BY <1>k DEF EnsureDead, RestartStep, RestartWakes, RestartStarts
  <2>3. Lone'
    BY <1>0, <1>1, <2>2, LoneEnsure, LoneStart, LoneReset, LoneCleared
       DEF RegistryTurn, EnsureStep, ResetStep
  <2>4. QED
    BY <2>1, <2>3 DEF Sends
<1>2. CASE Proceed(t) \/ Acquire(t)
  <2>1. Elsewhere(t) /\ KeysKept /\ pc[t] \in {"returned", "waiting"}
    BY <1>0, <1>2, OwnFrame DEF OwnTurn, Proceed, Acquire
  <2>2. CASE Enter(t)
    <3>1. UNCHANGED <<registry, key, seen, mine>>
      BY <2>2 DEF Enter
    <3>2. CASE SendMessage(t)
      BY <1>0, <2>1, <3>1, <3>2, LoneSend
    <3>3. CASE SwitchModel(t)
      <4>1. Lone'
        BY <1>0, <2>1, <3>1, <3>3, LoneModel
      <4>2. ~Sends(t)
        BY <1>k, <3>3 DEF SwitchModel, Goto, Sends
      <4>3. QED
        BY <2>1, <4>1, <4>2
    <3>4. CASE LocalCommand(t)
      <4>1. Lone'
        BY <1>0, <2>1, <3>1, <3>4, LoneOwn
      <4>2. ~Sends(t)
        BY <1>k, <3>4 DEF LocalCommand, Goto, Sends
      <4>3. QED
        BY <2>1, <4>1, <4>2
    <3>5. QED
      BY <2>2, <3>2, <3>3, <3>4 DEF Enter
  <2>3. CASE /\ pc[t] = "returned" /\ Goto(t, "waiting")
             /\ UNCHANGED <<registry, objects, records, key, seen, mine, turns>>
    <3>1. Lone'
      BY <1>0, <2>1, <2>3, LoneOwn
    <3>2. ~Sends(t)
      BY <1>k, <2>3 DEF Goto, Sends
    <3>3. QED
      BY <2>1, <3>1, <3>2
  <2>4. QED
    BY <1>2, <2>2, <2>3 DEF Proceed, Acquire
<1>3. CASE Answered(t) \/ Refused(t) \/ Saved(t)
  <2>1. Elsewhere(t) /\ KeysKept
    BY <1>0, <1>3, OwnFrame DEF OwnTurn
  <2>2. Lone'
    BY <1>0, <1>3, <2>1, LoneOwn
  <2>3. ~Sends(t)
    BY <1>k, <1>3 DEF Answered, Refused, Retry, Saved, Goto, Sends
  <2>4. QED
    BY <2>1, <2>2, <2>3
<1>4. QED
  BY <1>1, <1>2, <1>3 DEF TurnStep, RegistryTurn

\* Every step does, with one handler at a time.
LEMMA LoneStep ==
  ASSUME ConvTyped, OneAgentEach, Isolated, Meetings, Lone, scenario.may = {}, Step, Remember
  PROVE  /\ Lone'
         /\ \A t \in Tasks : Sends(t) /\ last[key[t]] # 0 => sent'[t] = last[key[t]]
<1>0. Typed /\ HasWrapper
  BY DEF ConvTyped
<1>1. ASSUME NEW t \in Tasks, t \in InFlight PROVE Only(t)
  BY <1>1 DEF Meetings, May, Only, InFlight
<1>2. ASSUME NEW t \in Tasks, Lone', Elsewhere(t), Sends(t) /\ last[key[t]] # 0 => sent'[t] = last[key[t]]
      PROVE  /\ Lone'
             /\ \A u \in Tasks : Sends(u) /\ last[key[u]] # 0 => sent'[u] = last[key[u]]
  <2>1. \A u \in Tasks : u # t => ~Sends(u)
    BY <1>2 DEF Elsewhere, Sends
  <2>2. QED
    BY <1>2, <2>1
<1>3. ASSUME NEW t \in Tasks, TurnStep(t) PROVE Only(t)
  <2>1. pc[t] \notin Ended
    BY <1>3 DEF TurnStep, EnsureStep, EnsureReuse, EnsureDead, EnsureMissing, EnsureStart, EnsureUpserted,
                RestartStep, RestartWakes, RestartStarts, ResetStep, ResetSession, Cleared, Proceed,
                Acquire, Answered, Refused, Saved, Ended
  <2>2. QED
    BY <1>1, <2>1 DEF InFlight
<1>4. ASSUME NEW t \in Tasks, BeginTurn(t) PROVE Only(t) /\ Elsewhere(t) /\ ~Sends(t)
  <2>1. Only(t)
    BY <1>4 DEF BeginTurn, May, Only, InFlight
  <2>2. QED
    BY <1>0, <1>4, <2>1, FrameBegin, BeginTo DEF Sends
<1>5. CASE QuietBackground
  <2>1. Background
    BY <1>5 DEF QuietBackground, Background
  <2>2. TasksStay
    BY <1>0, <2>1, FrameBackground
  <2>3. QED
    BY <1>0, <1>5, <2>2, LoneBackground DEF TasksStay, Sends
<1>6. (\E t \in Tasks : BeginTurn(t) \/ TurnStep(t)) \/ QuietBackground
  BY QuietCases
<1>7. ASSUME NEW t \in Tasks, BeginTurn(t) \/ TurnStep(t)
      PROVE  /\ Lone'
             /\ \A u \in Tasks : Sends(u) /\ last[key[u]] # 0 => sent'[u] = last[key[u]]
  <2>1. CASE BeginTurn(t)
    BY <1>0, <1>2, <1>4, <2>1, LoneBegin
  <2>2. CASE TurnStep(t)
    BY <1>2, <1>3, <2>2, LoneTurn
  <2>3. QED
    BY <1>7, <2>1, <2>2
<1>8. QED
  BY <1>5, <1>6, <1>7

\* It holds at first.
LEMMA LoneInit ==
  ASSUME ConvInit
  PROVE  Lone
<1>1. /\ wrappers = [k \in Keys |-> 0] /\ last = [k \in Keys |-> 0]
      /\ \A p \in Procs : pc[p] \in {"asleep", "idle"}
      /\ \A t \in Tasks : t \in Procs /\ pc[t] = "idle"
  BY RuntimeAssumption DEF ConvInit, Init, Procs
<1>2. Held /\ Owned /\ LastOwned
  BY <1>1 DEF Held, AllLive, Owned, LastOwned, Equipped
<1>3. Recorded /\ Looked /\ Lasting /\ Retrying
  BY <1>1 DEF Recorded, Looked, Lasting, Retrying
<1>4. QED
  BY <1>2, <1>3 DEF Lone

LoneInv == Meetings /\ (scenario.may = {} /\ OneAgentEach => Lone)

\* The invariant under RecordMatches and OneConversation is inductive.
LEMMA LoneInvStep ==
  ASSUME ConvTyped, Isolated, LoneInv, [ConvNext]_vars
  PROVE  LoneInv'
<1>1. CASE ConvNext
  <2>1. Step /\ Remember /\ UNCHANGED scenario /\ KeysKept
    BY <1>1, TypedConvStep DEF ConvNext
  <2>2. Meetings'
    BY <2>1, MeetingsStep DEF LoneInv
  <2>3. ASSUME scenario'.may = {}, OneAgentEach' PROVE Lone'
    <3>1. scenario.may = {} /\ OneAgentEach
      BY <2>1, <2>3 DEF OneAgentEach, KeysKept, ConvTyped
    <3>2. QED
      BY <2>1, <3>1, LoneStep DEF LoneInv
  <2>4. QED
    BY <2>2, <2>3 DEF LoneInv
<1>2. CASE UNCHANGED vars
  <2>1. /\ UNCHANGED <<scenario, wrappers, activity, alive, sid, hist, records, pc, key, seen, mine,
                       convs, stale, last>>
    BY <1>2 DEF vars, runtimeVars, registry, objects, handlers, turns, history
  <2>2. Meetings'
    BY <2>1 DEF LoneInv, Meetings, May, InFlight
  <2>3. \A k \in Keys : RecordOf(k)' = RecordOf(k)
    BY <2>1 DEF RecordOf, Lookup
  <2>4. Lone => Lone'
    <3>1. Held => Held'
      BY <2>1 DEF Held, AllLive
    <3>2. (Owned => Owned') /\ (LastOwned => LastOwned') /\ (Retrying => Retrying')
      BY <2>1 DEF Owned, LastOwned, Retrying
    <3>3. Recorded => Recorded'
      BY <2>1, <2>3 DEF Recorded
    <3>4. Looked => Looked'
      BY <2>1 DEF Looked, RecordOf, Lookup
    <3>5. Lasting => Lasting'
      BY <2>1, <2>3 DEF Lasting, Taken
    <3>6. QED
      BY <3>1, <3>2, <3>3, <3>4, <3>5 DEF Lone
  <2>5. QED
    BY <2>1, <2>2, <2>4 DEF LoneInv, OneAgentEach
<1>3. QED
  BY <1>1, <1>2

\* Every state satisfies it.
LEMMA AlwaysLone == ConvSpec => [](ConvTyped /\ Isolated /\ LoneInv)
<1>1. ConvTyped /\ Isolated /\ LoneInv /\ [ConvNext]_vars => LoneInv'
  BY LoneInvStep
<1>2. ConvInit => LoneInv
  BY MeetingsInit, LoneInit DEF LoneInv
<1>3. QED
  BY <1>1, <1>2, AlwaysIsolated, PTL DEF ConvSpec

\* docs/architecture.md:250 of sessions.json, "the live provider session linked
\* to the channel": while handlers do not meet, the record of a channel names the
\* provider session of the wrapper that is registered for it, through /model,
\* /new, refused sessions and idle cleanup.
THEOREM RecordsMatch == ConvSpec => [](OneAgentEach => RecordMatches)
<1>1. ConvTyped /\ LoneInv => (OneAgentEach => RecordMatches)
  <2>1. SUFFICES ASSUME ConvTyped, LoneInv, OneAgentEach, scenario.may = {},
                        NEW k \in Keys, wrappers[k] \in alive
                 PROVE  SidOf(RecordOf(k)) = sid[wrappers[k]]
    BY DEF RecordMatches
  <2>2. Lone /\ wrappers[k] # 0
    BY <2>1 DEF LoneInv, ConvTyped, Typed, TypeOK
  <2>3. QED
    BY <2>1, <2>2 DEF Lone, Recorded
<1>2. QED
  BY <1>1, AlwaysLone, PTL

\* docs/plans.md:711: messages of a channel go to one CLI session, and only /new
\* (or /model) resets it: while handlers do not meet, a message goes to the
\* provider session of the message before, whether its wrapper is still there
\* or was dropped as idle and built again from the record.
THEOREM ConversationKept == ConvSpec /\ []OneAgentEach => OneConversation
<1>1. ConvTyped /\ Isolated /\ LoneInv /\ OneAgentEach /\ [ConvNext]_vars =>
        [\A t \in Tasks :
           scenario.may = {} /\ Sends(t) /\ last[key[t]] # 0 => sent'[t] = last[key[t]]]_vars
  <2>1. SUFFICES ASSUME ConvTyped, Isolated, LoneInv, OneAgentEach, ConvNext,
                        NEW t \in Tasks, scenario.may = {}, Sends(t), last[key[t]] # 0
                 PROVE  sent'[t] = last[key[t]]
    OBVIOUS
  <2>2. QED
    BY <2>1, LoneStep DEF LoneInv, ConvNext
<1>2. QED
  BY <1>1, AlwaysLone, PTL DEF ConvSpec, OneConversation
=============================================================================
