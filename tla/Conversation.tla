---------------------------- MODULE Conversation ----------------------------
(***************************************************************************)
(* services/conversation.py, command.py and streaming.py over the registry *)
(* of ProviderRuntime: a message ensures its wrapper, takes the session's  *)
(* lock, sends, retries once on a fresh session when the send timed out or *)
(* its session was stale, and after leaving the lock saves the turn and    *)
(* upserts the session record.  /model switches the wrapper to a new       *)
(* provider session inside the lock; /new takes no lock.                   *)
(*                                                                         *)
(* The wrappers are Claude's.  The provider keeps the conversations it has *)
(* begun and refuses (ProviderStaleSession) to resume one it does not have *)
(* or to begin one it has.                                                 *)
(***************************************************************************)
EXTENDS ProviderRuntime

CONSTANT Scenarios  \* the cases: handlers, and what may happen while they are at work

\* "overlap": messages and commands meet; "new": a /new meets them; "idle": a
\* channel at work counts as idle; "fault": calls fail and time out; "crash":
\* wrappers die; "shutdown": the program is stopped.
ASSUME ScenarioAssumption ==
  \A s \in Scenarios :
    /\ s.who \subseteq Tasks
    /\ s.may \subseteq {"overlap", "new", "idle", "fault", "crash", "shutdown"}

VARIABLES
  scenario,
  holding,   \* handlers that have taken their lock
  sent,      \* provider session a handler's message goes to
  stale,     \* handlers whose provider session is refused
  retried,   \* handlers in their second attempt
  convs,     \* conversations the provider has
  \* what the properties remember
  said,      \* provider sessions that took a message of key k
  old,       \* those that had when the /new of k completed last was called
  barred,    \* said[k] when a /new was called, old[k] when another handler was
  last       \* provider session of k's last message since a /new or /model, or 0

turns == <<holding, sent, stale, retried, convs>>
history == <<said, old, barred, last>>
vars == <<scenario, runtimeVars, turns, history>>

May(event) == event \in scenario.may

ConvInit ==
  /\ Init
  /\ scenario \in Scenarios
  /\ holding = {} /\ stale = {} /\ retried = {} /\ convs = {}
  /\ sent = [t \in Tasks |-> 0]
  /\ said = [k \in Keys |-> {}]
  /\ old = [k \in Keys |-> {}]
  /\ barred = [t \in Tasks |-> {}]
  /\ last = [k \in Keys |-> 0]

-----------------------------------------------------------------------------
\* The session lock: an asyncio.Lock, named after the handler that created it.
\* A handler that fails leaves it on its way out.

Ended == {"idle", "done", "failed"}
InFlight == {t \in Tasks : pc[t] \notin Ended}

\* A mutant: the lock is not left on the way out.
FreeOnceLeft(lock) == \A t \in holding : myLock[t] # lock

Free(lock) == \A t \in holding : myLock[t] = lock => pc[t] \in Ended
Waiting(lock) == {t \in Tasks : pc[t] = "waiting" /\ myLock[t] = lock}

-----------------------------------------------------------------------------
\* What runs once the lock is taken, up to the next await.

\* send_user_message: start() revives a stopped wrapper, and the command line
\* resumes the wrapper's provider session or begins it.
SendMessage(t) ==
  LET w == mine[t] IN
  /\ Kind[t] = "message"
  /\ alive' = alive \cup {w}
  /\ minted' = IF sid[w] = 0 THEN minted + 1 ELSE minted
  /\ sid' = [sid EXCEPT ![w] = IF @ = 0 THEN minted' ELSE @]
  /\ sent' = [sent EXCEPT ![t] = sid'[w]]
  /\ stale' = IF hist[w] = (sent'[t] \in convs) THEN stale \ {t} ELSE stale \cup {t}
  /\ convs' = IF t \in stale' THEN convs ELSE convs \cup {sent'[t]}
  /\ holding' = holding \cup {t}
  /\ Goto(t, "sending")
  /\ UNCHANGED <<built, hist, records, retried>>

\* A mutant: the record of the session is left as it was.
SwitchModelOnly(t) ==
  LET w == mine[t] IN
  /\ Kind[t] = "model"
  /\ minted' = minted + 1
  /\ sid' = [sid EXCEPT ![w] = minted']
  /\ hist' = [hist EXCEPT ![w] = FALSE]
  /\ Goto(t, "done")
  /\ UNCHANGED <<built, alive, records, turns>>

\* /model: the wrapper gets a new provider session, and with the lock behind
\* it the handler calls upsert.
SwitchModel(t) ==
  LET w == mine[t]  k == key[t] IN
  /\ Kind[t] = "model"
  /\ minted' = minted + 1
  /\ sid' = [sid EXCEPT ![w] = minted']
  /\ hist' = [hist EXCEPT ![w] = FALSE]
  /\ records' = [records EXCEPT ![Scope(k[2])] = [agent |-> k[1], sid |-> minted']]
  /\ Goto(t, "done")
  /\ UNCHANGED <<built, alive, turns>>

\* /help, /stats: answered without the provider.
LocalCommand(t) ==
  /\ Kind[t] = "command"
  /\ Goto(t, "done")
  /\ UNCHANGED <<objects, records, turns>>

Enter(t) ==
  /\ SendMessage(t) \/ SwitchModel(t) \/ LocalCommand(t)
  /\ UNCHANGED <<registry, key, seen, mine, myLock, todo, crashes>>

\* A handler that has its wrapper goes on without giving up control: into the
\* lock when it is free and nobody waits, or when this is a retry inside it.
Proceed(t) ==
  /\ pc[t] = "returned"
  /\ IF t \in holding \/ (Free(myLock[t]) /\ Waiting(myLock[t]) = {})
       THEN Enter(t)
       ELSE /\ Goto(t, "waiting")
            /\ UNCHANGED <<registry, objects, records, key, seen, mine, myLock,
                           todo, crashes, turns>>

\* The lock came free.  asyncio serves the waiters in order; here any of them.
Acquire(t) ==
  /\ pc[t] = "waiting"
  /\ Free(myLock[t])
  /\ Enter(t)

-----------------------------------------------------------------------------
\* collect_with_timeout_recovery.

\* The provider has answered: the wrapper has history, the lock is left.
Answered(t) ==
  /\ pc[t] = "sending" /\ t \notin stale
  /\ hist' = [hist EXCEPT ![mine[t]] = TRUE]
  /\ holding' = holding \ {t}
  /\ Goto(t, "saving")
  /\ UNCHANGED <<registry, built, alive, sid, minted, records, key, seen, mine, myLock,
                 todo, crashes, sent, stale, retried, convs>>

\* A timeout or a stale session: the session is reset and the message sent
\* once more; the second time the handler fails.
Retry(t) ==
  /\ Goto(t, IF t \in retried THEN "failed" ELSE "stop")
  /\ retried' = retried \cup {t}
  /\ UNCHANGED <<registry, objects, records, key, seen, mine, myLock,
                 todo, crashes, holding, sent, stale, convs>>

Refused(t) ==
  /\ pc[t] = "sending" /\ t \in stale
  /\ Retry(t)

TimesOut(t) ==
  /\ pc[t] = "sending" /\ t \notin stale
  /\ Retry(t)

-----------------------------------------------------------------------------
\* After the lock: two memory appends, the snapshot, the final upsert with the
\* provider session the wrapper has by then.

Saved(t) ==
  LET k == key[t] IN
  /\ pc[t] = "saving"
  /\ records' = [records EXCEPT ![Scope(k[2])] = [agent |-> k[1], sid |-> sid[mine[t]]]]
  /\ Goto(t, "done")
  /\ UNCHANGED <<registry, objects, key, seen, mine, myLock, todo, crashes, turns>>

\* The provider's error, or a failing append, ends the handler before that.
TurnFails(t) ==
  /\ pc[t] = "saving" \/ (pc[t] = "sending" /\ t \notin stale)
  /\ Goto(t, "failed")
  /\ UNCHANGED <<registry, objects, records, key, seen, mine, myLock, todo, crashes, turns>>

-----------------------------------------------------------------------------
\* Which events may meet a handler at work.

BeginTurn(t) ==
  /\ t \in scenario.who /\ Begin(t)
  /\ \A u \in InFlight :
       May(IF "new" \in {Kind[t], Kind[u]} THEN "new" ELSE "overlap")
  /\ UNCHANGED turns

TurnStep(t) ==
  \/ /\ EnsureStep(t) \/ RestartStep(t) \/ ResetStep(t)
     /\ UNCHANGED turns
  \/ Proceed(t)
  \/ Acquire(t)
  \/ Answered(t)
  \/ Refused(t)
  \/ Saved(t)

Fault(t) ==
  /\ May("fault")
  /\ \/ FailStep(t) /\ UNCHANGED turns
     \/ TimesOut(t)
     \/ TurnFails(t)

Background ==
  /\ \/ RestartStep(Watchdog)
     \/ WatchdogStep
     \/ RestartFault(Watchdog) /\ May("fault")
     \/ \E w \in Wrappers : WrapperCrashes(w) /\ May("crash")
     \/ Shutdown /\ May("shutdown")
     \/ \E k \in Keys : GoesIdle(k) /\ (May("idle") \/ \A t \in InFlight : key[t] # k)
  /\ UNCHANGED turns

\* A handler at "returned" has not given up control since ensure_wrapper.
Step ==
  LET running == {t \in Tasks : pc[t] = "returned"} IN
  IF running # {}
    THEN \E t \in running : Proceed(t)
    ELSE \/ \E t \in Tasks : BeginTurn(t) \/ TurnStep(t) \/ Fault(t)
         \/ Background

\* The provider takes t's message.
Sends(t) == pc[t] # "sending" /\ pc'[t] = "sending" /\ t \notin stale'
EndsNew(t) == pc[t] = "clear" /\ pc'[t] = "done"
EndsModel(t) == Kind[t] = "model" /\ pc[t] # "done" /\ pc'[t] = "done"

Remember ==
  /\ said' = [k \in Keys |-> said[k] \cup {sent'[t] : t \in {u \in Tasks : Sends(u) /\ key[u] = k}}]
  /\ old' = [k \in Keys |->
       old[k] \cup UNION {barred[t] : t \in {u \in Tasks : EndsNew(u) /\ key[u] = k}}]
  /\ barred' = [t \in Tasks |->
       IF pc[t] = "idle" /\ pc'[t] # "idle"
         THEN IF Kind[t] = "new" THEN said[key[t]] ELSE old[key[t]]
         ELSE barred[t]]
  /\ last' = [k \in Keys |->
       IF \E t \in Tasks : (EndsNew(t) \/ EndsModel(t)) /\ key[t] = k THEN 0
       ELSE IF \E t \in Tasks : Sends(t) /\ key[t] = k
              THEN sent'[CHOOSE t \in Tasks : Sends(t) /\ key[t] = k]
              ELSE last[k]]

ConvNext == Step /\ Remember /\ UNCHANGED scenario

ConvSpec == ConvInit /\ [][ConvNext]_vars

\* The provider answers or times out, awaited calls come back, the lock is
\* handed on: a handler that has begun goes on.
ConvFairSpec ==
  /\ ConvSpec
  /\ \A t \in Tasks : WF_vars((TurnStep(t) \/ Fault(t)) /\ Remember /\ UNCHANGED scenario)
  /\ WF_vars(/\ Background /\ (RestartStep(Watchdog) \/ RestartFault(Watchdog) \/ WatchdogStep)
             /\ Remember /\ UNCHANGED scenario)

-----------------------------------------------------------------------------
TurnsTypeOK ==
  /\ TypeOK
  /\ holding \subseteq Tasks /\ stale \subseteq Tasks /\ retried \subseteq Tasks
  /\ sent \in [Tasks -> 0..minted]
  /\ convs \subseteq 1..minted
  /\ said \in [Keys -> SUBSET (1..minted)]
  /\ old \in [Keys -> SUBSET (1..minted)]
  /\ barred \in [Tasks -> SUBSET (1..minted)]
  /\ last \in [Keys -> 0..minted]

\* tests/test_stability.py:209: "Send two messages concurrently – they should
\* be serialized".  No two messages of a session are at the provider at once.
Serialized ==
  \A t, u \in Tasks :
    pc[t] = "sending" /\ pc[u] = "sending" /\ key[t] = key[u] => t = u

\* docs/plans.md:281 of the message after /new: "이전 세션 컨텍스트 없이 새 CLI
\* 세션으로 시작한다".  A message that comes after /new was answered does not go to
\* a provider session used before /new was called.
FreshAfterNew ==
  \A t \in Tasks : pc[t] = "sending" /\ t \notin stale => sent[t] \notin barred[t]

\* docs/plans.md:711-712: "동일한 channel의 일반 메시지는 같은 CLI 세션으로
\* 전달된다", "/new만이 명시적 세션 리셋 트리거다".  A message goes to the
\* provider session of the one before, unless a /new (or /model, which
\* switches the provider session on purpose) came between.
OneConversation ==
  [][\A t \in Tasks :
       scenario.may = {} /\ Sends(t) /\ last[key[t]] # 0 => sent'[t] = last[key[t]]]_vars

\* docs/architecture.md:250 of sessions.json: "현재 channel에 연결된 live
\* provider session 상태 저장".  When no handler is at work the record of a
\* channel names the provider session of the wrapper registered for it.
RecordMatches ==
  scenario.may = {} /\ InFlight = {} =>
    \A k \in Keys : wrappers[k] \in alive =>
      SidOf(RecordOf(k)) = sid[wrappers[k]]

\* Every message and command comes to an end (each begins at most once): no
\* lock stays taken, no retry goes on for ever, and the restart attempts of
\* all callers together are bounded, however they share the counter.
EveryTurnEnds == <>[](InFlight = {})
=============================================================================
