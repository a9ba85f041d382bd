--------------------------- MODULE ProviderRuntime ---------------------------
(***************************************************************************)
(* runtime/provider_runtime.py: the registry of provider wrappers, one per *)
(* agent and session key, shared by the message and command handlers, the  *)
(* /new handler and the watchdog.  All of them are coroutines of one event *)
(* loop: an action here is what runs between two awaits that may suspend.  *)
(* None of the registry's five dictionaries is locked, so between any two  *)
(* actions of a handler the others may change them.                        *)
(*                                                                         *)
(* A record lookup takes effect when it is called (SessionStore serves its *)
(* callers in order) and its answer is used in a later action; an upsert   *)
(* or delete takes effect when it is called and the caller goes on later.  *)
(*                                                                         *)
(* A wrapper is what the registry takes it for, a CLIWrapper: is_alive()   *)
(* may turn false by itself (WrapperCrashes), as a persistent CLI's does   *)
(* when its process dies.  The one-shot wrappers of claude, gemini and     *)
(* codex never report that; MaxCrashes = 0 is what they do.  build_app     *)
(* passes no on_crash, so that callback is left out.                       *)
(*                                                                         *)
(* Wrappers and provider sessions are numbered in the order they are made; *)
(* 0 is "no wrapper" and the empty provider session id.  A handler runs    *)
(* once.  A lock is named after the handler that created it.               *)
(***************************************************************************)
EXTENDS Naturals, FiniteSets

CONSTANTS
  Agents,        \* agents of agents.yaml
  Channels,      \* Discord channel ids, threads already mapped to their parent
  Tasks,         \* handlers: each runs one message, command or /new
  Kind,          \* what each handler runs
  Watchdog,      \* the watchdog task
  NoLock, NoRecord,
  MaxRestart,    \* max_restart_attempts
  MaxWrappers,   \* bound: wrapper objects in a behaviour
  MaxCrashes     \* bound: crashes of a wrapper's process

Kinds == {"message", "model", "command", "options", "new"}

Procs == Tasks \cup {Watchdog}
Keys == Agents \X Channels
Wrappers == 1..MaxWrappers

\* A mutant: the key names the server, not the channel.
ScopeOfServer(channel) == <<"discord">>

\* session_scope_key: the key of a channel in sessions.json.
Scope(channel) == <<"discord", channel>>
StoreKeys == {Scope(c) : c \in Channels}

\* A record: who wrote it and the provider session it names.
Record == [agent : Agents, sid : Nat]

\* A session key is no channel id: Discord's ids are numbers.
ASSUME RuntimeAssumption ==
  /\ Kind \in [Tasks -> Kinds]
  /\ Watchdog \notin Tasks
  /\ NoLock \notin Tasks
  /\ NoRecord \notin Record
  /\ \A c \in Channels : Scope(c) \notin Channels
  /\ MaxRestart \in Nat
  /\ MaxWrappers \in Nat
  /\ MaxCrashes \in Nat

VARIABLES
  \* the registry
  wrappers,       \* _wrappers
  configs,        \* the keys of _wrapper_configs
  restartCounts,  \* _restart_counts (0: no entry)
  locks,          \* _session_locks
  activity,       \* _last_activity: "none", "recent", or "idle" for longer than idle_timeout
  \* the wrapper objects
  built,          \* wrappers built so far
  alive,          \* those whose is_alive() is true
  sid,            \* provider_session_id
  hist,           \* _has_history
  minted,         \* provider session ids made so far
  \* sessions.json
  records,
  \* the handlers and the watchdog
  pc, key, seen, mine, myLock,
  todo,           \* keys the watchdog still has to look at
  \* the environment
  crashes         \* crashes so far

registry == <<wrappers, configs, restartCounts, locks, activity>>
objects == <<built, alive, sid, hist, minted>>
handlers == <<pc, key, seen, mine, myLock>>
runtimeVars == <<registry, objects, records, handlers, todo, crashes>>

Labels == {"idle", "ensure", "backoff", "restart", "start", "upserting", "returned",
           "stop", "clear", "waiting", "sending", "saving", "done", "failed",
           "asleep", "checking", "cleaning", "off"}

Init ==
  /\ wrappers = [k \in Keys |-> 0]
  /\ configs = {}
  /\ restartCounts = [k \in Keys |-> 0]
  /\ locks = [k \in Keys |-> NoLock]
  /\ activity = [k \in Keys |-> "none"]
  /\ built = 0
  /\ alive = {}
  /\ sid = [w \in Wrappers |-> 0]
  /\ hist = [w \in Wrappers |-> FALSE]
  /\ minted = 0
  /\ records = [s \in StoreKeys |-> NoRecord]
  /\ pc = [p \in Procs |-> IF p = Watchdog THEN "asleep" ELSE "idle"]
  /\ key \in [Procs -> Keys]
  /\ seen = [p \in Procs |-> NoRecord]
  /\ mine = [p \in Procs |-> 0]
  /\ myLock = [p \in Procs |-> NoLock]
  /\ todo = {}
  /\ crashes = 0

-----------------------------------------------------------------------------
\* The wrapper objects: create_provider, start(), stop() of a one-shot wrapper
\* (the mode Claude's and Gemini's run in; Codex's mints its id later).

\* SessionManager.get
Lookup(s) == IF s \in StoreKeys THEN records[s] ELSE NoRecord

RecordOf(k) == Lookup(Scope(k[2]))

\* A record's session id, and history whenever there is a record, even one
\* with an empty id (`provider_session_id is not None`).
SidOf(r) == IF r = NoRecord THEN 0 ELSE r.sid

\* A mutant: the session id a wrapper makes up is not remembered as taken.
BuildsUnminted(w, r, history) ==
  /\ built' = w
  /\ alive' = alive \cup {w}
  /\ sid' = [sid EXCEPT ![w] = IF SidOf(r) = 0 THEN minted + 1 ELSE SidOf(r)]
  /\ hist' = [hist EXCEPT ![w] = history]
  /\ UNCHANGED minted

\* create_provider and start(): wrapper w for the record r, started, which
\* mints a session id when r has none.
Builds(w, r, history) ==
  /\ built' = w
  /\ alive' = alive \cup {w}
  /\ minted' = IF SidOf(r) = 0 THEN minted + 1 ELSE minted
  /\ sid' = [sid EXCEPT ![w] = IF SidOf(r) = 0 THEN minted + 1 ELSE SidOf(r)]
  /\ hist' = [hist EXCEPT ![w] = history]

\* Mutants: the factory keeps one wrapper for everybody; a wrapper never resumes.
BuildShared(r) == Builds(1, r, r # NoRecord)
BuildNeverResumes(r) == built < MaxWrappers /\ Builds(built + 1, r, FALSE)

BuildStarted(r) == built < MaxWrappers /\ Builds(built + 1, r, r # NoRecord)

\* stop(): not alive, and the session id is forgotten.
StopAll(W) ==
  /\ alive' = alive \ W
  /\ sid' = [w \in Wrappers |-> IF w \in W THEN 0 ELSE sid[w]]
  /\ hist' = [w \in Wrappers |-> w \notin W /\ hist[w]]
  /\ UNCHANGED <<built, minted>>

-----------------------------------------------------------------------------
\* ensure_wrapper, and the session_lock() its callers go on to.

Goto(p, label) == pc' = [pc EXCEPT ![p] = label]

\* A mutant: session_lock makes a lock for every caller.
EnsureReturnsOwnLock(t, w) ==
  /\ mine' = [mine EXCEPT ![t] = w]
  /\ locks' = [locks EXCEPT ![key[t]] = t]
  /\ myLock' = [myLock EXCEPT ![t] = t]
  /\ Goto(t, IF Kind[t] = "options" THEN "done" ELSE "returned")
  /\ UNCHANGED <<key, seen>>

\* ensure_wrapper returns wrapper w to handler t, which at once takes hold of
\* the session's lock unless it has one (a retry runs inside the lock) or
\* only asked for the wrapper's options.
EnsureReturns(t, w) ==
  /\ mine' = [mine EXCEPT ![t] = w]
  /\ LET k == key[t] IN
     IF Kind[t] = "options" \/ myLock[t] # NoLock
       THEN UNCHANGED <<locks, myLock>>
       ELSE /\ locks' = [locks EXCEPT ![k] = IF @ = NoLock THEN t ELSE @]
            /\ myLock' = [myLock EXCEPT ![t] = locks'[k]]
  /\ Goto(t, IF Kind[t] = "options" THEN "done" ELSE "returned")
  /\ UNCHANGED <<key, seen>>

\* ensure_wrapper asks for the session record.
AskRecord(t) ==
  /\ seen' = [seen EXCEPT ![t] = RecordOf(key[t])]
  /\ Goto(t, "start")
  /\ UNCHANGED <<key, mine, myLock>>

\* _try_restart returns None: the watchdog looks at the next key, and
\* ensure_wrapper goes on to start a wrapper itself.
RestartGivesNone(p) ==
  IF p = Watchdog
    THEN /\ Goto(p, "checking")
         /\ UNCHANGED <<key, seen, mine, myLock>>
    ELSE AskRecord(p)

\* _try_restart from its first line to its first await, called with
\* configurations C: one more attempt counted, and either the wrapper is given
\* up or the caller sleeps.
TryRestart(p, k, C) ==
  /\ restartCounts' = [restartCounts EXCEPT ![k] = @ + 1]
  /\ IF restartCounts'[k] > MaxRestart
       THEN /\ wrappers' = [wrappers EXCEPT ![k] = 0]
            /\ configs' = C \ {k}
            /\ RestartGivesNone(p)
       ELSE /\ configs' = C
            /\ key' = [key EXCEPT ![p] = k]
            /\ Goto(p, "backoff")
            /\ UNCHANGED <<wrappers, seen, mine, myLock>>
  /\ UNCHANGED <<locks, activity, objects, records, crashes>>

\* ensure_wrapper's three ways in: a live wrapper is reused, a dead one is
\* restarted, and without one the session record is asked for.
EnsureReuse(t) ==
  LET k == key[t] IN
  /\ pc[t] = "ensure"
  /\ wrappers[k] \in alive
  /\ restartCounts' = [restartCounts EXCEPT ![k] = 0]
  /\ activity' = [activity EXCEPT ![k] = "recent"]
  /\ EnsureReturns(t, wrappers[k])
  /\ UNCHANGED <<wrappers, configs, objects, records, todo, crashes>>

EnsureDead(t) ==
  /\ pc[t] = "ensure"
  /\ wrappers[key[t]] # 0 /\ wrappers[key[t]] \notin alive
  /\ TryRestart(t, key[t], configs \cup {key[t]})
  /\ UNCHANGED todo

EnsureMissing(t) ==
  /\ pc[t] = "ensure"
  /\ wrappers[key[t]] = 0
  /\ AskRecord(t)
  /\ UNCHANGED <<registry, objects, records, todo, crashes>>

\* The record is there: build a wrapper, start and register it, and call upsert.
EnsureStart(t) ==
  LET k == key[t] IN
  /\ pc[t] = "start"
  /\ BuildStarted(seen[t])
  /\ wrappers' = [wrappers EXCEPT ![k] = built']
  /\ configs' = configs \cup {k}
  /\ restartCounts' = [restartCounts EXCEPT ![k] = 0]
  /\ activity' = [activity EXCEPT ![k] = "recent"]
  /\ records' = [records EXCEPT ![Scope(k[2])] = [agent |-> k[1], sid |-> sid'[built']]]
  /\ mine' = [mine EXCEPT ![t] = built']
  /\ seen' = [seen EXCEPT ![t] = NoRecord]
  /\ Goto(t, "upserting")
  /\ UNCHANGED <<locks, key, myLock, todo, crashes>>

\* The lookup or start() raised (no executable): the handler fails with it.
EnsureStartFails(t) ==
  /\ pc[t] = "start"
  /\ seen' = [seen EXCEPT ![t] = NoRecord]
  /\ Goto(t, "failed")
  /\ UNCHANGED <<registry, objects, records, key, mine, myLock, todo, crashes>>

\* upsert came back, or raised after the cache was changed.
EnsureUpserted(t) ==
  /\ pc[t] = "upserting"
  /\ EnsureReturns(t, mine[t])
  /\ UNCHANGED <<wrappers, configs, restartCounts, activity, objects, records, todo, crashes>>

EnsureUpsertFails(t) ==
  /\ pc[t] = "upserting"
  /\ Goto(t, "failed")
  /\ UNCHANGED <<registry, objects, records, key, seen, mine, myLock, todo, crashes>>

-----------------------------------------------------------------------------
\* _try_restart after the backoff, for a handler or the watchdog.

\* The configuration may have gone meanwhile; if not, the session is looked
\* up.  The lookup passes the session key as a channel id, so
\* session_scope_key wraps it once more.
RestartWakes(p) ==
  LET k == key[p] IN
  /\ pc[p] = "backoff"
  /\ IF k \notin configs
       THEN RestartGivesNone(p)
       ELSE /\ seen' = [seen EXCEPT ![p] = Lookup(Scope(Scope(k[2])))]
            /\ Goto(p, "restart")
            /\ UNCHANGED <<key, mine, myLock>>
  /\ UNCHANGED <<registry, objects, records, todo, crashes>>

\* The new wrapper starts and takes the place of whatever is registered now.
RestartStarts(p) ==
  LET k == key[p] IN
  /\ pc[p] = "restart"
  /\ BuildStarted(seen[p])
  /\ wrappers' = [wrappers EXCEPT ![k] = built']
  /\ IF p = Watchdog
       THEN /\ Goto(p, "checking")
            /\ UNCHANGED <<locks, key, seen, mine, myLock>>
       ELSE EnsureReturns(p, built')
  /\ UNCHANGED <<configs, restartCounts, activity, records, todo, crashes>>

\* It does not start: _try_restart calls itself.
RestartFails(p) ==
  /\ pc[p] = "restart"
  /\ TryRestart(p, key[p], configs)
  /\ UNCHANGED todo

\* The lookup raised (sessions.json cannot be read): the handler fails with
\* it, the watchdog's pass ends.
RestartRaises(p) ==
  /\ pc[p] = "restart"
  /\ Goto(p, IF p = Watchdog THEN "asleep" ELSE "failed")
  /\ todo' = IF p = Watchdog THEN {} ELSE todo
  /\ UNCHANGED <<registry, objects, records, key, seen, mine, myLock, crashes>>

-----------------------------------------------------------------------------
\* stop_session and SessionManager.clear: /new, and the reset before a retry.

Dropped(K) ==
  /\ wrappers' = [k \in Keys |-> IF k \in K THEN 0 ELSE wrappers[k]]
  /\ configs' = configs \ K
  /\ restartCounts' = [k \in Keys |-> IF k \in K THEN 0 ELSE restartCounts[k]]
  /\ locks' = [k \in Keys |-> IF k \in K THEN NoLock ELSE locks[k]]
  /\ activity' = [k \in Keys |-> IF k \in K THEN "none" ELSE activity[k]]

\* A mutant: /new forgets the record.
ResetKeepsRecord(t) ==
  /\ pc[t] = "stop"
  /\ Dropped({key[t]})
  /\ StopAll({wrappers[key[t]]})
  /\ Goto(t, "clear")
  /\ UNCHANGED <<records, key, seen, mine, myLock, todo, crashes>>

\* A one-shot wrapper's stop() does not suspend: clear is called at once.
ResetSession(t) ==
  /\ pc[t] = "stop"
  /\ Dropped({key[t]})
  /\ StopAll({wrappers[key[t]]})
  /\ records' = [records EXCEPT ![Scope(key[t][2])] = NoRecord]
  /\ Goto(t, "clear")
  /\ UNCHANGED <<key, seen, mine, myLock, todo, crashes>>

\* clear came back, or raised after the cache was changed.
Cleared(t) ==
  /\ pc[t] = "clear"
  /\ Goto(t, IF Kind[t] = "new" THEN "done" ELSE "ensure")
  /\ UNCHANGED <<registry, objects, records, key, seen, mine, myLock, todo, crashes>>

ClearFails(t) ==
  /\ pc[t] = "clear"
  /\ Goto(t, "failed")
  /\ UNCHANGED <<registry, objects, records, key, seen, mine, myLock, todo, crashes>>

-----------------------------------------------------------------------------
\* The watchdog: after each interval it restarts the dead wrappers, then drops
\* the idle ones.

Registered == {k \in Keys : wrappers[k] # 0}

\* A mutant: the watchdog goes through the live wrappers only.
WatchdogLooksAtLive ==
  /\ pc[Watchdog] = "asleep"
  /\ todo' = {k \in Registered : wrappers[k] \in alive}
  /\ Goto(Watchdog, "checking")
  /\ UNCHANGED <<registry, objects, records, key, seen, mine, myLock, crashes>>

WatchdogLooks ==
  /\ pc[Watchdog] = "asleep"
  /\ todo' = Registered
  /\ Goto(Watchdog, "checking")
  /\ UNCHANGED <<registry, objects, records, key, seen, mine, myLock, crashes>>

CheckFine(k) ==
  /\ pc[Watchdog] = "checking" /\ k \in todo
  /\ wrappers[k] = 0 \/ wrappers[k] \in alive
  /\ todo' = todo \ {k}
  /\ UNCHANGED <<registry, objects, records, handlers, crashes>>

CheckDead(k) ==
  /\ pc[Watchdog] = "checking" /\ k \in todo
  /\ wrappers[k] # 0 /\ wrappers[k] \notin alive
  /\ todo' = todo \ {k}
  /\ TryRestart(Watchdog, k, configs)

CheckedAll ==
  /\ pc[Watchdog] = "checking" /\ todo = {}
  /\ todo' = Registered
  /\ Goto(Watchdog, "cleaning")
  /\ UNCHANGED <<registry, objects, records, key, seen, mine, myLock, crashes>>

CleanActive(k) ==
  /\ pc[Watchdog] = "cleaning" /\ k \in todo
  /\ activity[k] # "idle" \/ wrappers[k] = 0
  /\ todo' = todo \ {k}
  /\ UNCHANGED <<registry, objects, records, handlers, crashes>>

\* An idle wrapper goes, and with it the session's lock, whoever holds it.
CleanIdle(k) ==
  /\ pc[Watchdog] = "cleaning" /\ k \in todo
  /\ activity[k] = "idle" /\ wrappers[k] # 0
  /\ todo' = todo \ {k}
  /\ Dropped({k})
  /\ StopAll({wrappers[k]})
  /\ UNCHANGED <<records, handlers, crashes>>

CleanedAll ==
  /\ pc[Watchdog] = "cleaning" /\ todo = {}
  /\ Goto(Watchdog, "asleep")
  /\ UNCHANGED <<registry, objects, records, key, seen, mine, myLock, todo, crashes>>

\* shutdown: the watchdog is cancelled wherever it is, every registered
\* wrapper stopped.
Shutdown ==
  /\ pc[Watchdog] # "off"
  /\ Goto(Watchdog, "off")
  /\ todo' = {}
  /\ Dropped(Keys)
  /\ StopAll({wrappers[k] : k \in Keys})
  /\ UNCHANGED <<records, key, seen, mine, myLock, crashes>>

-----------------------------------------------------------------------------
\* The environment.

\* A handler is called by the gateway.
Begin(t) ==
  /\ pc[t] = "idle"
  /\ Goto(t, IF Kind[t] = "new" THEN "stop" ELSE "ensure")
  /\ UNCHANGED <<registry, objects, records, key, seen, mine, myLock, todo, crashes>>

\* A wrapper's process dies.
WrapperCrashes(w) ==
  /\ crashes < MaxCrashes
  /\ w \in alive
  /\ alive' = alive \ {w}
  /\ crashes' = crashes + 1
  /\ UNCHANGED <<registry, built, sid, hist, minted, records, handlers, todo>>

\* An hour passes without a message for key k.
GoesIdle(k) ==
  /\ activity[k] = "recent"
  /\ activity' = [activity EXCEPT ![k] = "idle"]
  /\ UNCHANGED <<wrappers, configs, restartCounts, locks, objects, records, handlers, todo, crashes>>

-----------------------------------------------------------------------------
EnsureStep(t) ==
  \/ EnsureReuse(t)
  \/ EnsureDead(t)
  \/ EnsureMissing(t)
  \/ EnsureStart(t)
  \/ EnsureUpserted(t)

RestartStep(p) ==
  \/ RestartWakes(p)
  \/ RestartStarts(p)

RestartFault(p) ==
  \/ RestartFails(p)
  \/ RestartRaises(p)

ResetStep(t) ==
  \/ ResetSession(t)
  \/ Cleared(t)

\* The awaited call raises.
FailStep(t) ==
  \/ EnsureStartFails(t)
  \/ EnsureUpsertFails(t)
  \/ ClearFails(t)
  \/ RestartFault(t)

WatchdogStep ==
  \/ WatchdogLooks
  \/ \E k \in Keys : CheckFine(k) \/ CheckDead(k) \/ CleanActive(k) \/ CleanIdle(k)
  \/ CheckedAll
  \/ CleanedAll

\* The registry by itself: a handler is done once it has its wrapper.
Leave(t) ==
  /\ pc[t] = "returned"
  /\ Goto(t, "done")
  /\ UNCHANGED <<registry, objects, records, key, seen, mine, myLock, todo, crashes>>

HandlerStep(t) ==
  \/ EnsureStep(t)
  \/ RestartStep(t)
  \/ ResetStep(t)
  \/ FailStep(t)
  \/ Leave(t)

Next ==
  \/ \E t \in Tasks : Begin(t) \/ HandlerStep(t)
  \/ RestartStep(Watchdog)
  \/ RestartFault(Watchdog)
  \/ WatchdogStep
  \/ Shutdown
  \/ \E w \in Wrappers : WrapperCrashes(w)
  \/ \E k \in Keys : GoesIdle(k)

Spec == Init /\ [][Next]_runtimeVars

-----------------------------------------------------------------------------
\* Every registry entry names a wrapper that was built, and every session id
\* a wrapper has is one that was minted.
TypeOK ==
  /\ built \in 0..MaxWrappers
  /\ minted \in Nat
  /\ wrappers \in [Keys -> 0..built]
  /\ configs \subseteq Keys
  /\ restartCounts \in [Keys -> Nat]
  /\ locks \in [Keys -> Tasks \cup {NoLock}]
  /\ activity \in [Keys -> {"none", "recent", "idle"}]
  /\ alive \subseteq 1..built
  /\ sid \in [Wrappers -> 0..minted]
  /\ hist \in [Wrappers -> BOOLEAN]
  /\ records \in [StoreKeys -> Record \cup {NoRecord}]
  /\ pc \in [Procs -> Labels]
  /\ key \in [Procs -> Keys]
  /\ seen \in [Procs -> Record \cup {NoRecord}]
  /\ mine \in [Procs -> 0..built]
  /\ myLock \in [Procs -> Tasks \cup {NoLock}]
  /\ todo \subseteq Keys
  /\ crashes \in 0..MaxCrashes

\* A wrapper and a session lock belong to one agent and session key: whatever
\* the handlers of two sessions interleave, the registry never holds, and no
\* two handlers are ever given, the same wrapper or lock for different keys.
Isolated ==
  /\ \A j, k \in Keys : wrappers[j] = wrappers[k] /\ wrappers[j] # 0 => j = k
  /\ \A t \in Tasks, k \in Keys : mine[t] = wrappers[k] /\ mine[t] # 0 => key[t] = k
  /\ \A t, u \in Tasks : mine[t] = mine[u] /\ mine[t] # 0 => key[t] = key[u]
  /\ \A k \in Keys : locks[k] # NoLock => key[locks[k]] = k
  /\ \A t \in Tasks : myLock[t] # NoLock => key[myLock[t]] = key[t]

\* What channel c holds of provider sessions: in its record, its registered
\* wrappers, the wrappers its handlers use and the records they have read.
SidsOf(c) ==
  {SidOf(records[Scope(c)])}
    \cup {sid[wrappers[k]] : k \in {j \in Keys : j[2] = c /\ wrappers[j] # 0}}
    \cup {sid[mine[t]] : t \in {u \in Tasks : key[u][2] = c /\ mine[u] # 0}}
    \cup {SidOf(seen[p]) : p \in {q \in Procs : key[q][2] = c}}

\* Two channels never come to name one provider session (docs/plans.md:282):
\* restarts, retries, /new and late writers included.
ChannelsSeparate ==
  \A c, d \in Channels : c # d => SidsOf(c) \cap SidsOf(d) \subseteq {0}

\* A registered wrapper found dead does not stay: it is replaced, or given up
\* after the last attempt, without a message having to arrive; until the
\* watchdog is cancelled.
CrashHandled ==
  \A k \in Keys : wrappers[k] # 0 /\ wrappers[k] \notin alive
                     ~> wrappers[k] = 0 \/ wrappers[k] \in alive \/ pc[Watchdog] = "off"

\* docs/plans.md:283 of a crashed process: "provider가 resume를 지원하면 기존
\* 세션 복구를 우선 시도".  A restart is given the record of its session.
RestartFindsRecord ==
  [][\A p \in Procs : pc[p] = "backoff" /\ pc'[p] = "restart"
                        => seen'[p] = RecordOf(key[p])]_runtimeVars
=============================================================================
