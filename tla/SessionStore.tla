---------------------------- MODULE SessionStore ----------------------------
(***************************************************************************)
(* runtime/session_store.py: sessions.json behind a cache and one          *)
(* asyncio.Lock.  Every operation takes the lock, loads the file on first  *)
(* use, works on the cache, and (when it changed something) writes the     *)
(* whole map to a temporary file that os.replace puts in place.  Reading   *)
(* and writing happen in worker threads, so other handlers run meanwhile   *)
(* and queue at the lock; the process may die between any two steps.       *)
(*                                                                         *)
(* Cancellation of a handler is left out: these handlers are cancelled     *)
(* only when the event loop is torn down, all of them together.            *)
(***************************************************************************)
EXTENDS Naturals

CONSTANTS Keys, Records, NoRecord, Codex,
          Clients,     \* handlers with an operation on the store
          Nobody       \* the lock is free

ASSUME StoreAssumption ==
  /\ NoRecord \notin Records
  /\ Codex \subseteq Records
  /\ Nobody \notin Clients

VARIABLES
  cache,    \* self._cache
  loaded,   \* self._loaded
  lock,     \* who holds self._lock
  file,     \* what sessions.json holds (an absent or empty file reads as {})
  up,       \* is the process running?
  pc,       \* where each handler is
  op,       \* the operation it runs
  result,   \* what it came back with
  thread,   \* what its worker thread is doing
  payload   \* the map that thread was given to write

storeVars == <<cache, loaded, lock, file, up, pc, op, result, thread, payload>>

Maps == [Keys -> Records \cup {NoRecord}]

Empty == [k \in Keys |-> NoRecord]

Without(m, R) == [k \in Keys |-> IF m[k] \in R THEN NoRecord ELSE m[k]]

Gets == [kind : {"get"}, key : Keys]
Upserts == [kind : {"upsert"}, key : Keys, record : Records]
Deletes == [kind : {"delete"}, key : Keys]
\* invalidate_provider_sessions is the one caller: all records of a provider.
DeleteWheres == [kind : {"delete_where"}, match : {Codex, Records \ Codex}]
Ops == Gets \cup Upserts \cup Deletes \cup DeleteWheres

NoOp == [kind |-> "none"]

\* (mutation) upsert keeps the request where the record should be.
EffectStoresRequest(o, m) ==
  CASE o.kind = "upsert"       -> [m EXCEPT ![o.key] = o]
    [] o.kind = "delete"       -> [m EXCEPT ![o.key] = NoRecord]
    [] o.kind = "delete_where" -> Without(m, o.match)
    [] OTHER                   -> m

\* The cache an operation leaves behind.
Effect(o, m) ==
  CASE o.kind = "upsert"       -> [m EXCEPT ![o.key] = o.record]
    [] o.kind = "delete"       -> [m EXCEPT ![o.key] = NoRecord]
    [] o.kind = "delete_where" -> Without(m, o.match)
    [] OTHER                   -> m

\* delete_where returns early when nothing matches; upsert and delete always persist.
Writes(o, m) ==
  \/ o.kind \in {"upsert", "delete"}
  \/ o.kind = "delete_where" /\ Without(m, o.match) # m

TypeOK ==
  /\ cache \in Maps
  /\ loaded \in BOOLEAN
  /\ lock \in Clients \cup {Nobody}
  /\ file \in Maps
  /\ up \in BOOLEAN
  /\ pc \in [Clients -> {"idle", "waiting", "loading", "persisting"}]
  /\ op \in [Clients -> Ops \cup {NoOp}]
  /\ result \in [Clients -> {"none", "ok", "error"} \cup Records \cup {NoRecord}]
  /\ thread \in [Clients -> {"none", "read", "write", "replace"}]
  /\ payload \in [Clients -> Maps]

Init ==
  /\ cache = Empty
  /\ loaded = FALSE
  /\ lock = Nobody
  /\ file = Empty
  /\ up = FALSE
  /\ pc = [c \in Clients |-> "idle"]
  /\ op = [c \in Clients |-> NoOp]
  /\ result = [c \in Clients |-> "none"]
  /\ thread = [c \in Clients |-> "none"]
  /\ payload = [c \in Clients |-> Empty]

-----------------------------------------------------------------------------
\* The pieces the operations share.

\* The operation ends: the lock is released and the caller has its answer.
Answer(c, r) ==
  /\ pc' = [pc EXCEPT ![c] = "idle"]
  /\ op' = [op EXCEPT ![c] = NoOp]
  /\ result' = [result EXCEPT ![c] = r]
  /\ lock' = Nobody

\* (mutation) the lock is released before the write to the file is awaited.
BodyReleasesEarly(c, m) ==
  IF Writes(op[c], m)
    THEN /\ cache' = Effect(op[c], m)
         /\ pc' = [pc EXCEPT ![c] = "persisting"]
         /\ thread' = [thread EXCEPT ![c] = "write"]
         /\ payload' = [payload EXCEPT ![c] = cache']
         /\ lock' = Nobody
         /\ UNCHANGED <<op, result>>
    ELSE /\ cache' = m
         /\ Answer(c, IF op[c].kind = "get" THEN m[op[c].key] ELSE "ok")
         /\ thread' = [thread EXCEPT ![c] = "none"]
         /\ UNCHANGED payload

\* (mutation) the payload is taken before the cache is changed.
BodyPersistsOldMap(c, m) ==
  IF Writes(op[c], m)
    THEN /\ cache' = Effect(op[c], m)
         /\ pc' = [pc EXCEPT ![c] = "persisting"]
         /\ thread' = [thread EXCEPT ![c] = "write"]
         /\ payload' = [payload EXCEPT ![c] = m]
         /\ lock' = c
         /\ UNCHANGED <<op, result>>
    ELSE /\ cache' = m
         /\ Answer(c, IF op[c].kind = "get" THEN m[op[c].key] ELSE "ok")
         /\ thread' = [thread EXCEPT ![c] = "none"]
         /\ UNCHANGED payload

\* The body of the `async with`, from a loaded cache m up to the next await.
Body(c, m) ==
  IF Writes(op[c], m)
    THEN /\ cache' = Effect(op[c], m)
         /\ pc' = [pc EXCEPT ![c] = "persisting"]
         /\ thread' = [thread EXCEPT ![c] = "write"]
         /\ payload' = [payload EXCEPT ![c] = cache']
         /\ lock' = c
         /\ UNCHANGED <<op, result>>
    ELSE /\ cache' = m
         /\ Answer(c, IF op[c].kind = "get" THEN m[op[c].key] ELSE "ok")
         /\ thread' = [thread EXCEPT ![c] = "none"]
         /\ UNCHANGED payload

-----------------------------------------------------------------------------
\* The steps of a handler and of its worker thread.

Request(c, o) ==
  /\ up /\ pc[c] = "idle"
  /\ pc' = [pc EXCEPT ![c] = "waiting"]
  /\ op' = [op EXCEPT ![c] = o]
  /\ result' = [result EXCEPT ![c] = "none"]
  /\ UNCHANGED <<cache, loaded, lock, file, up, thread, payload>>

\* The handler gets the lock: it works at once on a loaded cache, and hands
\* the reading of the file to a thread otherwise.
Acquire(c) ==
  /\ pc[c] = "waiting" /\ lock = Nobody
  /\ \/ /\ loaded
        /\ Body(c, cache)
     \/ /\ ~loaded
        /\ lock' = c
        /\ pc' = [pc EXCEPT ![c] = "loading"]
        /\ thread' = [thread EXCEPT ![c] = "read"]
        /\ UNCHANGED <<cache, op, result, payload>>
  /\ UNCHANGED <<loaded, file, up>>

\* _read_json came back: the cache is the file, and the operation goes on.
Loaded(c) ==
  /\ pc[c] = "loading" /\ thread[c] = "read"
  /\ loaded' = TRUE
  /\ Body(c, file)
  /\ UNCHANGED <<file, up>>

\* (mutation) lock.acquire() without a release on the error path.
LoadFailedKeepsLock(c) ==
  /\ pc[c] = "loading" /\ thread[c] = "read"
  /\ thread' = [thread EXCEPT ![c] = "none"]
  /\ pc' = [pc EXCEPT ![c] = "idle"]
  /\ UNCHANGED <<cache, loaded, lock, file, up, op, result, payload>>

\* _read_json raised: the lock is released and nothing is loaded.
LoadFailed(c) ==
  /\ pc[c] = "loading" /\ thread[c] = "read"
  /\ thread' = [thread EXCEPT ![c] = "none"]
  /\ Answer(c, "error")
  /\ UNCHANGED <<cache, loaded, file, up, payload>>

\* _write_json wrote the temporary file.
TmpWritten(c) ==
  /\ thread[c] = "write"
  /\ thread' = [thread EXCEPT ![c] = "replace"]
  /\ UNCHANGED <<cache, loaded, lock, file, up, pc, op, result, payload>>

\* The thread is done and its payload forgotten.
Threadless(c) ==
  /\ thread' = [thread EXCEPT ![c] = "none"]
  /\ payload' = [payload EXCEPT ![c] = Empty]

\* os.replace: the file changes at once, and the awaiting handler answers.
Replaced(c) ==
  /\ thread[c] = "replace"
  /\ file' = payload[c]
  /\ Threadless(c)
  /\ Answer(c, "ok")
  /\ UNCHANGED <<cache, loaded, up>>

\* (mutation) the file is written in place, so a failed write truncates it.
PersistFailedInPlace(c) ==
  /\ thread[c] \in {"write", "replace"}
  /\ file' = Empty
  /\ Threadless(c)
  /\ Answer(c, "error")
  /\ UNCHANGED <<cache, loaded, up>>

\* Either of the two raised (disk full, permissions): the file stays as it
\* was, the cache keeps the change, the caller gets the exception.
PersistFailed(c) ==
  /\ thread[c] \in {"write", "replace"}
  /\ Threadless(c)
  /\ Answer(c, "error")
  /\ UNCHANGED <<cache, loaded, file, up>>

-----------------------------------------------------------------------------
\* The process.

\* The process dies: everything but the file is gone.  A temporary file may
\* stay behind; the next write overwrites it and nothing ever reads it.
Crash ==
  /\ up
  /\ up' = FALSE
  /\ cache' = Empty
  /\ loaded' = FALSE
  /\ lock' = Nobody
  /\ pc' = [c \in Clients |-> "idle"]
  /\ result' = [c \in Clients |-> "none"]
  /\ thread' = [c \in Clients |-> "none"]
  /\ payload' = [c \in Clients |-> Empty]
  /\ op' = [c \in Clients |-> NoOp]
  /\ UNCHANGED file

\* build_app: delete_where_sync drops the Codex sessions before the event
\* loop runs.  os.replace is its commit point, so a start that dies before it
\* has left the file as it was.
Start ==
  /\ ~up
  /\ up' = TRUE
  /\ file' = Without(file, Codex)
  /\ UNCHANGED <<cache, loaded, lock, pc, op, result, thread, payload>>

Work(c) ==
  \/ Acquire(c)
  \/ Loaded(c)
  \/ LoadFailed(c)
  \/ TmpWritten(c)
  \/ Replaced(c)
  \/ PersistFailed(c)

Next ==
  \/ \E c \in Clients, o \in Ops : Request(c, o)
  \/ \E c \in Clients : Work(c)
  \/ Crash
  \/ Start

Spec == Init /\ [][Next]_storeVars

\* asyncio.Lock hands itself on in FIFO order, so nobody waits for ever at a
\* lock that keeps being released (SF); worker threads come back (WF).
Fairness ==
  \A c \in Clients :
    /\ SF_storeVars(Acquire(c))
    /\ WF_storeVars(Loaded(c) \/ LoadFailed(c))
    /\ WF_storeVars(TmpWritten(c) \/ Replaced(c) \/ PersistFailed(c))

FairSpec == Spec /\ Fairness

-----------------------------------------------------------------------------
\* Properties.

\* In this step handler c's operation of that kind ends.
Answers(c, kind) == pc[c] # "idle" /\ pc'[c] = "idle" /\ op[c].kind = kind /\ up'

\* A record a get returns is the one in the file, unless an earlier failed
\* write has left the cache ahead of it: never one still on its way there.
NoDirtyRead ==
  [][\A c \in Clients :
       Answers(c, "get") /\ result'[c] \notin {"error", "none"} =>
         \/ result'[c] = file[op[c].key]
         \/ cache # file /\ \A d \in Clients : thread[d] = "none"]_storeVars

\* An upsert or delete that reports success has its whole effect in the file,
\* together with everything the cache held: no later write of an earlier
\* version can have got between.
AckedIsDurable ==
  [][\A c \in Clients :
       (Answers(c, "upsert") \/ Answers(c, "delete")) /\ result'[c] = "ok"
         => file' = cache' /\ file'[op[c].key] = (IF op[c].kind = "upsert" THEN op[c].record ELSE NoRecord)]_storeVars

\* Every operation comes back: the lock is released on every path.
Answered == \A c \in Clients : (pc[c] = "waiting") ~> (pc[c] = "idle")

\* The abstract map this implements: handlers see the cache once it is loaded
\* and the file before, and the file is what survives.
Abstract == INSTANCE DurableMap WITH visible <- IF loaded THEN cache ELSE file,
                                     durable <- file

ImplementsDurableMap == Abstract!MapSpec
=============================================================================
