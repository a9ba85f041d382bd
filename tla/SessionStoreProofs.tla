------------------------- MODULE SessionStoreProofs -------------------------
(***************************************************************************)
(* Proofs about SessionStore for any keys, records and handlers.           *)
(*                                                                         *)
(* The argument: whoever is past the lock is alone there (LockDiscipline), *)
(* so the map a worker thread was given is still the cache when it reaches *)
(* the file (PayloadIsCache).  Everything else follows from these two.     *)
(***************************************************************************)
EXTENDS SessionStore, TLAPS

\* A handler inside the `async with` is the holder of the lock, and its
\* worker thread does what it waits for.
LockDiscipline ==
  \A c \in Clients :
    /\ (pc[c] \in {"loading", "persisting"}) <=> (lock = c)
    /\ (thread[c] = "read") <=> (pc[c] = "loading")
    /\ (thread[c] \in {"write", "replace"}) <=> (pc[c] = "persisting")
    /\ pc[c] # "idle" => op[c] \in Ops

\* The map on its way to the file is the whole cache, and the file is read
\* once: never over a cache that is already in use.
PayloadIsCache ==
  \A c \in Clients :
    /\ pc[c] = "persisting" => loaded /\ payload[c] = cache
    /\ pc[c] = "loading" => ~loaded

\* A process that is down has nothing in memory.
DownIsEmpty == ~up => ~loaded /\ \A c \in Clients : pc[c] = "idle"

IInv == TypeOK /\ LockDiscipline /\ PayloadIsCache /\ DownIsEmpty

-----------------------------------------------------------------------------
\* What an operation makes of a map is a map.
LEMMA EffectType ==
  ASSUME NEW o \in Ops, NEW m \in Maps
  PROVE  Effect(o, m) \in Maps
<1>1. CASE o \in Upserts
  BY <1>1 DEF Effect, Upserts, Maps
<1>2. CASE o \in Deletes
  BY <1>2 DEF Effect, Deletes, Maps
<1>3. CASE o \in DeleteWheres
  BY <1>3 DEF Effect, DeleteWheres, Maps, Without
<1>4. CASE o \in Gets
  BY <1>4 DEF Effect, Gets, Maps
<1>5. QED
  BY <1>1, <1>2, <1>3, <1>4 DEF Ops

LEMMA EmptyType == Empty \in Maps
BY DEF Empty, Maps

\* A get returns a record or NoRecord.
LEMMA ReadType ==
  ASSUME NEW o \in Ops, o.kind = "get", NEW m \in Maps
  PROVE  m[o.key] \in Records \cup {NoRecord}
<1>1. o \in Gets
  BY DEF Ops, Gets, Upserts, Deletes, DeleteWheres
<1>2. QED
  BY <1>1 DEF Gets, Maps

LEMMA InitInv == Init => IInv
<1>1. SUFFICES ASSUME Init PROVE IInv
  OBVIOUS
<1>2. TypeOK
  BY <1>1, EmptyType DEF Init, TypeOK
<1>3. QED
  BY <1>1, <1>2, StoreAssumption DEF Init, IInv, LockDiscipline, PayloadIsCache, DownIsEmpty

\* The body of an operation, run by a handler that holds the lock or takes it
\* free, keeps the invariant; m is the cache it starts from.
LEMMA BodyInv ==
  ASSUME IInv, NEW c \in Clients, NEW m \in Maps,
         pc[c] # "idle", lock \in {Nobody, c}, up, loaded', Body(c, m),
         UNCHANGED <<file, up>>
  PROVE  IInv'
<1>1. op[c] \in Ops
  BY DEF IInv, LockDiscipline
<1>2. \A d \in Clients : d # c => pc[d] \in {"idle", "waiting"} /\ lock # d
  BY StoreAssumption DEF IInv, LockDiscipline, TypeOK
<1>3. CASE Writes(op[c], m)
  <2>1. /\ cache' = Effect(op[c], m)
        /\ pc' = [pc EXCEPT ![c] = "persisting"]
        /\ thread' = [thread EXCEPT ![c] = "write"]
        /\ payload' = [payload EXCEPT ![c] = cache']
        /\ lock' = c
        /\ UNCHANGED <<op, result>>
    BY <1>3 DEF Body
  <2>2. cache' \in Maps
    BY <1>1, <2>1, EffectType
  <2>3. TypeOK'
    BY <2>1, <2>2 DEF IInv, TypeOK
  <2>4. LockDiscipline'
    BY <1>1, <1>2, <2>1 DEF IInv, TypeOK, LockDiscipline
  <2>5. PayloadIsCache'
    BY <1>2, <2>1 DEF IInv, TypeOK, PayloadIsCache
  <2>6. QED
    BY <2>3, <2>4, <2>5 DEF IInv, DownIsEmpty
<1>4. CASE ~Writes(op[c], m)
  <2>1. /\ cache' = m
        /\ pc' = [pc EXCEPT ![c] = "idle"]
        /\ op' = [op EXCEPT ![c] = NoOp]
        /\ result' = [result EXCEPT ![c] = IF op[c].kind = "get" THEN m[op[c].key] ELSE "ok"]
        /\ lock' = Nobody
        /\ thread' = [thread EXCEPT ![c] = "none"]
        /\ UNCHANGED payload
    BY <1>4 DEF Body, Answer
  <2>2. TypeOK'
    BY <1>1, <2>1, ReadType DEF IInv, TypeOK
  <2>3. LockDiscipline'
    BY <1>1, <1>2, <2>1, StoreAssumption DEF IInv, TypeOK, LockDiscipline
  <2>4. PayloadIsCache'
    BY <1>2, <2>1 DEF IInv, TypeOK, PayloadIsCache
  <2>5. QED
    BY <2>2, <2>3, <2>4 DEF IInv, DownIsEmpty
<1>5. QED
  BY <1>3, <1>4

\* Every step keeps the invariant.
LEMMA StepInv == IInv /\ [Next]_storeVars => IInv'
<1>1. SUFFICES ASSUME IInv, [Next]_storeVars PROVE IInv'
  OBVIOUS
<1>. USE StoreAssumption
<1>2. ASSUME NEW c \in Clients, NEW o \in Ops, Request(c, o) PROVE IInv'
  BY <1>1, <1>2 DEF Request, IInv, TypeOK, LockDiscipline, PayloadIsCache, DownIsEmpty
<1>3. ASSUME NEW c \in Clients, Acquire(c) PROVE IInv'
  <2>1. CASE loaded
    BY <1>1, <1>3, <2>1, BodyInv DEF Acquire, IInv, TypeOK, DownIsEmpty
  <2>2. CASE ~loaded
    <3>1. up
      BY <1>1, <1>3 DEF Acquire, IInv, DownIsEmpty
    <3>2. QED
      BY <1>1, <1>3, <2>2, <3>1 DEF Acquire, IInv, TypeOK, LockDiscipline, PayloadIsCache, DownIsEmpty
  <2>3. QED
    BY <2>1, <2>2
<1>4. ASSUME NEW c \in Clients, Loaded(c) PROVE IInv'
  BY <1>1, <1>4, BodyInv DEF Loaded, IInv, TypeOK, LockDiscipline, DownIsEmpty
<1>5. ASSUME NEW c \in Clients, LoadFailed(c) PROVE IInv'
  BY <1>1, <1>5 DEF LoadFailed, Answer, IInv, TypeOK, LockDiscipline, PayloadIsCache, DownIsEmpty
<1>6. ASSUME NEW c \in Clients, TmpWritten(c) PROVE IInv'
  BY <1>1, <1>6 DEF TmpWritten, IInv, TypeOK, LockDiscipline, PayloadIsCache, DownIsEmpty
<1>7. ASSUME NEW c \in Clients, Replaced(c) PROVE IInv'
  BY <1>1, <1>7, EmptyType DEF Replaced, Threadless, Answer, IInv, TypeOK, LockDiscipline, PayloadIsCache, DownIsEmpty
<1>8. ASSUME NEW c \in Clients, PersistFailed(c) PROVE IInv'
  BY <1>1, <1>8, EmptyType DEF PersistFailed, Threadless, Answer, IInv, TypeOK, LockDiscipline, PayloadIsCache, DownIsEmpty
<1>9. CASE Crash
  BY <1>1, <1>9, EmptyType DEF Crash, IInv, TypeOK, LockDiscipline, PayloadIsCache, DownIsEmpty
<1>10. CASE Start
  BY <1>1, <1>10 DEF Start, Without, Maps, IInv, TypeOK, LockDiscipline, PayloadIsCache, DownIsEmpty
<1>11. CASE UNCHANGED storeVars
  BY <1>1, <1>11 DEF storeVars, IInv, TypeOK, LockDiscipline, PayloadIsCache, DownIsEmpty
<1>12. QED
  BY <1>1, <1>2, <1>3, <1>4, <1>5, <1>6, <1>7, <1>8, <1>9, <1>10, <1>11 DEF Next, Work

\* In every reachable state the lock has one holder and its thread carries
\* the cache.
THEOREM Invariance == Spec => []IInv
BY InitInv, StepInv, PTL DEF Spec

\* Every variable of the store keeps its type.
THEOREM TypeCorrect == Spec => []TypeOK
BY Invariance, PTL DEF IInv

-----------------------------------------------------------------------------
\* The two action properties, for any reachable step.

\* While an upsert or delete is on its way to the file, the cache has its effect.
OpInCache ==
  \A c \in Clients : pc[c] = "persisting" =>
    /\ op[c] \in Upserts => cache[op[c].key] = op[c].record
    /\ op[c] \in Deletes => cache[op[c].key] = NoRecord
    /\ op[c].kind # "get"

\* The body of c's operation puts its effect in the cache; nobody else is persisting.
LEMMA OpInCacheBody ==
  ASSUME IInv, NEW c \in Clients, NEW m \in Maps, pc[c] # "idle",
         lock \in {Nobody, c}, Body(c, m)
  PROVE  OpInCache'
<1>1. \A d \in Clients : d # c => pc[d] \in {"idle", "waiting"}
  BY StoreAssumption DEF IInv, LockDiscipline, TypeOK
<1>2. CASE Writes(op[c], m)
  <2>1. /\ cache' = Effect(op[c], m)
        /\ pc' = [pc EXCEPT ![c] = "persisting"]
        /\ UNCHANGED op
    BY <1>2 DEF Body
  <2>2. op[c] \in Upserts => cache'[op[c].key] = op[c].record
    BY <2>1 DEF Upserts, Effect, Maps
  <2>3. op[c] \in Deletes => cache'[op[c].key] = NoRecord
    BY <2>1 DEF Deletes, Effect, Maps
  <2>4. op[c].kind # "get"
    BY <1>2 DEF Writes
  <2>5. QED
    BY <1>1, <2>1, <2>2, <2>3, <2>4 DEF OpInCache, IInv, TypeOK
<1>3. CASE ~Writes(op[c], m)
  BY <1>1, <1>3 DEF Body, Answer, OpInCache, IInv, TypeOK
<1>4. QED
  BY <1>2, <1>3

LEMMA OpInCacheStep == IInv /\ OpInCache /\ [Next]_storeVars => OpInCache'
<1>1. SUFFICES ASSUME IInv, OpInCache, [Next]_storeVars PROVE OpInCache'
  OBVIOUS
<1>2. ASSUME NEW c \in Clients, NEW o \in Ops, Request(c, o) PROVE OpInCache'
  BY <1>1, <1>2 DEF Request, OpInCache, IInv, TypeOK
<1>3. ASSUME NEW c \in Clients, Acquire(c) PROVE OpInCache'
  <2>1. CASE loaded
    BY <1>1, <1>3, <2>1, OpInCacheBody DEF Acquire, IInv, TypeOK
  <2>2. CASE ~loaded
    BY <1>1, <1>3, <2>2 DEF Acquire, OpInCache, IInv, TypeOK
  <2>3. QED
    BY <2>1, <2>2
<1>4. ASSUME NEW c \in Clients, Loaded(c) PROVE OpInCache'
  BY <1>1, <1>4, OpInCacheBody DEF Loaded, IInv, TypeOK, LockDiscipline
<1>5. ASSUME NEW c \in Clients, LoadFailed(c) \/ Replaced(c) \/ PersistFailed(c) PROVE OpInCache'
  BY <1>1, <1>5 DEF LoadFailed, Replaced, PersistFailed, Answer, OpInCache, IInv, TypeOK
<1>6. ASSUME NEW c \in Clients, TmpWritten(c) PROVE OpInCache'
  BY <1>1, <1>6 DEF TmpWritten, OpInCache
<1>7. CASE Crash
  BY <1>7 DEF Crash, OpInCache
<1>8. CASE Start
  BY <1>1, <1>8 DEF Start, OpInCache
<1>9. CASE UNCHANGED storeVars
  BY <1>1, <1>9 DEF storeVars, OpInCache
<1>10. QED
  BY <1>1, <1>2, <1>3, <1>4, <1>5, <1>6, <1>7, <1>8, <1>9 DEF Next, Work

LEMMA OpInCacheInvariance == Spec => []OpInCache
<1>1. Init => OpInCache
  BY DEF Init, OpInCache
<1>2. QED
  BY <1>1, Invariance, OpInCacheStep, PTL DEF Spec

\* Which steps end handler c's operation while the process is up.
LEMMA WhoAnswers ==
  ASSUME IInv, [Next]_storeVars, NEW c \in Clients, pc[c] # "idle", pc'[c] = "idle", up'
  PROVE  \/ Acquire(c) /\ loaded
         \/ Loaded(c) \/ LoadFailed(c) \/ Replaced(c) \/ PersistFailed(c)
<1>1. ASSUME NEW d \in Clients, d # c, Work(d) PROVE FALSE
  BY <1>1 DEF Work, Acquire, Loaded, LoadFailed, TmpWritten, Replaced, PersistFailed, Body, Answer, IInv, TypeOK
<1>2. ASSUME NEW d \in Clients, NEW o \in Ops, Request(d, o) PROVE FALSE
  BY <1>2 DEF Request, IInv, TypeOK
<1>3. ~Crash /\ ~Start /\ ~UNCHANGED storeVars
  BY DEF Crash, Start, storeVars
<1>4. ~TmpWritten(c)
  BY DEF TmpWritten
<1>5. ASSUME Acquire(c), ~loaded PROVE FALSE
  BY <1>5 DEF Acquire, IInv, TypeOK
<1>6. QED
  BY <1>1, <1>2, <1>3, <1>4, <1>5 DEF Next, Work

\* An operation that does not write ends with a value only if it is a get.
LEMMA AnswerOfBody ==
  ASSUME IInv, NEW c \in Clients, NEW m, Body(c, m), pc'[c] = "idle"
  PROVE  /\ op[c].kind \notin {"upsert", "delete"}
         /\ op[c].kind = "get" => result'[c] = m[op[c].key]
<1>1. CASE Writes(op[c], m)
  BY <1>1 DEF Body, IInv, TypeOK
<1>2. CASE ~Writes(op[c], m)
  BY <1>2 DEF Body, Writes, Answer, IInv, TypeOK
<1>3. QED
  BY <1>1, <1>2

LEMMA AckedStep ==
  ASSUME IInv, OpInCache, [Next]_storeVars, NEW c \in Clients,
         Answers(c, "upsert") \/ Answers(c, "delete"), result'[c] = "ok"
  PROVE  /\ file' = cache'
         /\ file'[op[c].key] = (IF op[c].kind = "upsert" THEN op[c].record ELSE NoRecord)
<1>1. pc[c] # "idle" /\ pc'[c] = "idle" /\ up' /\ op[c].kind \in {"upsert", "delete"}
  BY DEF Answers
<1>2. op[c] \in Upserts \cup Deletes
  BY <1>1 DEF IInv, LockDiscipline, Ops, Gets, Upserts, Deletes, DeleteWheres
<1>3. ~(LoadFailed(c) \/ PersistFailed(c))
  BY DEF LoadFailed, PersistFailed, Answer, IInv, TypeOK
<1>4. ~(Acquire(c) /\ loaded) /\ ~Loaded(c)
  BY <1>1, AnswerOfBody DEF Acquire, Loaded
<1>5. Replaced(c)
  BY <1>1, <1>3, <1>4, WhoAnswers
<1>6. pc[c] = "persisting" /\ payload[c] = cache
  BY <1>5 DEF Replaced, IInv, LockDiscipline, PayloadIsCache
<1>7. file' = cache /\ cache' = cache
  BY <1>5, <1>6 DEF Replaced
<1>8. QED
  BY <1>2, <1>6, <1>7 DEF OpInCache, Upserts, Deletes

\* An upsert or delete reported done is in the file, with everything else the
\* program sees.
THEOREM Acked == Spec => AckedIsDurable
<1>1. IInv /\ OpInCache /\ [Next]_storeVars =>
        [\A c \in Clients :
           (Answers(c, "upsert") \/ Answers(c, "delete")) /\ result'[c] = "ok"
             => file' = cache' /\ file'[op[c].key] = (IF op[c].kind = "upsert" THEN op[c].record ELSE NoRecord)]_storeVars
  BY AckedStep
<1>2. QED
  BY <1>1, Invariance, OpInCacheInvariance, PTL DEF Spec, AckedIsDurable

LEMMA ReadStep ==
  ASSUME IInv, OpInCache, [Next]_storeVars, NEW c \in Clients,
         Answers(c, "get"), result'[c] \notin {"error", "none"}
  PROVE  \/ result'[c] = file[op[c].key]
         \/ cache # file /\ \A d \in Clients : thread[d] = "none"
<1>1. pc[c] # "idle" /\ pc'[c] = "idle" /\ up' /\ op[c].kind = "get"
  BY DEF Answers
<1>2. ~(LoadFailed(c) \/ PersistFailed(c))
  BY DEF LoadFailed, PersistFailed, Answer, IInv, TypeOK
<1>3. ~Replaced(c)
  BY <1>1 DEF Replaced, OpInCache, IInv, LockDiscipline
<1>4. CASE Acquire(c) /\ loaded
  <2>1. result'[c] = cache[op[c].key] /\ lock = Nobody
    BY <1>1, <1>4, AnswerOfBody DEF Acquire
  <2>2. \A d \in Clients : thread[d] = "none"
    BY <2>1, StoreAssumption DEF IInv, LockDiscipline, TypeOK
  <2>3. QED
    BY <2>1, <2>2
<1>5. CASE Loaded(c)
  BY <1>1, <1>5, AnswerOfBody DEF Loaded
<1>6. QED
  BY <1>1, <1>2, <1>3, <1>4, <1>5, WhoAnswers

\* No reader is told of a record on its way to the file.
THEOREM CleanReads == Spec => NoDirtyRead
<1>1. IInv /\ OpInCache /\ [Next]_storeVars =>
        [\A c \in Clients :
           Answers(c, "get") /\ result'[c] \notin {"error", "none"} =>
             \/ result'[c] = file[op[c].key]
             \/ cache # file /\ \A d \in Clients : thread[d] = "none"]_storeVars
  BY ReadStep
<1>2. QED
  BY <1>1, Invariance, OpInCacheInvariance, PTL DEF Spec, NoDirtyRead

-----------------------------------------------------------------------------
(***************************************************************************)
(* The store implements DurableMap.  The map handlers see changes in one   *)
(* place only, the body of an operation; the file changes when a thread    *)
(* replaces it, and then it becomes the map handlers see.                  *)
(***************************************************************************)

\* An operation's body makes the visible map what DurableMap lets it be.
LEMMA BodyRefines ==
  ASSUME IInv, NEW c \in Clients, pc[c] # "idle",
         LET m == IF loaded THEN cache ELSE file IN Body(c, m),
         loaded', UNCHANGED file
  PROVE  [Abstract!MapNext]_(Abstract!mapVars)
<1>. DEFINE m == IF loaded THEN cache ELSE file
<1>1. op[c] \in Ops /\ m \in Maps
  BY DEF IInv, TypeOK, LockDiscipline
<1>2. CASE Writes(op[c], m) /\ op[c] \in Upserts
  <2>1. cache' = [m EXCEPT ![op[c].key] = op[c].record]
    BY <1>2 DEF Body, Effect, Upserts
  <2>2. Abstract!Put(op[c].key, op[c].record)
    BY <2>1 DEF Abstract!Put
  <2>3. op[c].key \in Keys /\ op[c].record \in Records \cup {NoRecord}
    BY <1>2 DEF Upserts
  <2>4. QED
    BY <2>2, <2>3 DEF Abstract!MapNext
<1>3. CASE Writes(op[c], m) /\ op[c] \in Deletes
  <2>1. cache' = [m EXCEPT ![op[c].key] = NoRecord]
    BY <1>3 DEF Body, Effect, Deletes
  <2>2. Abstract!Put(op[c].key, NoRecord)
    BY <2>1 DEF Abstract!Put
  <2>3. op[c].key \in Keys
    BY <1>3 DEF Deletes
  <2>4. QED
    BY <2>2, <2>3 DEF Abstract!MapNext
<1>4. CASE Writes(op[c], m) /\ op[c] \in DeleteWheres
  <2>1. cache' = Without(m, op[c].match)
    BY <1>4 DEF Body, Effect, DeleteWheres
  <2>2. Abstract!DropAll(op[c].match)
    BY <2>1 DEF Abstract!DropAll, Abstract!Without, Without
  <2>3. op[c].match \in {Codex, Records \ Codex}
    BY <1>4 DEF DeleteWheres
  <2>4. QED
    BY <2>2, <2>3 DEF Abstract!MapNext
<1>5. CASE ~Writes(op[c], m)
  BY <1>5 DEF Body, Abstract!mapVars
<1>6. CASE Writes(op[c], m) /\ op[c] \in Gets
  BY <1>6 DEF Writes, Gets
<1>7. QED
  BY <1>1, <1>2, <1>3, <1>4, <1>5, <1>6 DEF Ops

LEMMA InitRefines == Init => Abstract!MapInit
BY DEF Init, Abstract!MapInit, Empty, Abstract!Empty

LEMMA StepRefines == IInv /\ [Next]_storeVars => [Abstract!MapNext]_(Abstract!mapVars)
<1>1. SUFFICES ASSUME IInv, [Next]_storeVars PROVE [Abstract!MapNext]_(Abstract!mapVars)
  OBVIOUS
<1>2. ASSUME NEW c \in Clients, Acquire(c) PROVE [Abstract!MapNext]_(Abstract!mapVars)
  <2>1. CASE loaded
    BY <1>1, <1>2, <2>1, BodyRefines DEF Acquire
  <2>2. CASE ~loaded
    BY <1>2, <2>2 DEF Acquire, Abstract!mapVars
  <2>3. QED
    BY <2>1, <2>2
<1>3. ASSUME NEW c \in Clients, Loaded(c) PROVE [Abstract!MapNext]_(Abstract!mapVars)
  <2>1. ~loaded
    BY <1>1, <1>3 DEF Loaded, IInv, PayloadIsCache
  <2>2. QED
    BY <1>1, <1>3, <2>1, BodyRefines DEF Loaded
<1>4. ASSUME NEW c \in Clients, Replaced(c) PROVE [Abstract!MapNext]_(Abstract!mapVars)
  <2>1. loaded /\ payload[c] = cache
    BY <1>1, <1>4 DEF Replaced, IInv, LockDiscipline, PayloadIsCache
  <2>2. Abstract!Flush
    BY <1>4, <2>1 DEF Replaced, Abstract!Flush
  <2>3. QED
    BY <2>2 DEF Abstract!MapNext
<1>5. CASE Crash
  BY <1>5 DEF Crash, Abstract!MapNext, Abstract!Crash
<1>6. CASE Start
  <2>1. ~loaded
    BY <1>1, <1>6 DEF Start, IInv, DownIsEmpty
  <2>2. Abstract!Restart
    BY <1>6, <2>1 DEF Start, Abstract!Restart, Without, Abstract!Without
  <2>3. QED
    BY <2>2 DEF Abstract!MapNext
<1>7. ASSUME NEW c \in Clients,
             \/ \E o \in Ops : Request(c, o)
             \/ LoadFailed(c) \/ TmpWritten(c) \/ PersistFailed(c)
      PROVE  UNCHANGED <<cache, loaded, file>>
  BY <1>7 DEF Request, LoadFailed, TmpWritten, PersistFailed
<1>8. CASE UNCHANGED storeVars
  BY <1>8 DEF storeVars, Abstract!mapVars
<1>9. QED
  BY <1>1, <1>2, <1>3, <1>4, <1>5, <1>6, <1>7, <1>8 DEF Next, Work, Abstract!mapVars

\* sessions.json behind its lock and cache is a durable map: for any number of
\* handlers, crashes at any step and failing writes.
THEOREM Refinement == Spec => ImplementsDurableMap
BY Invariance, InitRefines, StepRefines, PTL DEF Spec, ImplementsDurableMap, Abstract!MapSpec
=============================================================================
