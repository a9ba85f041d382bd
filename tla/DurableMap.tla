----------------------------- MODULE DurableMap -----------------------------
(***************************************************************************)
(* What the session registry promises its callers, whatever it is built    *)
(* from: a map of session keys that the running program sees, and the last *)
(* version of it that a crash cannot take away.  The durable version is    *)
(* always a whole version the program saw, never a mixture of two and      *)
(* never an older one put back over a newer one.                           *)
(***************************************************************************)
CONSTANTS Keys,        \* session keys ("discord:channel:...", "discord:dm:...")
          Records,     \* session records
          NoRecord,    \* what a lookup of an unknown key returns
          Codex        \* the records whose provider is "codex"

VARIABLES visible,     \* the map as the running program sees it
          durable      \* the map a restart would find

mapVars == <<visible, durable>>

Maps == [Keys -> Records \cup {NoRecord}]

Empty == [k \in Keys |-> NoRecord]

\* The map without the records in R.
Without(m, R) == [k \in Keys |-> IF m[k] \in R THEN NoRecord ELSE m[k]]

MapInit ==
  /\ visible = Empty
  /\ durable = Empty

Put(k, r) ==
  /\ visible' = [visible EXCEPT ![k] = r]
  /\ UNCHANGED durable

\* All records of one provider go at once.
DropAll(R) ==
  /\ visible' = Without(visible, R)
  /\ UNCHANGED durable

Flush ==
  /\ durable' = visible
  /\ UNCHANGED visible

\* A crash takes the program back to the durable version.
Crash ==
  /\ visible' = durable
  /\ UNCHANGED durable

\* A restart drops the persisted Codex sessions before anything reads the map.
Restart ==
  /\ visible = durable
  /\ durable' = Without(durable, Codex)
  /\ visible' = durable'

MapNext ==
  \/ \E k \in Keys, r \in Records \cup {NoRecord} : Put(k, r)
  \/ \E R \in {Codex, Records \ Codex} : DropAll(R)
  \/ Flush
  \/ Crash
  \/ Restart

MapSpec == MapInit /\ [][MapNext]_mapVars
=============================================================================
