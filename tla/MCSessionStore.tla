--------------------------- MODULE MCSessionStore ---------------------------
(***************************************************************************)
(* SessionStore for TLC: two handlers, and records of a Codex and of a     *)
(* Claude session.                                                         *)
(***************************************************************************)
EXTENDS SessionStore, TLC

CONSTANTS codex, claude

MCRecords == {codex, claude}
MCCodex == {codex}
=============================================================================
