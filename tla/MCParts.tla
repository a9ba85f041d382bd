------------------------------ MODULE MCParts ------------------------------
(***************************************************************************)
(* The components that share nothing with each other, for TLC: a behaviour *)
(* is one of a single component, chosen at the start, and the others stay  *)
(* where they begin.                                                       *)
(***************************************************************************)
EXTENDS MCChunkText, MCJsonStream, MCCron, Answer, Interactions, Memory, CodexThreads,
        Processes, Subagents

VARIABLE part

partsVars ==
  <<part, answerVars, chunkVars, streamVars, threadVars, processVars, memoryVars,
    interactionVars, subagentVars, cronVars>>

\* The components with more than one initial state begin in the same when they
\* stay there.
PartsInit ==
  /\ part \in {"answer", "chunks", "stream", "threads", "processes", "memory", "interactions",
               "subagents", "cron"}
  /\ AnswerInit /\ ChunkInit /\ StreamInit /\ ThreadsInit /\ ProcessInit /\ MemoryInit
  /\ InteractionInit /\ SubagentInit /\ CronInit
  /\ part # "answer" => provider = "claude"
  /\ part # "threads" => use = {"stats"}
  /\ part # "processes" => runner = "claude" /\ deaf = {}
  /\ part # "cron" => expr = Always /\ zone = UTC

Stays(p) ==
  /\ UNCHANGED part
  /\ IF p = "answer" THEN TRUE ELSE UNCHANGED answerVars
  /\ IF p = "chunks" THEN TRUE ELSE UNCHANGED chunkVars
  /\ IF p = "stream" THEN TRUE ELSE UNCHANGED streamVars
  /\ IF p = "threads" THEN TRUE ELSE UNCHANGED threadVars
  /\ IF p = "processes" THEN TRUE ELSE UNCHANGED processVars
  /\ IF p = "memory" THEN TRUE ELSE UNCHANGED memoryVars
  /\ IF p = "interactions" THEN TRUE ELSE UNCHANGED interactionVars
  /\ IF p = "subagents" THEN TRUE ELSE UNCHANGED subagentVars
  /\ IF p = "cron" THEN TRUE ELSE UNCHANGED cronVars

PartsNext ==
  \/ part = "answer" /\ AnswerNext /\ Stays("answer")
  \/ part = "chunks" /\ ChunkNext /\ Stays("chunks")
  \/ part = "stream" /\ StreamNext /\ Stays("stream")
  \/ part = "threads" /\ ThreadsNext /\ Stays("threads")
  \/ part = "processes" /\ ProcessNext /\ Stays("processes")
  \/ part = "memory" /\ MemoryNext /\ Stays("memory")
  \/ part = "interactions" /\ InteractionNext /\ Stays("interactions")
  \/ part = "subagents" /\ SubagentNext /\ Stays("subagents")
  \/ part = "cron" /\ CronNext /\ Stays("cron")

PartsSpec ==
  /\ PartsInit /\ [][PartsNext]_partsVars
  /\ ProcessFairness
  /\ WF_answerVars(part = "answer" /\ (Provide \/ Call))
  /\ WF_answerVars(StreamClosed)

\* Every component is well typed.
PartsTypeOK ==
  /\ AnswerTypeOK /\ ChunkTypeOK /\ StreamTypeOK /\ ThreadsTypeOK /\ ProcessTypeOK
  /\ MemoryTypeOK /\ InteractionTypeOK /\ SubagentTypeOK /\ CronTypeOK
=============================================================================
