-------------------------- MODULE MCAgentExecutor --------------------------
\* AgentExecutor for TLC.  No symmetry: the run checks liveness, and its two
\* callers are of different kinds.
EXTENDS AgentExecutor, TLC

HttpCaller == CHOOSE k \in Callers : TRUE
\* One caller over HTTP, the others over gRPC.
OverGrpc == Callers \ {HttpCaller}
=============================================================================
