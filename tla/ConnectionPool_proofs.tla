------------------------ MODULE ConnectionPool_proofs ------------------------
(***************************************************************************)
(* Theorems about the connection pool, for any numbers of agents, streams  *)
(* and senders.                                                            *)
(***************************************************************************)
EXTENDS ConnectionPool, TLAPS

\* The initial state of the controller is well typed.
LEMMA PoolTypedInit == Init => TypeOK
  BY DEF Init, TypeOK, StreamState, SenderState, Idle

\* Every step of an agent, a handler, a sender and the monitor keeps the types; in
\* particular a sender only ever sends on a stream, never on a missing connection.
LEMMA PoolTypedNext == TypeOK /\ [Next]_vars => TypeOK'
<1> SUFFICES ASSUME TypeOK, [Next]_vars PROVE TypeOK'
  OBVIOUS
<1> USE DEF TypeOK, StreamState
<1>1. CASE UNCHANGED vars
  BY <1>1 DEF vars
<1>2. CASE AgentStep
  BY <1>2 DEF AgentStep, Connect, Heartbeat, Message, Result, Break, Register, AddConnection
<1>3. CASE HandlerStep
  BY <1>3 DEF HandlerStep, StreamEnds, StreamNotifies, RemoveConnection, FailRunning
<1>4. CASE SenderStep
  <2>1. ASSUME NEW k \in Senders, SendSucceeds(k) PROVE TypeOK'
    <3>1. sender[k] \in SenderState /\ sender[k].at = "sending" => sender[k].agent \in Agents
      BY PoolNull DEF SenderState, Idle
    <3> QED  BY <2>1, <3>1 DEF SendSucceeds, SenderState
  <2>2. ASSUME NEW k \in Senders, SendFails(k) PROVE TypeOK'
    <3>1. sender[k] \in [at : {"sending"}, agent : Agents, stream : Streams]
      BY <2>2 DEF SendFails, SenderState, Idle
    <3>2. [sender[k] EXCEPT !.at = "notifying"] \in SenderState
      BY <3>1 DEF SenderState
    <3> QED  BY <2>2, <3>1, <3>2 DEF SendFails, RemoveConnection
  <2>3. ASSUME NEW k \in Senders, SendNotifies(k) PROVE TypeOK'
    BY <2>3 DEF SendNotifies, FailRunning, SenderState
  <2>4. ASSUME NEW k \in Senders, NEW a \in Agents, GetConnection(k, a) PROVE TypeOK'
    BY <2>4 DEF GetConnection, SenderState
  <2>5. ASSUME NEW k \in Senders, NEW a \in Agents, DisconnectAgent(k, a) PROVE TypeOK'
    BY <2>5 DEF DisconnectAgent, RemoveConnection, SenderState
  <2>6. ASSUME NEW a \in Agents, PingFails(a) PROVE TypeOK'
    BY <2>6 DEF PingFails, RemoveConnection
  <2> QED  BY <1>4, <2>1, <2>2, <2>3, <2>4, <2>5, <2>6 DEF SenderStep
<1>5. CASE MonitorStep
  BY <1>5 DEF MonitorStep, CheckConnectionHealth, Stop, GoSilent
<1> QED  BY <1>1, <1>2, <1>3, <1>4, <1>5 DEF Next

\* The pool, the handlers and the senders are well typed in every reachable state:
\* no sender holds a missing connection, whatever was removed in between.
THEOREM PoolTypeCorrect == Spec => []TypeOK
  BY PoolTypedInit, PoolTypedNext, PTL DEF Spec

-----------------------------------------------------------------------------
\* PoolHoldsLiveHandlers is inductive over the types.  A stream that registers has
\* no agent yet, so no other entry of the pool names it; a stream that ends is named
\* by the entry of its own agent only, which its handler removes first.
LEMMA PoolLiveNext == TypeOK /\ PoolHoldsLiveHandlers /\ [Next]_vars => PoolHoldsLiveHandlers'
<1> SUFFICES ASSUME TypeOK, PoolHoldsLiveHandlers, [Next]_vars PROVE PoolHoldsLiveHandlers'
  OBVIOUS
<1> USE PoolNull DEF TypeOK, StreamState, PoolHoldsLiveHandlers
<1>1. CASE UNCHANGED vars
  BY <1>1 DEF vars
<1>2. CASE AgentStep
  <2>1. ASSUME NEW s \in Streams, Connect(s) \/ Break(s) PROVE PoolHoldsLiveHandlers'
    BY <2>1 DEF Connect, Break
  <2>2. ASSUME NEW s \in Streams, Heartbeat(s) \/ Result(s) PROVE PoolHoldsLiveHandlers'
    BY <2>2 DEF Heartbeat, Message, Result
  <2>3. ASSUME NEW s \in Streams, NEW a \in Agents, Register(s, a) PROVE PoolHoldsLiveHandlers'
    BY <2>3 DEF Register, AddConnection
  <2> QED  BY <1>2, <2>1, <2>2, <2>3 DEF AgentStep
<1>3. CASE HandlerStep
  BY <1>3 DEF HandlerStep, StreamEnds, StreamNotifies, RemoveConnection
<1>4. CASE SenderStep
  BY <1>4 DEF SenderStep, SendSucceeds, SendFails, SendNotifies, GetConnection,
              DisconnectAgent, PingFails, RemoveConnection
<1>5. CASE MonitorStep
  BY <1>5 DEF MonitorStep, CheckConnectionHealth, Stop, GoSilent
<1> QED  BY <1>1, <1>2, <1>3, <1>4, <1>5 DEF Next

\* GetConnection never hands out a stream whose handler has returned or that belongs
\* to another agent: AddConnection and RemoveConnection work by agent id only, and
\* this is enough for every interleaving of handlers, senders and the monitor.
THEOREM PoolIsLive == Spec => []PoolHoldsLiveHandlers
<1>1. Init => PoolHoldsLiveHandlers
  BY DEF Init, PoolHoldsLiveHandlers
<1> QED  BY <1>1, PoolLiveNext, PoolTypeCorrect, PTL DEF Spec
=============================================================================
