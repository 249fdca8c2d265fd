--------------------------- MODULE ConnectionPool ---------------------------
(***************************************************************************)
(* The gRPC side of command dispatch (server/pkg/controller/               *)
(* grpc_task_controller.go): the streams that agents open with             *)
(* ConnectForCommands, the pool that maps an agent to one stream, the      *)
(* heartbeat monitor, and the senders.  The pool has a mutex; what happens *)
(* between two of its critical sections is visible to every other stream   *)
(* handler and sender.                                                     *)
(*                                                                         *)
(* Of the task service only HandleHostConnectionChange(host, false) is     *)
(* seen here: it fails every command of the host that runs.                *)
(***************************************************************************)
EXTENDS FiniteSets

CONSTANTS
    Agents,         \* agent ids (host ids) that messages carry
    Streams,        \* streams agents may open, each at most once
    Senders,        \* goroutines in SendCommandToAgent or DisconnectAgent
    UncalledOps,    \* are DisconnectAgent and SendHeartbeatToAgent in use?
    EmptyId,        \* the agent id "": what a message without a HostId carries
    None

ASSUME PoolNull == None \notin Agents \cup {EmptyId} /\ None \notin Streams
ASSUME PoolFlag == UncalledOps \in BOOLEAN

VARIABLES
    stream,         \* state of the handler of a stream
    agentID,        \* agentID of the handler: the first message's, or None
    connections,    \* connections[a]: the stream in the pool, or None
    silent,         \* pooled agents whose LastPing is older than the timeout
    sender,         \* what each sender is doing
    delivered,      \* agents that got a command and did not report on it yet
    running,        \* agents with a command that is recorded as running
    monitor         \* startHeartbeatMonitor runs

vars == <<stream, agentID, connections, silent, sender, delivered, running, monitor>>

\* "broken": the transport failed and Recv has not returned yet; "closing": the
\* handler removed the connection and has not told the task service yet.
StreamState == {"unused", "open", "broken", "closing", "ended"}

Idle == [at |-> "idle", agent |-> None, stream |-> None]
SenderState ==
    {Idle} \cup [at : {"sending"}, agent : Agents, stream : Streams]
           \cup [at : {"notifying"}, agent : Agents, stream : Streams \cup {None}]

TypeOK ==
    /\ stream \in [Streams -> StreamState]
    /\ agentID \in [Streams -> Agents \cup {None}]
    /\ connections \in [Agents -> Streams \cup {None}]
    /\ silent \subseteq Agents
    /\ sender \in [Senders -> SenderState]
    /\ delivered \subseteq Agents
    /\ running \subseteq Agents
    /\ monitor \in BOOLEAN

Init ==
    /\ stream = [s \in Streams |-> "unused"]
    /\ agentID = [s \in Streams |-> None]
    /\ connections = [a \in Agents |-> None]
    /\ silent = {}
    /\ sender = [k \in Senders |-> Idle]
    /\ delivered = {}
    /\ running = {}
    /\ monitor = TRUE

-----------------------------------------------------------------------------
\* AddConnection: the context of an old connection is canceled, but nothing listens
\* to it, so the old stream goes on.
AddConnection(a, s) ==
    /\ connections' = [connections EXCEPT ![a] = s]
    /\ silent' = silent \ {a}

\* mutant: the connection is marked and not deleted
MarkConnection(a) == connections' = connections /\ silent' = silent \ {a}
\* RemoveConnection: by agent, whatever stream the pool has for it.
RemoveConnection(a) ==
    /\ connections' = [connections EXCEPT ![a] = None]
    /\ silent' = silent \ {a}

\* mutant: the commands are failed only if the pool still knows the agent
FailIfPooled(a) == running' = IF connections[a] = None THEN running ELSE running \ {a}
\* HandleHostConnectionChange(a, false): by agent, whatever stream its command came by.
FailRunning(a) == running' = running \ {a}

\* A stream is opened; its agent is not known yet.
Connect(s) ==
    /\ stream[s] = "unused"
    /\ stream' = [stream EXCEPT ![s] = "open"]
    /\ UNCHANGED <<agentID, connections, silent, sender, delivered, running, monitor>>

\* The first message registers the agent.
Register(s, a) ==
    /\ stream[s] = "open" /\ agentID[s] = None
    /\ agentID' = [agentID EXCEPT ![s] = a]
    /\ AddConnection(a, s)
    /\ UNCHANGED <<stream, sender, delivered, running, monitor>>

\* A later message (a heartbeat or a result) updates LastPing of the agent's pooled
\* connection, if there is one; it does not register again.
Message(s) ==
    /\ stream[s] = "open" /\ agentID[s] # None
    /\ silent' = silent \ {agentID[s]}
    /\ UNCHANGED <<stream, agentID, connections, sender, delivered, monitor>>

Heartbeat(s) == Message(s) /\ UNCHANGED running

\* The agent reports that a command runs, or that it ended, over any stream of its
\* own: the one the command came by may be gone.  A result that is the first message
\* is a Register followed by a Result.
Result(s) ==
    LET a == agentID[s] IN
    /\ stream[s] = "open" /\ a # None
    /\ silent' = silent \ {a}
    /\ \/ a \in delivered /\ delivered' = delivered \ {a} /\ running' = running \cup {a}
       \/ a \in running /\ running' = running \ {a} /\ UNCHANGED delivered
    /\ UNCHANGED <<stream, agentID, connections, sender, monitor>>

\* The agent or the network fails in a way the transport notices.
Break(s) ==
    /\ stream[s] = "open"
    /\ stream' = [stream EXCEPT ![s] = "broken"]
    /\ UNCHANGED <<agentID, connections, silent, sender, delivered, running, monitor>>

\* Recv returns the error.  An agentID that is "" counts as unknown, also if an
\* agent registered under it.
StreamEnds(s) ==
    /\ stream[s] = "broken"
    /\ IF agentID[s] \in {None, EmptyId}
       THEN stream' = [stream EXCEPT ![s] = "ended"] /\ UNCHANGED <<connections, silent>>
       ELSE stream' = [stream EXCEPT ![s] = "closing"] /\ RemoveConnection(agentID[s])
    /\ UNCHANGED <<agentID, sender, delivered, running, monitor>>

StreamNotifies(s) ==
    /\ stream[s] = "closing"
    /\ stream' = [stream EXCEPT ![s] = "ended"]
    /\ FailRunning(agentID[s])
    /\ UNCHANGED <<agentID, connections, silent, sender, delivered, monitor>>

-----------------------------------------------------------------------------
\* mutant: the result of the lookup is not looked at
GetConnectionUnchecked(k, a) ==
    /\ sender[k] = Idle
    /\ sender' = [sender EXCEPT ![k] = [at |-> "sending", agent |-> a, stream |-> connections[a]]]
    /\ UNCHANGED <<stream, agentID, connections, silent, delivered, running, monitor>>
\* SendCommandToAgent: GetConnection, then Send on what it returned.
GetConnection(k, a) ==
    /\ sender[k] = Idle
    /\ connections[a] # None
    /\ sender' = [sender EXCEPT ![k] = [at |-> "sending", agent |-> a, stream |-> connections[a]]]
    /\ UNCHANGED <<stream, agentID, connections, silent, delivered, running, monitor>>

\* Send may still accept a message for a stream that broke; it is lost then.
SendSucceeds(k) ==
    LET s == sender[k].stream IN
    /\ sender[k].at = "sending" /\ stream[s] \in {"open", "broken"}
    /\ delivered' = IF stream[s] = "open" THEN delivered \cup {sender[k].agent} ELSE delivered
    /\ sender' = [sender EXCEPT ![k] = Idle]
    /\ UNCHANGED <<stream, agentID, connections, silent, running, monitor>>

SendFails(k) ==
    /\ sender[k].at = "sending" /\ stream[sender[k].stream] # "open"
    /\ RemoveConnection(sender[k].agent)
    /\ sender' = [sender EXCEPT ![k].at = "notifying"]
    /\ UNCHANGED <<stream, agentID, delivered, running, monitor>>

SendNotifies(k) ==
    /\ sender[k].at = "notifying"
    /\ FailRunning(sender[k].agent)
    /\ sender' = [sender EXCEPT ![k] = Idle]
    /\ UNCHANGED <<stream, agentID, connections, silent, delivered, monitor>>

\* DisconnectAgent cancels the unused context too: the stream stays open.
DisconnectAgent(k, a) ==
    /\ UncalledOps
    /\ sender[k] = Idle /\ connections[a] # None
    /\ RemoveConnection(a)
    /\ sender' = [sender EXCEPT ![k] = [at |-> "notifying", agent |-> a, stream |-> None]]
    /\ UNCHANGED <<stream, agentID, delivered, running, monitor>>

\* SendHeartbeatToAgent and BroadcastToAllAgents on a failed Send: nobody is told.
PingFails(a) ==
    /\ UncalledOps
    /\ connections[a] # None /\ stream[connections[a]] # "open"
    /\ RemoveConnection(a)
    /\ UNCHANGED <<stream, agentID, sender, delivered, running, monitor>>

-----------------------------------------------------------------------------
\* The connection timeout passes without a message for the pooled connection.
GoSilent(a) ==
    /\ connections[a] # None /\ a \notin silent
    /\ silent' = silent \cup {a}
    /\ UNCHANGED <<stream, agentID, connections, sender, delivered, running, monitor>>

\* checkConnectionHealth: the task service is not told.
CheckConnectionHealth ==
    /\ monitor /\ silent # {}
    /\ connections' = [a \in Agents |-> IF a \in silent THEN None ELSE connections[a]]
    /\ silent' = {}
    /\ UNCHANGED <<stream, agentID, sender, delivered, running, monitor>>

Stop ==
    /\ monitor
    /\ monitor' = FALSE
    /\ connections' = [a \in Agents |-> None]
    /\ silent' = {}
    /\ UNCHANGED <<stream, agentID, sender, delivered, running>>

-----------------------------------------------------------------------------
AgentStep ==
    \E s \in Streams : \/ Connect(s) \/ Heartbeat(s) \/ Result(s) \/ Break(s)
                       \/ \E a \in Agents : Register(s, a)

HandlerStep == \E s \in Streams : StreamEnds(s) \/ StreamNotifies(s)

SenderStep ==
    \/ \E k \in Senders : SendSucceeds(k) \/ SendFails(k) \/ SendNotifies(k)
    \/ \E k \in Senders, a \in Agents : GetConnection(k, a) \/ DisconnectAgent(k, a)
    \/ \E a \in Agents : PingFails(a)

MonitorStep == CheckConnectionHealth \/ Stop \/ \E a \in Agents : GoSilent(a)

Next == AgentStep \/ HandlerStep \/ SenderStep \/ MonitorStep

Spec == Init /\ [][Next]_vars

\* A handler whose Recv failed goes on, a sender that found its stream broken tells
\* the task service, and the monitor's ticker fires.  Nothing is assumed of agents
\* and networks.
FairSpec ==
    /\ Spec
    /\ \A s \in Streams : WF_vars(StreamEnds(s)) /\ WF_vars(StreamNotifies(s))
    /\ \A k \in Senders : WF_vars(SendNotifies(k))
    /\ WF_vars(CheckConnectionHealth)
-----------------------------------------------------------------------------
(***************************************************************************)
(* Properties.                                                             *)
(***************************************************************************)

\* The pool never offers a stream whose handler has left its loop, nor one of
\* another agent, although senders, handlers and the monitor remove by agent and a
\* handler may register while another one of the same agent ends.  (A connection
\* registered under "" is left in the pool by its handler, until the monitor's check.)
PoolHoldsLiveHandlers ==
    \A a \in Agents \ {EmptyId} : connections[a] # None =>
        /\ agentID[connections[a]] = a
        /\ stream[connections[a]] \in {"open", "broken"}

\* TASK_DISPATCH_IMPLEMENTATION.md, "connections are cleaned up": a broken stream
\* leaves the pool, unless it is registered under "".
BrokenLeavesPool ==
    \A a \in Agents \ {EmptyId}, s \in Streams :
        connections[a] = s /\ stream[s] = "broken" ~> connections[a] # s

\* TASK_DISPATCH_IMPLEMENTATION.md, "related commands are marked as failed": a
\* command that runs on an agent whose stream broke does not stay running, also if
\* that stream had been replaced in the pool or given up, unless it is registered
\* under "".
BrokenFailsCommands ==
    \A s \in Streams :
        stream[s] = "broken" /\ agentID[s] \in running \ {EmptyId} ~> agentID[s] \notin running

-----------------------------------------------------------------------------
(***************************************************************************)
(* What the documents say and the code does not do.  TLC refutes each of   *)
(* these; the README says with which constants.                            *)
(***************************************************************************)

\* TASK_DISPATCH_IMPLEMENTATION.md, "an agent recovers by reconnecting": the end of
\* one stream does not take a later, open one out of the pool.
ReconnectionSurvives ==
    [][ \A a \in Agents, s, old \in Streams :
            connections[a] = s /\ stream[s] = "open" /\ old # s
            /\ stream[old] = "broken" /\ stream'[old] = "closing" => connections'[a] = s ]_vars

\* design.md, "resynchronised when the network recovers": an agent that is heard
\* again, while the server is up, can be reached again.
HeardIsReachable ==
    [][ \A s \in Streams : monitor /\ Message(s) => connections'[agentID[s]] # None ]_vars

\* requirements.md 3.3: when the connection of an agent is given up while the
\* server is up, its running commands are failed.
GivenUpFailsCommands ==
    \A a \in Agents : monitor /\ a \in running /\ connections[a] = None
                     ~> a \notin running \/ connections[a] # None \/ ~monitor
=============================================================================
