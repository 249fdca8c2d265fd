------------------------ MODULE HostAdmission_proofs ------------------------
(***************************************************************************)
(* Theorems about the admission of hosts, for any hosts, goroutines and    *)
(* administrator operations and any number of faults.                      *)
(***************************************************************************)
EXTENDS HostAdmission, TLAPS

\* sync.RWMutex: of two goroutines past their lock, both only read.
LockExclusion == \A c, d \in Calls : c # d /\ Holds(c) /\ Holds(d) => Shared(c) /\ Shared(d)

\* What an operation found out about the row is still so while it holds the lock.
FoundAbsent(c) ==
  call[c].op = "register" /\ call[c].pc \in {"is_pending", "get", "set"} => row[call[c].host] # "approved"

FoundApproved(c) ==
  \/ call[c].op \in {"register", "update"} /\ call[c].pc \in {"save", "fill"}
  \/ call[c].op = "get" /\ call[c].pc = "fill"
  => row[call[c].host] = "approved"

FindIsCurrent == \A c \in Calls : FoundAbsent(c) /\ FoundApproved(c)

-----------------------------------------------------------------------------
\* What a goroutine does, field by field.
LEMMA CallFields ==
    ASSUME NEW x \in CallState
    PROVE  \/ x = Idle
           \/ /\ x.op \in Operations /\ x.host \in Hosts /\ x.pc \in Steps(x.op)
              /\ x = [op |-> x.op, host |-> x.host, pc |-> x.pc]
  BY DEF CallState

LEMMA CallBuilt ==
    ASSUME NEW op \in Operations, NEW h \in Hosts, NEW pc \in Steps(op)
    PROVE  [op |-> op, host |-> h, pc |-> pc] \in CallState
  BY DEF CallState

\* Idle goroutines have no operation.
LEMMA IdleCall == Idle \in CallState /\ Idle.op = "none" /\ Idle.pc = "none" /\ "none" \notin Operations
  BY DEF Idle, CallState, Operations

\* The first command of an operation is one of its commands.
LEMMA FirstIsStep ==
    ASSUME NEW op \in Operations
    PROVE  /\ FirstStep(op) \in Steps(op) /\ FirstStep(op) # "lock"
           /\ Locking(op) => "lock" \in Steps(op)
  BY DEF FirstStep, Steps, Operations, Locking

\* Going to a command of the same operation.
LEMMA GotoCall ==
    ASSUME TypeOK, NEW c \in Calls, call[c].op \in Operations, NEW pc \in Steps(call[c].op), Goto(c, pc)
    PROVE  /\ call' \in [Calls -> CallState]
           /\ call'[c].op = call[c].op /\ call'[c].host = call[c].host /\ call'[c].pc = pc
           /\ \A d \in Calls \ {c} : call'[d] = call[d]
<1>1. /\ call[c].host \in Hosts
      /\ call[c] = [op |-> call[c].op, host |-> call[c].host, pc |-> call[c].pc]
  BY CallFields, IdleCall DEF TypeOK
<1>2. call' = [call EXCEPT ![c] = [op |-> call[c].op, host |-> call[c].host, pc |-> pc]]
  <2>1. \A o, h, p : [[op |-> o, host |-> h, pc |-> p] EXCEPT !.pc = pc] = [op |-> o, host |-> h, pc |-> pc]
    OBVIOUS
  <2>2. [call[c] EXCEPT !.pc = pc] = [op |-> call[c].op, host |-> call[c].host, pc |-> pc]
    BY <1>1, <2>1
  <2>3. call' = [call EXCEPT ![c] = [call[c] EXCEPT !.pc = pc]]
    BY DEF Goto
  <2> QED  BY <2>2, <2>3
<1>3. [op |-> call[c].op, host |-> call[c].host, pc |-> pc] \in CallState
  BY <1>1, CallBuilt
<1> QED  BY <1>2, <1>3 DEF TypeOK

\* A handler that returns is idle, and the agent that waits for it hears the reply.
LEMMA ReturnCall ==
    ASSUME TypeOK, NEW c \in Calls, call[c].op \in Operations, NEW out, Return(c, out)
    PROVE  /\ call' \in [Calls -> CallState] /\ call'[c] = Idle
           /\ \A d \in Calls \ {c} : call'[d] = call[d]
           /\ agent' \in [Hosts -> AgentState]
<1>1. call[c].host \in Hosts
  BY CallFields, IdleCall DEF TypeOK
<1>2. \A a \in AgentState : Hears(a, call[c].op, out) \in AgentState
  BY DEF AgentState, Hears
<1> QED  BY <1>1, <1>2, IdleCall DEF Return, TypeOK

-----------------------------------------------------------------------------
\* A command of c: c goes on with its operation or is idle, and nobody else moves.
Moves(c) ==
  /\ call[c].op \in Operations /\ call[c].pc # "lock"
  /\ call' \in [Calls -> CallState] /\ agent' \in [Hosts -> AgentState]
  /\ \A d \in Calls \ {c} : call'[d] = call[d]
  /\ \/ call'[c] = Idle
     \/ call'[c].op = call[c].op /\ call'[c].host = call[c].host /\ call'[c].pc # "lock"

LEMMA GotoMoves ==
    ASSUME TypeOK, NEW c \in Calls, call[c].op \in Operations, call[c].pc # "lock",
           NEW pc \in Steps(call[c].op) \ {"lock"}, Goto(c, pc), UNCHANGED agent
    PROVE  Moves(c)
  BY GotoCall DEF Moves, TypeOK

LEMMA ReturnMoves ==
    ASSUME TypeOK, NEW c \in Calls, call[c].op \in Operations, call[c].pc # "lock",
           NEW out, Return(c, out)
    PROVE  Moves(c)
  BY ReturnCall DEF Moves

\* Every command of a request is such a move, also when it fails.
LEMMA StepMoves == ASSUME TypeOK, NEW c \in Calls, Step(c) PROVE Moves(c)
<1> USE GotoMoves, ReturnMoves DEF At, Operations, Steps
<1>1. CASE RegisterFind(c)
  BY <1>1 DEF RegisterFind
<1>2. CASE RegisterIsPending(c)
  BY <1>2 DEF RegisterIsPending
<1>3. CASE UpdatePendingGet(c)
  BY <1>3 DEF UpdatePendingGet
<1>4. CASE PendingSet(c)
  BY <1>4 DEF PendingSet
<1>5. CASE SaveHost(c)
  BY <1>5 DEF SaveHost
<1>6. CASE CacheHost(c)
  BY <1>6 DEF CacheHost
<1>7. CASE FindHost(c, "update", "save") \/ FindHost(c, "get", "fill")
  BY <1>7 DEF FindHost
<1>8. CASE GetCached(c)
  BY <1>8 DEF GetCached
<1>9. CASE DeleteRow(c)
  BY <1>9 DEF DeleteRow
<1>10. CASE Evict(c)
  BY <1>10 DEF Evict
<1>11. CASE PendingGet(c, "approve", "find") \/ PendingGet(c, "reject", "del")
  BY <1>11 DEF PendingGet
<1>12. CASE ApproveFind(c)
  BY <1>12 DEF ApproveFind
<1>13. CASE ApproveSave(c)
  BY <1>13 DEF ApproveSave
<1>14. CASE ApproveCreate(c)
  BY <1>14 DEF ApproveCreate
<1>15. CASE PendingDel(c, "approve") \/ PendingDel(c, "reject")
  BY <1>15 DEF PendingDel
<1>16. CASE ReportFind(c)
  BY <1>16 DEF ReportFind
<1>17. CASE ReportSave(c)
  BY <1>17 DEF ReportSave
<1>18. CASE CacheStatus(c)
  BY <1>18 DEF CacheStatus
<1> QED  BY <1>1, <1>2, <1>3, <1>4, <1>5, <1>6, <1>7, <1>8, <1>9, <1>10, <1>11, <1>12, <1>13,
            <1>14, <1>15, <1>16, <1>17, <1>18 DEF Step

LEMMA FailMoves == ASSUME TypeOK, NEW c \in Calls, CommandFails(c) PROVE Moves(c)
<1>1. CASE Missed(call[c].op, call[c].pc) = "none"
  BY <1>1, ReturnMoves DEF CommandFails
<1>2. CASE Missed(call[c].op, call[c].pc) # "none"
  <2>1. call[c].op \in Operations /\ Missed(call[c].op, call[c].pc) \in Steps(call[c].op) \ {"lock"}
    BY <1>2 DEF CommandFails, Missed, Steps
  <2> QED  BY <1>2, <2>1, GotoMoves DEF CommandFails
<1> QED  BY <1>1, <1>2

\* A request that arrives is idle no more and waits for its lock, if it has one.
LEMMA BeginCall ==
    ASSUME TypeOK, NEW c \in Calls, NEW op \in Operations, NEW h \in Hosts, Begin(c, op, h)
    PROVE  /\ call' \in [Calls -> CallState] /\ call[c] = Idle
           /\ call'[c].op = op /\ call'[c].host = h
           /\ call'[c].pc = IF Locking(op) THEN "lock" ELSE FirstStep(op)
           /\ \A d \in Calls \ {c} : call'[d] = call[d]
<1> DEFINE pc == IF Locking(op) THEN "lock" ELSE FirstStep(op)
<1>1. [op |-> op, host |-> h, pc |-> pc] \in CallState
  BY FirstIsStep, CallBuilt
<1> QED  BY <1>1 DEF Begin, TypeOK

\* The commands write only known hosts into the tables.
LEMMA StepTables ==
    ASSUME TypeOK, NEW c \in Calls, Step(c)
    PROVE  /\ row' \in [Hosts -> {"absent", "approved", "deleted"}]
           /\ pending' \subseteq Hosts /\ cache' \subseteq Hosts /\ status' \subseteq Hosts
           /\ faults' = faults
<1>1. call[c].host \in Hosts
  BY StepMoves, CallFields, IdleCall DEF Moves, TypeOK
<1> QED  BY <1>1 DEF TypeOK, Step, RegisterFind, RegisterIsPending, UpdatePendingGet, PendingSet, SaveHost,
    CacheHost, FindHost, GetCached, DeleteRow, Evict, PendingGet, ApproveFind, ApproveSave, ApproveCreate,
    PendingDel, ReportFind, ReportSave, CacheStatus

\* Every step of requests, agents and faults keeps the types.
LEMMA AdmissionTyped == TypeOK /\ [Next]_vars => TypeOK'
<1> SUFFICES ASSUME TypeOK, [Next]_vars PROVE TypeOK'
  OBVIOUS
<1>1. CASE UNCHANGED vars
  BY <1>1 DEF vars, TypeOK
<1>2. ASSUME NEW c \in Calls, NEW op \in AdminOps, NEW h \in Hosts, Request(c, op, h) PROVE TypeOK'
  BY <1>2, BeginCall, OpsAssumption DEF Request, TypeOK
<1>3. ASSUME NEW c \in Calls, NEW h \in Hosts, AgentRegisters(c, h) \/ AgentReports(c, h) PROVE TypeOK'
  <2>1. call' \in [Calls -> CallState]
    BY <1>3, BeginCall DEF AgentRegisters, AgentReports, Operations
  <2>2. agent' = [agent EXCEPT ![h].rpc = c]
    BY <1>3 DEF AgentRegisters, AgentReports
  <2>3. agent' \in [Hosts -> AgentState]
    BY <2>2 DEF TypeOK, AgentState
  <2> QED  BY <1>3, <2>1, <2>3 DEF AgentRegisters, AgentReports, TypeOK
<1>4. ASSUME NEW h \in Hosts, AgentConnects(h) PROVE TypeOK'
  BY <1>4 DEF AgentConnects, TypeOK, AgentState
<1>5. ASSUME NEW h \in Hosts, ExpireKey(h) PROVE TypeOK'
  BY <1>5 DEF ExpireKey, Expire, TypeOK
<1>6. ASSUME NEW h \in Hosts, Timeout(h) PROVE TypeOK'
  <2>1. agent' \in [Hosts -> AgentState]
    BY <1>6 DEF Timeout, Disconnected, TypeOK, AgentState
  <2> QED  BY <1>6, <2>1, FaultsAssumption DEF Timeout, Fault, TypeOK
<1>7. ASSUME NEW h \in Hosts, AgentRestarts(h) PROVE TypeOK'
  <2>1. agent' \in [Hosts -> AgentState]
    BY <1>7 DEF AgentRestarts, TypeOK, AgentState
  <2> QED  BY <1>7, <2>1, FaultsAssumption DEF AgentRestarts, Fault, TypeOK
<1>8. ASSUME NEW c \in Calls, Lock(c) PROVE TypeOK'
  <2>1. call[c].op \in Operations
    BY <1>8, CallFields, IdleCall DEF Lock, TypeOK
  <2> QED  BY <1>8, <2>1, FirstIsStep, GotoCall DEF Lock, TypeOK
<1>9. ASSUME NEW c \in Calls, Step(c) PROVE TypeOK'
  BY <1>9, StepMoves, StepTables DEF Moves, TypeOK
<1>10. ASSUME NEW c \in Calls, CommandFails(c) PROVE TypeOK'
  BY <1>10, FailMoves, FaultsAssumption DEF Moves, CommandFails, Fault, TypeOK
<1>11. CASE ServerRestarts
  <2>1. agent' \in [Hosts -> AgentState]
    BY <1>11 DEF ServerRestarts, Disconnected, TypeOK, AgentState
  <2> QED  BY <1>11, <2>1, IdleCall, FaultsAssumption DEF ServerRestarts, Fault, TypeOK
<1> QED  BY <1>1, <1>2, <1>3, <1>4, <1>5, <1>6, <1>7, <1>8, <1>9, <1>10, <1>11 DEF Next

\* The tables, the goroutines and the agents are well typed in every reachable
\* state: no operation ever issues a command that is not its own.
THEOREM AdmissionTypeCorrect == Spec => []TypeOK
<1>1. Init => TypeOK
  BY FaultsAssumption, IdleCall DEF Init, TypeOK, AgentState
<1> QED  BY <1>1, AdmissionTyped, PTL DEF Spec

-----------------------------------------------------------------------------
\* A goroutine that moves holds a lock afterwards only if it held it before.
LEMMA MovesHolds ==
    ASSUME NEW c \in Calls, Moves(c), Holds(c)'
    PROVE  Holds(c) /\ (Shared(c)' <=> Shared(c))
  BY IdleCall DEF Moves, Holds, Shared

\* The exclusion of the RWMutex is kept by every step.
LEMMA LockNext == TypeOK /\ LockExclusion /\ [Next]_vars => LockExclusion'
<1> SUFFICES ASSUME TypeOK, LockExclusion, [Next]_vars,
                    NEW c \in Calls, NEW d \in Calls, c # d, Holds(c)', Holds(d)'
             PROVE  Shared(c)' /\ Shared(d)'
  BY DEF LockExclusion
<1> DEFINE Goal == Shared(c)' /\ Shared(d)'
<1>0. Holds(c) /\ Holds(d) => Shared(c) /\ Shared(d)
  BY DEF LockExclusion
<1>1. CASE UNCHANGED call
  BY <1>0, <1>1 DEF Holds, Shared
<1>2. ASSUME NEW b \in Calls, NEW op \in Operations, NEW h \in Hosts, Begin(b, op, h) PROVE Goal
  <2>1. b # c /\ b # d
    BY <1>2, BeginCall DEF Holds
  <2> QED  BY <1>0, <1>2, <2>1, BeginCall DEF Holds, Shared
<1>3. ASSUME NEW b \in Calls, Lock(b) PROVE Goal
  <2>1. /\ call'[b].op = call[b].op
        /\ \A a \in Calls \ {b} : call'[a] = call[a]
    <3>1. call[b].op \in Operations
      BY <1>3, CallFields, IdleCall DEF Lock, TypeOK
    <3> QED  BY <1>3, <3>1, FirstIsStep, GotoCall DEF Lock
  <2>2. \A a \in Calls \ {b} : Holds(a) => Shared(a) /\ Shared(b)
    BY <1>3 DEF Lock, CanLock
  <2> QED  BY <1>0, <2>1, <2>2 DEF Holds, Shared
<1>4. ASSUME NEW b \in Calls, Moves(b) PROVE Goal
  <2>1. /\ Holds(c) /\ (Shared(c)' <=> Shared(c))
        /\ Holds(d) /\ (Shared(d)' <=> Shared(d))
    BY <1>4, MovesHolds DEF Moves, Holds, Shared
  <2> QED  BY <1>0, <2>1
<1>5. CASE ServerRestarts
  BY <1>5, IdleCall DEF ServerRestarts, Holds
<1> QED
  BY <1>1, <1>2, <1>3, <1>4, <1>5, StepMoves, FailMoves, OpsAssumption
  DEF Next, vars, Request, AgentRegisters, AgentReports, AgentConnects, ExpireKey, Timeout, AgentRestarts,
      Operations

\* A step that changes a row is a command of DeleteHost or ApproveHost under the lock.
LEMMA RowChange ==
    ASSUME TypeOK, [Next]_vars
    PROVE  \/ UNCHANGED row
           \/ \E c \in Calls : /\ DeleteRow(c) \/ ApproveCreate(c)
                              /\ Holds(c) /\ ~Shared(c) /\ Moves(c)
<1>1. ASSUME NEW c \in Calls, Step(c) PROVE UNCHANGED row \/ DeleteRow(c) \/ ApproveCreate(c)
  BY <1>1 DEF Step, RegisterFind, RegisterIsPending, UpdatePendingGet, PendingSet, SaveHost, CacheHost,
    FindHost, GetCached, Evict, PendingGet, ApproveFind, ApproveSave, PendingDel, ReportFind, ReportSave,
    CacheStatus
<1>2. ASSUME NEW c \in Calls, DeleteRow(c) \/ ApproveCreate(c)
      PROVE  Holds(c) /\ ~Shared(c) /\ Moves(c)
  BY <1>2, StepMoves DEF DeleteRow, ApproveCreate, At, Holds, Shared, Operations, Locking, Step
<1> QED
  BY <1>1, <1>2 DEF Next, vars, Request, AgentRegisters, AgentReports, AgentConnects, ExpireKey, Timeout,
      AgentRestarts, Lock, CommandFails, ServerRestarts

\* What a goroutine finds out by a command of its own is so.
LEMMA OwnFind ==
    ASSUME TypeOK, NEW c \in Calls, FoundAbsent(c), FoundApproved(c), UNCHANGED row,
           Step(c) \/ CommandFails(c)
    PROVE  (FoundAbsent(c) /\ FoundApproved(c))'
<1> USE DEF FoundAbsent, FoundApproved
<1>1. Moves(c)
  BY StepMoves, FailMoves
<1>2. CASE call'[c] = Idle
  BY <1>2, IdleCall
<1>3. CASE call'[c] # Idle
  <2>1. call'[c].op = call[c].op /\ call'[c].host = call[c].host /\ call[c] \in CallState /\ call[c] # Idle
    BY <1>1, <1>3, IdleCall DEF Moves, TypeOK
  <2>2. ASSUME NEW pc, Goto(c, pc) PROVE call'[c].pc = pc
    <3>1. call[c] = [op |-> call[c].op, host |-> call[c].host, pc |-> call[c].pc]
      BY <2>1, CallFields
    <3> QED  BY <2>2, <3>1 DEF Goto, TypeOK
  <2>3. ASSUME NEW out, Return(c, out) PROVE FALSE
    BY <1>3, <2>3 DEF Return, TypeOK
  <2>4. CASE CommandFails(c)
    BY <2>1, <2>2, <2>3, <2>4 DEF CommandFails, Missed
  <2>5. CASE RegisterFind(c) \/ RegisterIsPending(c) \/ UpdatePendingGet(c)
    BY <2>1, <2>2, <2>3, <2>5 DEF RegisterFind, RegisterIsPending, UpdatePendingGet, At, Visible
  <2>6. CASE SaveHost(c) \/ FindHost(c, "update", "save") \/ FindHost(c, "get", "fill") \/ GetCached(c)
    BY <2>1, <2>2, <2>3, <2>6 DEF SaveHost, FindHost, GetCached, At, Visible
  <2>7. CASE call[c].op \notin {"register", "update", "get"}
    BY <2>1, <2>7
  <2>8. CASE PendingSet(c) \/ CacheHost(c)
    BY <2>3, <2>8 DEF PendingSet, CacheHost
  <2> QED
    BY <2>4, <2>5, <2>6, <2>7, <2>8 DEF Step, DeleteRow, Evict, PendingGet, ApproveFind, ApproveSave,
      ApproveCreate, PendingDel, ReportFind, ReportSave, CacheStatus, At
<1> QED  BY <1>2, <1>3

\* What a query found stays true for as long as the finder holds the lock.
LEMMA FindNext == TypeOK /\ LockExclusion /\ FindIsCurrent /\ [Next]_vars => FindIsCurrent'
<1> SUFFICES ASSUME TypeOK, LockExclusion, FindIsCurrent, [Next]_vars, NEW d \in Calls
             PROVE  (FoundAbsent(d) /\ FoundApproved(d))'
  BY DEF FindIsCurrent
<1> DEFINE Goal == (FoundAbsent(d) /\ FoundApproved(d))'
<1> USE DEF FoundAbsent, FoundApproved
<1>0. FoundAbsent(d) /\ FoundApproved(d)
  BY DEF FindIsCurrent
<1>1. ASSUME NEW c \in Calls, DeleteRow(c) \/ ApproveCreate(c), Holds(c), ~Shared(c), Moves(c) PROVE Goal
  <2>1. CASE d = c
    BY <1>1, <2>1, IdleCall DEF DeleteRow, ApproveCreate, At, Moves
  <2>2. CASE d # c
    <3>1. call'[d] = call[d] /\ ~Holds(d)
      BY <1>1, <2>2 DEF Moves, LockExclusion
    <3> QED  BY <3>1 DEF Holds, Locking, Operations
  <2> QED  BY <2>1, <2>2
<1>2. CASE UNCHANGED row /\ call'[d] = call[d]
  BY <1>0, <1>2
<1>3. CASE UNCHANGED row /\ (Step(d) \/ CommandFails(d))
  BY <1>0, <1>3, OwnFind
<1>4. ASSUME NEW op \in Operations, NEW h \in Hosts, Begin(d, op, h) PROVE Goal
  BY <1>4, BeginCall DEF Locking
<1>5. CASE Lock(d)
  <2>1. call[d].op \in Operations
    BY <1>5, CallFields, IdleCall DEF Lock, TypeOK
  <2>2. call'[d].op = call[d].op /\ call'[d].pc = FirstStep(call[d].op)
    BY <1>5, <2>1, FirstIsStep, GotoCall DEF Lock
  <2> QED  BY <2>2 DEF FirstStep
<1>6. CASE ServerRestarts
  BY <1>6, IdleCall DEF ServerRestarts
<1>7. ASSUME NEW c \in Calls \ {d}, Step(c) \/ CommandFails(c) \/ Lock(c) PROVE call'[d] = call[d]
  BY <1>7, StepMoves, FailMoves DEF Moves, Lock, Goto, TypeOK
<1>8. ASSUME NEW c \in Calls \ {d}, NEW op, NEW h, Begin(c, op, h) PROVE call'[d] = call[d]
  BY <1>8 DEF Begin, TypeOK
<1>9. CASE UNCHANGED row
  BY <1>2, <1>3, <1>4, <1>5, <1>6, <1>7, <1>8, <1>9, OpsAssumption
  DEF Next, vars, Request, AgentRegisters, AgentReports, AgentConnects, ExpireKey, Timeout, AgentRestarts,
      Operations
<1> QED  BY <1>1, <1>9, RowChange

-----------------------------------------------------------------------------
\* A step after which nothing has failed yet is not a fault.
LEMMA NoFault ==
    ASSUME TypeOK, [Next]_vars, faults' = 0
    PROVE  /\ faults = 0
           /\ ~Fault
           /\ \A c \in Calls : ~CommandFails(c)
           /\ ~ServerRestarts
<1>1. faults \in Nat
  BY FaultsAssumption DEF TypeOK
<1>2. ~Fault
  BY <1>1 DEF Fault
<1>3. faults' = faults \/ Fault
  BY StepTables DEF Next, vars, Request, AgentRegisters, AgentReports, AgentConnects, ExpireKey, Timeout,
      AgentRestarts, Lock, CommandFails, ServerRestarts
<1> QED  BY <1>2, <1>3 DEF CommandFails, ServerRestarts

\* Without faults only its own commands move a goroutine that is past its lock.
LEMMA OwnMove ==
    ASSUME TypeOK, [Next]_vars, faults' = 0, NEW b \in Calls, call[b].op \in Operations, call[b].pc # "lock"
    PROVE  call'[b] = call[b] \/ Step(b)
<1>1. ASSUME NEW c \in Calls \ {b}, Step(c) \/ CommandFails(c) \/ Lock(c) PROVE call'[b] = call[b]
  BY <1>1, StepMoves, FailMoves DEF Moves, Lock, Goto, TypeOK
<1>2. ASSUME NEW c \in Calls, NEW op, NEW h, Begin(c, op, h) PROVE call'[b] = call[b]
  BY <1>2, IdleCall DEF Begin, TypeOK
<1>3. ~Lock(b)
  BY DEF Lock
<1> QED
  BY <1>1, <1>2, <1>3, NoFault
  DEF Next, vars, Request, AgentRegisters, AgentReports, AgentConnects, ExpireKey, Timeout, AgentRestarts

\* Only a registration puts a host on the list.
LEMMA PendingGrows ==
    ASSUME TypeOK, [Next]_vars, NEW h \in pending' \ pending
    PROVE  \E c \in Calls : PendingSet(c) /\ call[c].host = h
  BY DEF Next, vars, Request, AgentRegisters, AgentReports, AgentConnects, ExpireKey, Timeout, AgentRestarts,
    Lock, CommandFails, ServerRestarts, Step, RegisterFind, RegisterIsPending, UpdatePendingGet, PendingSet,
    SaveHost, CacheHost, FindHost, GetCached, DeleteRow, Evict, PendingGet, ApproveFind, ApproveSave,
    ApproveCreate, PendingDel, ReportFind, ReportSave, CacheStatus

\* Only cacheHost puts a host into the cache.
LEMMA CacheGrows ==
    ASSUME TypeOK, [Next]_vars, NEW h \in cache' \ cache
    PROVE  \E c \in Calls : CacheHost(c) /\ call[c].host = h
  BY DEF Next, vars, Request, AgentRegisters, AgentReports, AgentConnects, ExpireKey, Expire, Timeout,
    AgentRestarts, Lock, CommandFails, ServerRestarts, Step, RegisterFind, RegisterIsPending,
    UpdatePendingGet, PendingSet, SaveHost, CacheHost, FindHost, GetCached, DeleteRow, Evict, PendingGet,
    ApproveFind, ApproveSave, ApproveCreate, PendingDel, ReportFind, ReportSave, CacheStatus

Inv == TypeOK /\ LockExclusion /\ FindIsCurrent /\ PendingIsWaiting /\ CacheIsCurrent

\* The list of waiting hosts stays clear of admitted ones.
LEMMA WaitingNext == Inv /\ [Next]_vars => PendingIsWaiting'
<1> SUFFICES ASSUME Inv, [Next]_vars, faults' = 0, NEW h \in pending', row'[h] = "approved"
             PROVE  Doing("approve", "del", h)'
  BY DEF PendingIsWaiting
<1>0. TypeOK /\ LockExclusion /\ FindIsCurrent /\ faults = 0
  BY NoFault DEF Inv
\* An approval under way stays in its place, or takes the host off the list.
<1>1. ASSUME NEW b \in Calls, At(b, "approve", "del"), call[b].host = h
      PROVE  Doing("approve", "del", h)'
  <2>1. ~Step(b)
    <3>1. Step(b) => PendingDel(b, "approve")
      BY <1>1 DEF Step, RegisterFind, RegisterIsPending, UpdatePendingGet, PendingSet, SaveHost, CacheHost,
        FindHost, GetCached, DeleteRow, Evict, PendingGet, ApproveFind, ApproveSave, ApproveCreate,
        PendingDel, ReportFind, ReportSave, CacheStatus, At
    <3> QED  BY <1>1, <3>1 DEF PendingDel
  <2>2. call'[b] = call[b]
    BY <1>0, <1>1, <2>1, OwnMove DEF At, Operations
  <2> QED  BY <1>1, <2>2 DEF Doing, At
<1>2. CASE h \in pending /\ row[h] = "approved"
  BY <1>0, <1>1, <1>2 DEF Inv, PendingIsWaiting, Doing
\* The approval itself.
<1>3. CASE row[h] # "approved"
  <2>1. PICK c \in Calls : (DeleteRow(c) \/ ApproveCreate(c)) /\ Moves(c)
    BY <1>0, <1>3, RowChange
  <2>2. ApproveCreate(c) /\ call[c].host = h /\ Goto(c, "del") /\ At(c, "approve", "create")
    BY <1>0, <1>3, <2>1 DEF DeleteRow, ApproveCreate, TypeOK
  <2>3. call'[c].op = "approve" /\ call'[c].host = h /\ call'[c].pc = "del"
    BY <1>0, <2>2, GotoCall DEF At, Steps, Operations
  <2> QED  BY <2>3 DEF Doing, At
\* A registration found the host not admitted and still holds the lock.
<1>4. CASE h \notin pending /\ row[h] = "approved"
  <2>1. PICK c \in Calls : PendingSet(c) /\ call[c].host = h
    BY <1>0, <1>4, PendingGrows
  <2> QED  BY <1>0, <1>4, <2>1 DEF PendingSet, At, FindIsCurrent, FoundAbsent
<1> QED  BY <1>2, <1>3, <1>4

\* The cache stays clear of deleted hosts.
LEMMA CurrentNext == Inv /\ [Next]_vars => CacheIsCurrent'
<1> SUFFICES ASSUME Inv, [Next]_vars, faults' = 0, NEW h \in cache', row'[h] # "approved"
             PROVE  Doing("delete", "evict", h)'
  BY DEF CacheIsCurrent
<1>0. TypeOK /\ LockExclusion /\ FindIsCurrent /\ faults = 0
  BY NoFault DEF Inv
\* A deletion under way stays in its place, or takes the host out of the cache.
<1>1. ASSUME NEW b \in Calls, At(b, "delete", "evict"), call[b].host = h
      PROVE  Doing("delete", "evict", h)'
  <2>1. ~Step(b)
    <3>1. Step(b) => Evict(b)
      BY <1>1 DEF Step, RegisterFind, RegisterIsPending, UpdatePendingGet, PendingSet, SaveHost, CacheHost,
        FindHost, GetCached, DeleteRow, Evict, PendingGet, ApproveFind, ApproveSave, ApproveCreate,
        PendingDel, ReportFind, ReportSave, CacheStatus, At
    <3> QED  BY <1>1, <3>1 DEF Evict
  <2>2. call'[b] = call[b]
    BY <1>0, <1>1, <2>1, OwnMove DEF At, Operations
  <2> QED  BY <1>1, <2>2 DEF Doing, At
<1>2. CASE h \in cache /\ row[h] # "approved"
  BY <1>0, <1>1, <1>2 DEF Inv, CacheIsCurrent, Doing
\* The deletion itself.
<1>3. CASE row[h] = "approved"
  <2>1. PICK c \in Calls : (DeleteRow(c) \/ ApproveCreate(c)) /\ Moves(c)
    BY <1>0, <1>3, RowChange
  <2>2. DeleteRow(c) /\ call[c].host = h
    BY <1>0, <1>3, <2>1 DEF DeleteRow, ApproveCreate, TypeOK
  <2>3. call'[c].op = "delete" /\ call'[c].host = h /\ call'[c].pc = "evict"
    BY <1>0, <2>2, GotoCall DEF DeleteRow, At, Steps, Operations
  <2> QED  BY <2>3 DEF Doing, At
\* cacheHost runs under the lock with which its operation found the row.
<1>4. CASE h \notin cache /\ row[h] # "approved"
  <2>1. PICK c \in Calls : CacheHost(c) /\ call[c].host = h
    BY <1>0, <1>4, CacheGrows
  <2> QED  BY <1>0, <1>4, <2>1 DEF CacheHost, At, FindIsCurrent, FoundApproved
<1> QED  BY <1>2, <1>3, <1>4

\* The invariant holds in every reachable state.
LEMMA AdmissionInv == Spec => []Inv
<1>1. Init => Inv
  BY FaultsAssumption, IdleCall
  DEF Init, Inv, TypeOK, AgentState, LockExclusion, Holds, FindIsCurrent, FoundAbsent, FoundApproved,
      PendingIsWaiting, CacheIsCurrent
<1>2. Inv /\ [Next]_vars => Inv'
  BY AdmissionTyped, LockNext, FindNext, WaitingNext, CurrentNext DEF Inv
<1> QED  BY <1>1, <1>2, PTL DEF Spec

\* While nothing fails, no interleaving of registrations with approvals, rejections
\* and deletions puts an admitted host back on the list of hosts to be admitted,
\* although RejectHost takes no lock.
THEOREM AdmittedIsNotPending == Spec => []PendingIsWaiting
  BY AdmissionInv, PTL DEF Inv

\* While nothing fails, no interleaving of GetHost, UpdateHost and RegisterHost with
\* DeleteHost leaves a deleted host in the cache.
THEOREM DeletedIsNotCached == Spec => []CacheIsCurrent
  BY AdmissionInv, PTL DEF Inv
=============================================================================
