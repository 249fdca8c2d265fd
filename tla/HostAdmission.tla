--------------------------- MODULE HostAdmission ---------------------------
(***************************************************************************)
(* Admission of hosts: the server's HostService (host_service.go), which   *)
(* keeps admitted hosts in MySQL and waiting ones in Redis, and the loop   *)
(* of the agent that registers and reports (agent/pkg/service and          *)
(* agent/pkg/grpc).                                                        *)
(*                                                                         *)
(* Requests run on goroutines of their own.  A request is a sequence of    *)
(* MySQL and Redis commands, and other requests take steps between them    *)
(* except where the service's RWMutex forbids it: every operation takes    *)
(* the write lock, GetHost the read lock, RejectHost none at all.  A host  *)
(* is only its identity here; what it says of itself (address, tags, time) *)
(* is left out.                                                            *)
(***************************************************************************)
EXTENDS Naturals, FiniteSets

CONSTANTS
  Hosts,       \* host identities; each has one agent process
  Calls,       \* goroutines of the server that handle requests
  AdminOps,    \* the operations issued over HTTP
  MaxFaults,   \* failed commands, lost replies, crashes and restarts
  None

\* The operations of HostService that have state behind them.
Operations == {"register", "report", "approve", "reject", "get", "update", "delete"}

ASSUME FaultsAssumption == MaxFaults \in Nat
ASSUME NoneAssumption == None \notin Calls
ASSUME OpsAssumption == AdminOps \subseteq Operations

VARIABLES
  row,      \* hosts table: "absent", "approved" or "deleted" (deleted_at set)
  pending,  \* Redis keys pending_host:*
  cache,    \* Redis keys host:* (five minutes)
  status,   \* Redis keys host_status:* (ten minutes)
  call,     \* what each goroutine is doing
  agent,    \* the agent process of each host
  faults

vars == <<row, pending, cache, status, call, agent, faults>>

----------------------------------------------------------------------------
\* The commands each operation issues, in the order of the code.
Steps(op) ==
  CASE op = "register" -> {"lock", "find", "is_pending", "get", "set", "save", "fill"}
    [] op = "report"   -> {"lock", "find", "save", "fill"}
    [] op = "approve"  -> {"lock", "get", "find", "save", "create", "del"}
    [] op = "reject"   -> {"get", "del"}
    [] op = "get"      -> {"lock", "cached", "find", "fill"}
    [] op = "update"   -> {"lock", "find", "save", "fill"}
    [] op = "delete"   -> {"lock", "save", "evict"}

\* The command that follows the lock (the first one, where there is no lock).
FirstStep(op) ==
  CASE op = "get" -> "cached"
    [] op \in {"approve", "reject"} -> "get"
    [] op = "delete" -> "save"
    [] OTHER -> "find"

\* mutant: ApproveHost goes without the lock too.
LockingNotApprove(op) == op \notin {"reject", "approve"}

\* RejectHost is the one operation that takes no lock.
Locking(op) == op # "reject"

Idle == [op |-> "none", host |-> None, pc |-> "none"]

\* A goroutine past hs.mutex.Lock() or RLock() holds the lock till it returns.
Holds(c) == call[c].op \in Operations /\ Locking(call[c].op) /\ call[c].pc # "lock"

Shared(c) == call[c].op = "get"

\* mutant: GetHost without its RLock: it may run beside a writer.
CanLockReadersFree(c) == Shared(c) \/ \A d \in Calls \ {c} : Holds(d) => Shared(d)

\* sync.RWMutex: a writer alone, readers together.
CanLock(c) == \A d \in Calls \ {c} : Holds(d) => Shared(c) /\ Shared(d)

At(c, op, pc) == call[c].op = op /\ call[c].pc = pc

Goto(c, pc) == call' = [call EXCEPT ![c].pc = pc]

----------------------------------------------------------------------------
\* mutant: the query run Unscoped.
VisibleUnscoped(h) == row[h] # "absent"

\* Rows the queries find.  gorm leaves soft-deleted rows out of every query.
Visible(h) == row[h] = "approved"

\* idx_hosts_host_id is unique over soft-deleted rows too, so Create fails on one.
CanCreate(h) == row[h] = "absent"

\* mutant: an agent that never gives up a registration once it has it.
HearsSuccessOnly(a, op, out) ==
  [a EXCEPT !.rpc = None, !.registered = a.registered \/ (op = "register" /\ out = "ok")]

\* What the agent does with the reply to its RPC: tryRegister notes success;
\* statusReporter drops its registration when the error says "not found" or
\* "not approved", and keeps it on any other error.
Hears(a, op, out) ==
  [a EXCEPT !.rpc = None,
            !.registered = IF op = "register" THEN a.registered \/ out = "ok"
                                              ELSE a.registered /\ out # "refused"]

\* mutant: a lost RPC also forgets that it is over.
DisconnectedBusy(a) == [a EXCEPT !.connected = FALSE]

\* The RPC did not come back: Unavailable or DeadlineExceeded, markDisconnected.
Disconnected(a) == [a EXCEPT !.rpc = None, !.connected = FALSE]

\* The handler returns: the deferred unlock runs and the reply reaches the agent
\* that still waits for it.
Return(c, out) ==
  LET h == call[c].host IN
  /\ call' = [call EXCEPT ![c] = Idle]
  /\ agent' = IF agent[h].rpc = c
                THEN [agent EXCEPT ![h] = Hears(@, call[c].op, out)]
                ELSE agent

CallState == {Idle} \cup UNION {[op : {op}, host : Hosts, pc : Steps(op)] : op \in Operations}

AgentState == [connected : BOOLEAN, registered : BOOLEAN, rpc : Calls \cup {None}]

TypeOK ==
  /\ row \in [Hosts -> {"absent", "approved", "deleted"}]
  /\ pending \subseteq Hosts /\ cache \subseteq Hosts /\ status \subseteq Hosts
  /\ call \in [Calls -> CallState]
  /\ agent \in [Hosts -> AgentState]
  /\ faults \in 0..MaxFaults

Init ==
  /\ row = [h \in Hosts |-> "absent"]
  /\ pending = {} /\ cache = {} /\ status = {}
  /\ call = [c \in Calls |-> Idle]
  /\ agent = [h \in Hosts |-> [connected |-> FALSE, registered |-> FALSE, rpc |-> None]]
  /\ faults = 0

----------------------------------------------------------------------------
\* Requests arrive.
Begin(c, op, h) ==
  /\ call[c] = Idle
  /\ call' = [call EXCEPT ![c] = [op |-> op, host |-> h,
                                  pc |-> IF Locking(op) THEN "lock" ELSE FirstStep(op)]]

\* An HTTP request (http_host_controller.go).
Request(c, op, h) ==
  /\ Begin(c, op, h)
  /\ UNCHANGED <<row, pending, cache, status, agent, faults>>

\* registerTicker: connected and not registered, so tryRegister calls Register.
AgentRegisters(c, h) ==
  /\ agent[h].connected /\ ~agent[h].registered /\ agent[h].rpc = None
  /\ Begin(c, "register", h)
  /\ agent' = [agent EXCEPT ![h].rpc = c]
  /\ UNCHANGED <<row, pending, cache, status, faults>>

\* reportTicker: connected and registered, so reportStatus calls ReportStatus.
AgentReports(c, h) ==
  /\ agent[h].connected /\ agent[h].registered /\ agent[h].rpc = None
  /\ Begin(c, "report", h)
  /\ agent' = [agent EXCEPT ![h].rpc = c]
  /\ UNCHANGED <<row, pending, cache, status, faults>>

\* connectionManager: Dial does not wait for the server, so it always succeeds.
AgentConnects(h) ==
  /\ ~agent[h].connected
  /\ agent' = [agent EXCEPT ![h].connected = TRUE]
  /\ UNCHANGED <<row, pending, cache, status, call, faults>>

Lock(c) ==
  /\ call[c].pc = "lock"
  /\ CanLock(c)
  /\ Goto(c, FirstStep(call[c].op))
  /\ UNCHANGED <<row, pending, cache, status, agent, faults>>

----------------------------------------------------------------------------
\* RegisterHost: the host is approved, known as pending, or new.
RegisterFind(c) ==
  /\ At(c, "register", "find")
  /\ Goto(c, IF Visible(call[c].host) THEN "save" ELSE "is_pending")
  /\ UNCHANGED <<row, pending, cache, status, agent, faults>>

\* isPendingHost decides between updatePendingHost and addToPendingList.
RegisterIsPending(c) ==
  /\ At(c, "register", "is_pending")
  /\ Goto(c, IF call[c].host \in pending THEN "get" ELSE "set")
  /\ UNCHANGED <<row, pending, cache, status, agent, faults>>

\* updatePendingHost reads the entry again, and fails when it is gone.
UpdatePendingGet(c) ==
  /\ At(c, "register", "get")
  /\ IF call[c].host \in pending THEN Goto(c, "set") /\ UNCHANGED agent
                                 ELSE Return(c, "error")
  /\ UNCHANGED <<row, pending, cache, status, faults>>

\* The Set that ends updatePendingHost and addToPendingList, without expiry.
PendingSet(c) ==
  /\ At(c, "register", "set")
  /\ pending' = pending \cup {call[c].host}
  /\ Return(c, "ok")
  /\ UNCHANGED <<row, cache, status, faults>>

\* updateApprovedHost, and UpdateHost past its query: Save the row ...
SaveHost(c) ==
  /\ At(c, "register", "save") \/ At(c, "update", "save")
  /\ Goto(c, "fill")
  /\ UNCHANGED <<row, pending, cache, status, agent, faults>>

\* ... and cacheHost, which also ends a GetHost that missed the cache.
CacheHost(c) ==
  /\ At(c, "register", "fill") \/ At(c, "update", "fill") \/ At(c, "get", "fill")
  /\ cache' = cache \cup {call[c].host}
  /\ Return(c, "ok")
  /\ UNCHANGED <<row, pending, status, faults>>

\* UpdateHost and GetHost look for the row, whatever its status.
FindHost(c, op, next) ==
  /\ At(c, op, "find")
  /\ IF Visible(call[c].host) THEN Goto(c, next) /\ UNCHANGED agent
                              ELSE Return(c, "not_found")
  /\ UNCHANGED <<row, pending, cache, status, faults>>

\* getCachedHost.
GetCached(c) ==
  /\ At(c, "get", "cached")
  /\ IF call[c].host \in cache THEN Return(c, "ok") ELSE Goto(c, "find") /\ UNCHANGED agent
  /\ UNCHANGED <<row, pending, cache, status, faults>>

\* DeleteHost soft-deletes the row, if there is one ...
DeleteRow(c) ==
  /\ At(c, "delete", "save")
  /\ row' = [row EXCEPT ![call[c].host] = IF @ = "absent" THEN @ ELSE "deleted"]
  /\ Goto(c, "evict")
  /\ UNCHANGED <<pending, cache, status, agent, faults>>

\* ... and drops the cached copy.
Evict(c) ==
  /\ At(c, "delete", "evict")
  /\ cache' = cache \ {call[c].host}
  /\ Return(c, "ok")
  /\ UNCHANGED <<row, pending, status, faults>>

----------------------------------------------------------------------------
\* ApproveHost and RejectHost read the entry first, and fail without one.
PendingGet(c, op, next) ==
  /\ At(c, op, "get")
  /\ IF call[c].host \in pending THEN Goto(c, next) /\ UNCHANGED agent
                                 ELSE Return(c, "error")
  /\ UNCHANGED <<row, pending, cache, status, faults>>

ApproveFind(c) ==
  /\ At(c, "approve", "find")
  /\ Goto(c, IF Visible(call[c].host) THEN "save" ELSE "create")
  /\ UNCHANGED <<row, pending, cache, status, agent, faults>>

\* The row exists: its status is set to approved, which it was.
ApproveSave(c) ==
  /\ At(c, "approve", "save")
  /\ Goto(c, "del")
  /\ UNCHANGED <<row, pending, cache, status, agent, faults>>

ApproveCreate(c) ==
  /\ At(c, "approve", "create")
  /\ IF CanCreate(call[c].host)
       THEN /\ row' = [row EXCEPT ![call[c].host] = "approved"]
            /\ Goto(c, "del")
            /\ UNCHANGED agent
       ELSE /\ Return(c, "error")
            /\ UNCHANGED row
  /\ UNCHANGED <<pending, cache, status, faults>>

\* The entry leaves the list.
PendingDel(c, op) ==
  /\ At(c, op, "del")
  /\ pending' = pending \ {call[c].host}
  /\ Return(c, "ok")
  /\ UNCHANGED <<row, cache, status, faults>>

----------------------------------------------------------------------------
\* ReportHostStatus refuses a host that is not admitted.
ReportFind(c) ==
  /\ At(c, "report", "find")
  /\ IF Visible(call[c].host) THEN Goto(c, "save") /\ UNCHANGED agent
                              ELSE Return(c, "refused")
  /\ UNCHANGED <<row, pending, cache, status, faults>>

ReportSave(c) ==
  /\ At(c, "report", "save")
  /\ Goto(c, "fill")
  /\ UNCHANGED <<row, pending, cache, status, agent, faults>>

\* cacheHostStatus.
CacheStatus(c) ==
  /\ At(c, "report", "fill")
  /\ status' = status \cup {call[c].host}
  /\ Return(c, "ok")
  /\ UNCHANGED <<row, pending, cache, faults>>

\* The keys with a time to live expire.
Expire(h) ==
  \/ h \in cache /\ cache' = cache \ {h} /\ UNCHANGED status
  \/ h \in status /\ status' = status \ {h} /\ UNCHANGED cache

ExpireKey(h) == Expire(h) /\ UNCHANGED <<row, pending, call, agent, faults>>

----------------------------------------------------------------------------
\* Faults.
Fault == faults < MaxFaults /\ faults' = faults + 1

\* Commands whose error the code ignores or only logs: the caches' Set and Del,
\* and the Del at the end of ApproveHost.
Ignored(op, pc) == pc \in {"fill", "evict"} \/ (op = "approve" /\ pc = "del")

\* Redis commands whose error reads as a missing key.
Missed(op, pc) == CASE op = "register" /\ pc = "is_pending" -> "set"
                    [] op = "get" /\ pc = "cached" -> "find"
                    [] OTHER -> "none"

\* A MySQL or Redis command fails and has no effect.
CommandFails(c) ==
  LET op == call[c].op
      pc == call[c].pc IN
  /\ Fault
  /\ op \in Operations /\ pc # "lock"
  /\ IF Missed(op, pc) # "none"
       THEN Goto(c, Missed(op, pc)) /\ UNCHANGED agent
       ELSE Return(c, IF Ignored(op, pc) THEN "ok" ELSE "error")
  /\ UNCHANGED <<row, pending, cache, status>>

\* The agent's RPC runs into its timeout; the handler keeps running.
Timeout(h) ==
  /\ Fault
  /\ agent[h].rpc # None
  /\ agent' = [agent EXCEPT ![h] = Disconnected(@)]
  /\ UNCHANGED <<row, pending, cache, status, call>>

\* The agent process restarts under its configured identity.
AgentRestarts(h) ==
  /\ Fault
  /\ agent' = [agent EXCEPT ![h] = [connected |-> FALSE, registered |-> FALSE, rpc |-> None]]
  /\ UNCHANGED <<row, pending, cache, status, call>>

\* The server restarts: its goroutines are gone, MySQL and Redis are not.
ServerRestarts ==
  /\ Fault
  /\ call' = [c \in Calls |-> Idle]
  /\ agent' = [h \in Hosts |-> IF agent[h].rpc = None THEN agent[h] ELSE Disconnected(agent[h])]
  /\ UNCHANGED <<row, pending, cache, status>>

----------------------------------------------------------------------------
\* The commands of a request under way.
Step(c) ==
  \/ RegisterFind(c)
  \/ RegisterIsPending(c)
  \/ UpdatePendingGet(c)
  \/ PendingSet(c)
  \/ SaveHost(c)
  \/ CacheHost(c)
  \/ FindHost(c, "update", "save")
  \/ FindHost(c, "get", "fill")
  \/ GetCached(c)
  \/ DeleteRow(c)
  \/ Evict(c)
  \/ PendingGet(c, "approve", "find")
  \/ PendingGet(c, "reject", "del")
  \/ ApproveFind(c)
  \/ ApproveSave(c)
  \/ ApproveCreate(c)
  \/ PendingDel(c, "approve")
  \/ PendingDel(c, "reject")
  \/ ReportFind(c)
  \/ ReportSave(c)
  \/ CacheStatus(c)

Next ==
  \/ \E c \in Calls, op \in AdminOps, h \in Hosts : Request(c, op, h)
  \/ \E c \in Calls, h \in Hosts : AgentRegisters(c, h) \/ AgentReports(c, h)
  \/ \E h \in Hosts : AgentConnects(h) \/ ExpireKey(h) \/ Timeout(h) \/ AgentRestarts(h)
  \/ \E c \in Calls : Lock(c) \/ Step(c) \/ CommandFails(c)
  \/ ServerRestarts

Spec == Init /\ [][Next]_vars

----------------------------------------------------------------------------
\* Fairness.  Goroutines run; sync.RWMutex hands the lock to a waiter in turn;
\* the agent's tickers and connectionManager fire; keys expire.  The
\* administrator owes nothing, and a tick waits for a goroutine to be free.
FairSpec ==
  /\ Spec
  /\ \A c \in Calls : WF_vars(Step(c)) /\ SF_vars(Lock(c))
  /\ \A h \in Hosts : /\ WF_vars(AgentConnects(h))
                      /\ WF_vars(ExpireKey(h))
                      /\ SF_vars(\E c \in Calls : AgentRegisters(c, h))
                      /\ SF_vars(\E c \in Calls : AgentReports(c, h))

\* Besides, the administrator approves again and again what waits.
ApprovingSpec ==
  /\ FairSpec
  /\ \A h \in Hosts : SF_vars(h \in pending /\ \E c \in Calls : Request(c, "approve", h))

----------------------------------------------------------------------------
\* Properties.

Doing(op, pc, h) == \E c \in Calls : At(c, op, pc) /\ call[c].host = h

\* While nothing fails, a host on the list of hosts to be admitted is not
\* admitted already, except for the moment in which ApproveHost has created its
\* row and still holds the lock.  A registration that looked the host up before
\* the approval must not put it back on the list afterwards.
PendingIsWaiting ==
  faults = 0 => \A h \in pending : row[h] = "approved" => Doing("approve", "del", h)

\* While nothing fails, what GetHost serves from the cache is a host that has not
\* been deleted, except while DeleteHost is between its two commands.  A GetHost
\* that read the row before the deletion must not cache it after the eviction.
CacheIsCurrent ==
  faults = 0 => \A h \in cache : row[h] = "approved" \/ Doing("delete", "evict", h)

\* Whatever fails, a deleted host is in the end no longer served from the cache:
\* nothing refills the key, so the failed eviction is made up for by the expiry.
DeletedIsForgotten == \A h \in Hosts : row[h] = "deleted" ~> [](h \notin cache)

\* Whatever the administrator does and however the faults fall, the agent's loop
\* brings its host back: again and again it is on the list or admitted, after any
\* number of rejections and deletions.
KeepsAsking == \A h \in Hosts : []<>(h \in pending \/ row[h] = "approved")

\* An admitted host that is left alone reports its status again and again,
\* whatever of its registration the agent had lost or never heard.
AdmittedReports ==
  \A h \in Hosts : <>[](row[h] = "approved") => []<>(Doing("report", "fill", h))

----------------------------------------------------------------------------
(***************************************************************************)
(* What the documents say and the code does not do.  TLC refutes each of   *)
(* these; the README says with which constants.                            *)
(***************************************************************************)

\* The approve endpoint admits "a host waiting for admission": the host is still
\* on the list when its row is created.
ApprovedWasPending ==
  [][\A h \in Hosts : row[h] # "approved" /\ row'[h] = "approved" => h \in pending]_vars

\* A host that waits is admitted when the administrator keeps approving it.
ApprovalTakesEffect == \A h \in Hosts : h \in pending ~> row[h] = "approved"

\* The list holds the hosts that wait for admission, also after a restart.
ListIsOfWaiting ==
  \A h \in pending : row[h] = "approved" => Doing("approve", "del", h)

=============================================================================
