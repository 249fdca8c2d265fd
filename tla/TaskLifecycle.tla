--------------------------- MODULE TaskLifecycle ---------------------------
(***************************************************************************)
(* The task service of the server (server/pkg/service/task_service.go) and *)
(* its timeout monitor (timeout_monitor.go): the rows of the tables tasks, *)
(* commands and commands_hosts, the goroutines that send commands to the   *)
(* agents, and every operation that writes those rows.                     *)
(*                                                                         *)
(* A task has one Command and one CommandHost per target host; the two     *)
(* rows share the command id, so both are columns indexed by the command.  *)
(* Timestamps are abstracted to "set or NULL", outputs and exit codes to   *)
(* the kind of a result.  A database transaction is one step; a handler    *)
(* that writes outside a transaction, or checks outside the transaction    *)
(* that acts on the check, is several steps.                               *)
(***************************************************************************)
EXTENDS Integers, FiniteSets, TaskProgress

CONSTANTS
    Tasks,          \* task ids CreateTask may generate
    Hosts,          \* host ids a request may name
    Commands,       \* command ids (uuid) that may be generated
    Requests,       \* HTTP request handlers that may be in flight together
    NoTask, NoHost, NoCall,
    MaxSends,       \* bound: how often one command is handed to the dispatcher
    ResultKinds,    \* the results agents send: "started", "ok", "error", "bare"
    HostEdits,      \* subset of {"add", "remove"}: host edits users ask for
    DbFaults,       \* may a transaction fail after its goroutines were started?
    UncalledOps     \* are the exported operations nobody calls yet in use?

ASSUME FiniteAssumption == IsFiniteSet(Commands)
ASSUME BoundAssumption == MaxSends \in Nat
ASSUME KindAssumption == ResultKinds \subseteq {"started", "ok", "error", "bare"}
ASSUME EditAssumption == HostEdits \subseteq {"add", "remove"}
ASSUME FlagAssumption == DbFaults \in BOOLEAN /\ UncalledOps \in BOOLEAN

VARIABLES
    taskStatus,     \* tasks.status, "absent" before CreateTask, "deleted" after a deletion
    totalHosts, completedHosts, failedHosts,
    startedAt, finishedAt,      \* tasks.started_at / finished_at # NULL
    cmdTask, cmdHost,           \* commands.task_id, host_id
    cmdStatus,      \* commands.status, "absent" when there is no (undeleted) row
    cmdStarted,     \* commands.started_at # NULL
    hostStatus,     \* commands_hosts.status, "absent" when there is no row
    jobs,           \* jobs[c][a]: where the a-th sending of command c stands
    expired,        \* commands a timeout check found over time, not yet marked
    halfGone,       \* hosts whose disconnection is recorded in commands_hosts only
    calls           \* handlers between their check and their write

taskVars == <<taskStatus, totalHosts, completedHosts, failedHosts, startedAt, finishedAt>>
rowVars  == <<cmdTask, cmdHost, cmdStatus, cmdStarted, hostStatus>>
procVars == <<jobs, expired, halfGone, calls>>
vars     == <<taskVars, rowVars, procVars>>

TaskStatus    == {"pending", "running", "completed", "failed", "canceled"}
CommandStatus == {"pending", "running", "completed", "failed", "timeout", "canceled"}
CommandHostStatus ==
    {"Pending", "Running", "Failed", "ExecFailed", "Timeout", "Canceled", "Completed"}

\* A sending: the goroutine is about to call SendCommandToAgent; it failed and
\* wrote the Command but not yet the CommandHost; the agent has the command; the
\* agent reported that it runs; nothing is left of it.
Phase == {"none", "sending", "failing", "sent", "started", "gone"}

Attempts == 1..MaxSends

Call == [op : {"stop", "delete", "add", "remove"}, task : Tasks, host : Hosts \cup {NoHost}]

ASSUME NullAssumption == NoTask \notin Tasks /\ NoHost \notin Hosts /\ NoCall \notin Call

Exists(t) == taskStatus[t] \in TaskStatus
Rows(t)   == {c \in Commands : cmdTask[c] = t /\ cmdStatus[c] # "absent"}
Fresh     == {c \in Commands : cmdTask[c] = NoTask}

\* The command and its task can both be read: what a handler needs to commit.
Found(c)  == cmdStatus[c] # "absent" /\ Exists(cmdTask[c])

TaskTypeOK ==
    /\ taskStatus \in [Tasks -> TaskStatus \cup {"absent", "deleted"}]
    /\ totalHosts \in [Tasks -> Nat]
    /\ completedHosts \in [Tasks -> Nat]
    /\ failedHosts \in [Tasks -> Nat]
    /\ startedAt \in [Tasks -> BOOLEAN]
    /\ finishedAt \in [Tasks -> BOOLEAN]

RowTypeOK ==
    /\ cmdTask \in [Commands -> Tasks \cup {NoTask}]
    /\ cmdHost \in [Commands -> Hosts \cup {NoHost}]
    /\ cmdStatus \in [Commands -> CommandStatus \cup {"absent"}]
    /\ cmdStarted \in [Commands -> BOOLEAN]
    /\ hostStatus \in [Commands -> CommandHostStatus \cup {"absent"}]

ProcTypeOK ==
    /\ jobs \in [Commands -> [Attempts -> Phase]]
    /\ expired \in SUBSET Commands
    /\ halfGone \in SUBSET Hosts
    /\ calls \in [Requests -> Call \cup {NoCall}]

TypeOK == TaskTypeOK /\ RowTypeOK /\ ProcTypeOK

Init ==
    /\ taskStatus = [t \in Tasks |-> "absent"]
    /\ totalHosts = [t \in Tasks |-> 0]
    /\ completedHosts = [t \in Tasks |-> 0]
    /\ failedHosts = [t \in Tasks |-> 0]
    /\ startedAt = [t \in Tasks |-> FALSE]
    /\ finishedAt = [t \in Tasks |-> FALSE]
    /\ cmdTask = [c \in Commands |-> NoTask]
    /\ cmdHost = [c \in Commands |-> NoHost]
    /\ cmdStatus = [c \in Commands |-> "absent"]
    /\ cmdStarted = [c \in Commands |-> FALSE]
    /\ hostStatus = [c \in Commands |-> "absent"]
    /\ jobs = [c \in Commands |-> [a \in Attempts |-> "none"]]
    /\ expired = {}
    /\ halfGone = {}
    /\ calls = [r \in Requests |-> NoCall]

-----------------------------------------------------------------------------
(***************************************************************************)
(* Progress of a task, recomputed from the CommandHost rows `hs`.          *)
(***************************************************************************)

\* SELECT status, COUNT( * ) ... GROUP BY status
Count(t, hs, kinds) == Cardinality({c \in Commands : cmdTask[c] = t /\ hs[c] \in kinds})

\* mutant: only failed dispatches are counted
DispatchFailuresOnly(t, hs) == {Count(t, hs, {"Failed"})}
\* The loop over the groups assigns failedCount once per failing group, so the
\* last such group wins; GROUP BY promises no order.
FailedCounts(t, hs) ==
    LET groups == {k \in FailKinds : Count(t, hs, {k}) > 0}
    IN  IF groups = {} THEN {0} ELSE {Count(t, hs, {k}) : k \in groups}

\* mutant: a finish time only for a task without failures
OverIfAllCompleted(t, hs, failed) == Count(t, hs, {"Completed"}) = totalHosts[t]
Over(t, hs, failed) ==
    AllFinishedBy(totalHosts[t], Count(t, hs, {"Completed"}), failed, Count(t, hs, {"Canceled"}))

\* The UPDATE of the tasks T, `failed` being the failedCount of each.
StoreProgress(T, hs, failed) ==
    /\ completedHosts' = [t \in Tasks |->
            IF t \in T THEN Count(t, hs, {"Completed"}) ELSE completedHosts[t]]
    /\ failedHosts' = [t \in Tasks |-> IF t \in T THEN failed[t] ELSE failedHosts[t]]
    /\ taskStatus' = [t \in Tasks |->
            IF t \in T
            THEN ProgressStatus(taskStatus[t], totalHosts[t], Count(t, hs, {"Completed"}),
                                failed[t], Count(t, hs, {"Running"}), Count(t, hs, {"Canceled"}))
            ELSE taskStatus[t]]
    /\ finishedAt' = [t \in Tasks |-> finishedAt[t] \/ (t \in T /\ Over(t, hs, failed[t]))]
    /\ startedAt' = [t \in Tasks |->
            startedAt[t] \/ (t \in T /\ ~Over(t, hs, failed[t])
                                /\ Count(t, hs, {"Running"}) + Count(t, hs, {"Completed"}) > 0)]
    /\ UNCHANGED totalHosts

\* updateTaskProgressInTransaction for the tasks T, over the new rows `hs`.
UpdateTaskProgress(T, hs) ==
    \E failed \in [T -> 0..Cardinality(Commands)] :
        /\ \A t \in T : failed[t] \in FailedCounts(t, hs)
        /\ StoreProgress(T, hs, failed)

-----------------------------------------------------------------------------
(***************************************************************************)
(* Creating, starting and sending.                                         *)
(***************************************************************************)

\* One Command and one CommandHost per entry of the request's host list (which
\* may name a host twice), all in one transaction.
CreateTask(t, hostOf) ==
    /\ taskStatus[t] = "absent"
    /\ taskStatus' = [taskStatus EXCEPT ![t] = "pending"]
    /\ totalHosts' = [totalHosts EXCEPT ![t] = Cardinality(DOMAIN hostOf)]
    /\ cmdTask' = [c \in Commands |-> IF c \in DOMAIN hostOf THEN t ELSE cmdTask[c]]
    /\ cmdHost' = [c \in Commands |-> IF c \in DOMAIN hostOf THEN hostOf[c] ELSE cmdHost[c]]
    /\ cmdStatus' = [c \in Commands |-> IF c \in DOMAIN hostOf THEN "pending" ELSE cmdStatus[c]]
    /\ hostStatus' = [c \in Commands |-> IF c \in DOMAIN hostOf THEN "Pending" ELSE hostStatus[c]]
    /\ UNCHANGED <<completedHosts, failedHosts, startedAt, finishedAt, cmdStarted, procVars>>

\* A goroutine that will call SendCommandToAgent for each of the commands C.
SendAll(C) ==
    \E a \in [C -> Attempts] :
        /\ \A c \in C : jobs[c][a[c]] = "none" /\ \A b \in Attempts : b < a[c] => jobs[c][b] # "none"
        /\ jobs' = [c \in Commands |-> IF c \in C THEN [jobs[c] EXCEPT ![a[c]] = "sending"]
                                       ELSE jobs[c]]

StartTask(t) ==
    /\ taskStatus[t] = "pending"
    /\ taskStatus' = [taskStatus EXCEPT ![t] = "running"]
    /\ startedAt' = [startedAt EXCEPT ![t] = TRUE]
    /\ cmdStatus' = [c \in Commands |-> IF c \in Rows(t) THEN "pending" ELSE cmdStatus[c]]
    /\ hostStatus' = [c \in Commands |-> IF c \in Rows(t) THEN "Pending" ELSE hostStatus[c]]
    /\ SendAll(Rows(t))
    /\ UNCHANGED <<totalHosts, completedHosts, failedHosts, finishedAt,
                   cmdTask, cmdHost, cmdStarted, expired, halfGone, calls>>

\* The goroutines run before the transaction commits: when a later statement or
\* the commit fails, the rows are rolled back and the goroutines are not.
StartTaskRolledBack(t, C) ==
    /\ DbFaults
    /\ taskStatus[t] = "pending"
    /\ C # {} /\ C \subseteq Rows(t)
    /\ SendAll(C)
    /\ UNCHANGED <<taskVars, rowVars, expired, halfGone, calls>>

SetJob(c, a, p) == jobs' = [jobs EXCEPT ![c] = [@ EXCEPT ![a] = p]]

\* SendCommandToAgent returned nil: the command is in the agent's stream.
SendSucceeds(c, a) ==
    /\ jobs[c][a] = "sending"
    /\ SetJob(c, a, "sent")
    /\ UNCHANGED <<taskVars, rowVars, expired, halfGone, calls>>

\* updateCommandDispatchFailed, first statement: the Command.
DispatchFailedCommand(c, a) ==
    /\ jobs[c][a] = "sending"
    /\ SetJob(c, a, "failing")
    /\ cmdStatus' = [cmdStatus EXCEPT ![c] = IF @ = "absent" THEN @ ELSE "failed"]
    /\ UNCHANGED <<taskVars, cmdTask, cmdHost, cmdStarted, hostStatus, expired, halfGone, calls>>

\* updateCommandDispatchFailed, second statement: the CommandHost.
DispatchFailedHost(c, a) ==
    /\ jobs[c][a] = "failing"
    /\ SetJob(c, a, "gone")
    /\ hostStatus' = [hostStatus EXCEPT ![c] = IF @ = "absent" THEN @ ELSE "Failed"]
    /\ UNCHANGED <<taskVars, cmdTask, cmdHost, cmdStatus, cmdStarted, expired, halfGone, calls>>

-----------------------------------------------------------------------------
(***************************************************************************)
(* Results of the agents.                                                  *)
(***************************************************************************)

\* started_at is overwritten by every result, with NULL by a bare one.
\* mutant: only a final result brings its times
FinalSetsStart(k) == k \in {"ok", "error"}
ResultSetsStart(k) == k # "bare"

\* An agent reports in order: at most one "started", then one final result.
AgentSends(c, a, k) ==
    /\ k \in ResultKinds
    /\ jobs[c][a] \in IF k = "started" THEN {"sent"} ELSE {"sent", "started"}
    /\ SetJob(c, a, IF k = "started" THEN "started" ELSE "gone")

HandleCommandResult(c, a, k) ==
    /\ AgentSends(c, a, k)
    /\ Found(c)
    /\ cmdStatus' = [cmdStatus EXCEPT ![c] = ResultCommandStatus(k, @)]
    /\ cmdStarted' = [cmdStarted EXCEPT ![c] = ResultSetsStart(k)]
    /\ hostStatus' = [hostStatus EXCEPT ![c] = ResultHostStatus(k, @)]
    /\ UpdateTaskProgress({cmdTask[c]}, hostStatus')
    /\ UNCHANGED <<cmdTask, cmdHost, expired, halfGone, calls>>

\* The command or its task is gone, or the transaction failed: the error is only
\* logged.
ResultDropped(c, a, k) ==
    /\ AgentSends(c, a, k)
    /\ ~Found(c) \/ DbFaults
    /\ UNCHANGED <<taskVars, rowVars, expired, halfGone, calls>>

\* The agent died, or its stream broke before the answer was sent.
AnswerLost(c, a) ==
    /\ jobs[c][a] \in {"sent", "started"}
    /\ SetJob(c, a, "gone")
    /\ UNCHANGED <<taskVars, rowVars, expired, halfGone, calls>>

-----------------------------------------------------------------------------
(***************************************************************************)
(* Timeouts, retries, disconnections.                                      *)
(***************************************************************************)

\* checkTimeouts (a list) or CheckCommandTimeout (one command): read the running
\* commands, keep those that are over time.
FindTimeouts(C) ==
    /\ C # {} /\ C \cap expired = {}
    /\ \A c \in C : cmdStatus[c] = "running" /\ cmdStarted[c]
    /\ expired' = expired \cup C
    /\ UNCHANGED <<taskVars, rowVars, jobs, halfGone, calls>>

\* handleSingleTimeoutCommand: the status is not looked at again.  A deleted row
\* is not written, the progress of its task is still recomputed; the error of a
\* deleted task is only logged.
HandleTimeout(c) ==
    /\ c \in expired
    /\ expired' = expired \ {c}
    /\ IF Exists(cmdTask[c])
       THEN /\ cmdStatus' = [cmdStatus EXCEPT ![c] = IF @ = "absent" THEN @ ELSE "timeout"]
            /\ hostStatus' = [hostStatus EXCEPT ![c] = IF @ = "absent" THEN @ ELSE "Timeout"]
            /\ UpdateTaskProgress({cmdTask[c]}, hostStatus')
       ELSE UNCHANGED <<taskVars, cmdStatus, hostStatus>>
    /\ UNCHANGED <<cmdTask, cmdHost, cmdStarted, jobs, halfGone, calls>>

\* mutant: whatever is over may be retried
RetryableIfOver(status) == status \in {"failed", "timeout", "canceled"}
Retryable(status) == status \in {"failed", "timeout"}

RetryFailedCommand(c) ==
    /\ Retryable(cmdStatus[c]) /\ Found(c)
    /\ cmdStatus' = [cmdStatus EXCEPT ![c] = "pending"]
    /\ cmdStarted' = [cmdStarted EXCEPT ![c] = FALSE]
    /\ hostStatus' = [hostStatus EXCEPT ![c] = "Pending"]
    /\ SendAll({c})
    /\ UpdateTaskProgress({cmdTask[c]}, hostStatus')
    /\ UNCHANGED <<cmdTask, cmdHost, expired, halfGone, calls>>

\* As for StartTask: the goroutine outlives a rollback.
RetryRolledBack(c) ==
    /\ Retryable(cmdStatus[c])
    /\ ~Found(c) \/ DbFaults
    /\ SendAll({c})
    /\ UNCHANGED <<taskVars, rowVars, expired, halfGone, calls>>

\* HandleHostConnectionChange(h, false), first statement: commands_hosts.
DisconnectHosts(h) ==
    /\ h \notin halfGone
    /\ halfGone' = halfGone \cup {h}
    /\ hostStatus' = [c \in Commands |->
            IF cmdHost[c] = h /\ hostStatus[c] = "Running" THEN "Failed" ELSE hostStatus[c]]
    /\ UNCHANGED <<taskVars, cmdTask, cmdHost, cmdStatus, cmdStarted, jobs, expired, calls>>

\* Second statement: commands.  The tasks are not touched.
DisconnectCommands(h) ==
    /\ h \in halfGone
    /\ halfGone' = halfGone \ {h}
    /\ cmdStatus' = [c \in Commands |->
            IF cmdHost[c] = h /\ cmdStatus[c] = "running" THEN "failed" ELSE cmdStatus[c]]
    /\ UNCHANGED <<taskVars, cmdTask, cmdHost, cmdStarted, hostStatus, jobs, expired, calls>>

-----------------------------------------------------------------------------
(***************************************************************************)
(* Cancelling, stopping, editing and reading a task.                       *)
(***************************************************************************)

\* The cancel message sent to the agents names a command id no table has, and
\* the agent does not interpret it: it changes no row.
CancelTask(t) ==
    /\ Exists(t) /\ ~Completed(taskStatus[t])
    /\ taskStatus' = [taskStatus EXCEPT ![t] = "canceled"]
    /\ finishedAt' = [finishedAt EXCEPT ![t] = TRUE]
    /\ cmdStatus' = [c \in Commands |->
            IF cmdTask[c] = t /\ cmdStatus[c] \in {"pending", "running"}
            THEN "canceled" ELSE cmdStatus[c]]
    /\ hostStatus' = [c \in Commands |->
            IF cmdTask[c] = t /\ hostStatus[c] \in {"Pending", "Running"}
            THEN "Canceled" ELSE hostStatus[c]]
    /\ UNCHANGED <<totalHosts, completedHosts, failedHosts, startedAt,
                   cmdTask, cmdHost, cmdStarted, procVars>>

\* GetTaskStatus on a cache miss: a read that recomputes and stores the progress.
GetTaskStatus(t) ==
    /\ Exists(t)
    /\ UpdateTaskProgress({t}, hostStatus)
    /\ UNCHANGED <<rowVars, procVars>>

\* StopTask, DeleteTask, AddTaskHosts and RemoveTaskHost check the status of the
\* task, and act on it later whatever the status then is.
CheckCall(r, op, t, h) ==
    /\ calls[r] = NoCall
    /\ Exists(t)
    /\ \/ op = "stop"   /\ taskStatus[t] = "running" /\ h = NoHost
       \/ op = "delete" /\ taskStatus[t] # "running" /\ h = NoHost /\ UncalledOps
       \/ op = "add"    /\ taskStatus[t] # "running" /\ h \in Hosts /\ op \in HostEdits
                        /\ Rows(t) # {}
       \/ op = "remove" /\ taskStatus[t] # "running" /\ h \in Hosts /\ op \in HostEdits
    /\ calls' = [calls EXCEPT ![r] = [op |-> op, task |-> t, host |-> h]]
    /\ UNCHANGED <<taskVars, rowVars, jobs, expired, halfGone>>

Returns(r, op) ==
    /\ calls[r] # NoCall
    /\ calls[r].op = op
    /\ calls' = [calls EXCEPT ![r] = NoCall]
    /\ UNCHANGED <<jobs, expired, halfGone>>

StopTask(r) ==
    /\ Returns(r, "stop")
    /\ LET t == calls[r].task IN
       /\ taskStatus' = [taskStatus EXCEPT ![t] = IF @ = "deleted" THEN @ ELSE "canceled"]
       /\ finishedAt' = [finishedAt EXCEPT ![t] = @ \/ taskStatus[t] # "deleted"]
    /\ UNCHANGED <<totalHosts, completedHosts, failedHosts, startedAt, rowVars>>

DeleteTask(r) ==
    /\ Returns(r, "delete")
    /\ LET t == calls[r].task IN
       /\ taskStatus' = [taskStatus EXCEPT ![t] = "deleted"]
       /\ cmdStatus' = [c \in Commands |-> IF cmdTask[c] = t THEN "absent" ELSE cmdStatus[c]]
       /\ hostStatus' = [c \in Commands |-> IF cmdTask[c] = t THEN "absent" ELSE hostStatus[c]]
    /\ UNCHANGED <<totalHosts, completedHosts, failedHosts, startedAt, finishedAt,
                   cmdTask, cmdHost, cmdStarted>>

\* The rows are created even when the task was deleted since the check; then
\* there is no tasks row whose total could grow.
AddTaskHosts(r, c) ==
    /\ Returns(r, "add")
    /\ c \in Fresh
    /\ LET t == calls[r].task IN
       /\ cmdTask' = [cmdTask EXCEPT ![c] = t]
       /\ totalHosts' = [totalHosts EXCEPT ![t] = IF Exists(t) THEN @ + 1 ELSE @]
    /\ cmdHost' = [cmdHost EXCEPT ![c] = calls[r].host]
    /\ cmdStatus' = [cmdStatus EXCEPT ![c] = "pending"]
    /\ hostStatus' = [hostStatus EXCEPT ![c] = "Pending"]
    /\ UNCHANGED <<taskStatus, completedHosts, failedHosts, startedAt, finishedAt, cmdStarted>>

\* GREATEST(total_hosts - 1, 0)
\* mutant: without GREATEST
Decremented(n) == n - 1
OneLess(n) == IF n > 0 THEN n - 1 ELSE n

\* Every row of the host goes; the total drops by one, however many rows went.
RemoveTaskHost(r) ==
    /\ Returns(r, "remove")
    /\ LET t == calls[r].task
           gone == {c \in Commands : cmdTask[c] = t /\ cmdHost[c] = calls[r].host}
       IN
       /\ totalHosts' = [totalHosts EXCEPT ![t] = IF Exists(t) THEN OneLess(@) ELSE @]
       /\ cmdStatus' = [c \in Commands |-> IF c \in gone THEN "absent" ELSE cmdStatus[c]]
       /\ hostStatus' = [c \in Commands |-> IF c \in gone THEN "absent" ELSE hostStatus[c]]
    /\ UNCHANGED <<taskStatus, completedHosts, failedHosts, startedAt, finishedAt,
                   cmdTask, cmdHost, cmdStarted>>

\* POST /tasks/cleanup-old-records: the old tasks T that are completed or canceled are soft
\* deleted.  The rows of their commands stay: the subquery that looks for orphans
\* reads the table tasks with the deleted tasks in it, and finds every task.
CleanupOldRecords(T) ==
    /\ T # {} /\ \A t \in T : taskStatus[t] \in {"completed", "canceled"}
    /\ taskStatus' = [t \in Tasks |-> IF t \in T THEN "deleted" ELSE taskStatus[t]]
    /\ UNCHANGED <<totalHosts, completedHosts, failedHosts, startedAt, finishedAt,
                   rowVars, procVars>>

-----------------------------------------------------------------------------
(***************************************************************************)
(* Exported operations that no code of the repository calls yet, and the   *)
(* death of the server process.                                            *)
(***************************************************************************)

HandleAgentDisconnection(h) ==
    /\ UncalledOps
    /\ cmdStatus' = [c \in Commands |->
            IF cmdHost[c] = h /\ cmdStatus[c] \in {"pending", "running"}
            THEN "failed" ELSE cmdStatus[c]]
    /\ hostStatus' = [c \in Commands |->
            IF cmdHost[c] = h /\ hostStatus[c] \in {"Pending", "Running"}
            THEN "Failed" ELSE hostStatus[c]]
    /\ UpdateTaskProgress({t \in Tasks : Exists(t) /\ \E c \in Commands :
                                cmdTask[c] = t /\ cmdHost[c] = h /\ cmdStatus'[c] = "failed"},
                          hostStatus')
    /\ UNCHANGED <<cmdTask, cmdHost, cmdStarted, procVars>>

HandleCommandExecutionError(c) ==
    /\ UncalledOps
    /\ Found(c)
    /\ cmdStatus' = [cmdStatus EXCEPT ![c] = "failed"]
    /\ hostStatus' = [hostStatus EXCEPT ![c] = "ExecFailed"]
    /\ UpdateTaskProgress({cmdTask[c]}, hostStatus')
    /\ UNCHANGED <<cmdTask, cmdHost, cmdStarted, procVars>>

\* The goroutines and requests of the process are gone, the rows and what the
\* agents hold are not.  Nothing at start-up looks at unfinished tasks.
ServerRestart ==
    /\ jobs' = [c \in Commands |-> [a \in Attempts |->
            IF jobs[c][a] \in {"sending", "failing"} THEN "gone" ELSE jobs[c][a]]]
    /\ expired' = {}
    /\ halfGone' = {}
    /\ calls' = [r \in Requests |-> NoCall]
    /\ UNCHANGED <<taskVars, rowVars>>

-----------------------------------------------------------------------------
UserStep ==
    \/ \E t \in Tasks, C \in SUBSET Fresh : C # {} /\ \E hostOf \in [C -> Hosts] : CreateTask(t, hostOf)
    \/ \E t \in Tasks : StartTask(t) \/ CancelTask(t)
    \/ \E t \in Tasks : \E C \in SUBSET Rows(t) : StartTaskRolledBack(t, C)
    \/ \E c \in Commands : RetryFailedCommand(c) \/ RetryRolledBack(c)
    \/ \E r \in Requests, op \in {"stop", "delete", "add", "remove"},
          t \in Tasks, h \in Hosts \cup {NoHost} : CheckCall(r, op, t, h)
    \/ \E r \in Requests : StopTask(r) \/ DeleteTask(r) \/ RemoveTaskHost(r)
    \/ \E r \in Requests, c \in Commands : AddTaskHosts(r, c)
    \/ \E T \in SUBSET Tasks : CleanupOldRecords(T)

DispatchStep ==
    \E c \in Commands, a \in Attempts :
        SendSucceeds(c, a) \/ DispatchFailedCommand(c, a) \/ DispatchFailedHost(c, a)

AgentStep ==
    \/ \E c \in Commands, a \in Attempts, k \in ResultKinds :
            HandleCommandResult(c, a, k) \/ ResultDropped(c, a, k)
    \/ \E c \in Commands, a \in Attempts : AnswerLost(c, a)

ServerStep ==
    \/ \E C \in SUBSET Commands : FindTimeouts(C)
    \/ \E c \in Commands : HandleTimeout(c) \/ HandleCommandExecutionError(c)
    \/ \E h \in Hosts : DisconnectHosts(h) \/ DisconnectCommands(h) \/ HandleAgentDisconnection(h)
    \/ ServerRestart

Poll == \E t \in Tasks : GetTaskStatus(t)

Next == UserStep \/ DispatchStep \/ AgentStep \/ ServerStep \/ Poll

Spec == Init /\ [][Next]_vars
-----------------------------------------------------------------------------
(***************************************************************************)
(* Properties.                                                             *)
(***************************************************************************)

Agree(c) == Agrees(cmdStatus[c], hostStatus[c])

\* A command id that was not generated yet has no row, no sending and no pending
\* timeout: ids are never reused.
FreshUnused ==
    \A c \in Fresh : /\ cmdStatus[c] = "absent" /\ hostStatus[c] = "absent"
                     /\ c \notin expired
                     /\ \A a \in Attempts : jobs[c][a] = "none"

\* The two rows of a command may disagree only where one of the two writers that
\* use no transaction (updateCommandDispatchFailed, HandleHostConnectionChange)
\* left its mark: a Command that is "failed", or a CommandHost whose dispatch
\* "Failed".  Whatever the interleaving, every other handler keeps them equal.
MismatchOnlyByPlainWrites ==
    \A c \in Commands : Agree(c) \/ cmdStatus[c] = "failed" \/ hostStatus[c] = "Failed"

\* A task that is over has a finish time and a running task has a start time,
\* although five handlers write the status and two of them as a side effect.
TimesMatchStatus ==
    \A t \in Tasks : /\ Completed(taskStatus[t]) => finishedAt[t]
                     /\ taskStatus[t] = "running" => startedAt[t]

\* No command is handed to the dispatcher before its task was started; retries
\* and the late marks of timeouts and broken streams cannot start one either.
\* (It needs transactions that do not fail and the operations that are called.)
NothingSentBeforeStart ==
    ~DbFaults /\ ~UncalledOps =>
        \A c \in Commands, a \in Attempts : jobs[c][a] # "none" => startedAt[cmdTask[c]]

\* A running command can be timed out: the monitor skips a command without a
\* start time, so one that runs must have it.
RunningCanTimeOut ==
    "bare" \notin ResultKinds =>
        \A c \in Commands : cmdStatus[c] = "running" => cmdStarted[c]

\* Unless hosts are removed from the task, a task becomes "completed" only when
\* every one of its CommandHosts is completed: a failed, timed-out, canceled or
\* unfinished host is never lost in the counting.
CompletedOnlyIfAllAre ==
    [][ "remove" \notin HostEdits =>
        \A t \in Tasks : taskStatus[t] # "completed" /\ taskStatus'[t] = "completed" =>
            \A c \in Commands : cmdTask[c] = t => hostStatus'[c] = "Completed" ]_vars

\* When progress is stored, a failed host shows: failed_hosts is zero exactly when
\* no host of the task failed, and completed_hosts is the true count.  (The number
\* of failures itself is only a lower bound when hosts fail in different ways.)
FailuresShow ==
    [][ \A t \in Tasks : completedHosts'[t] # completedHosts[t] \/ failedHosts'[t] # failedHosts[t] =>
            LET failing == {c \in Commands : cmdTask[c] = t /\ hostStatus'[c] \in FailKinds}
            IN  /\ failedHosts'[t] = 0 <=> failing = {}
                /\ failedHosts'[t] <= Cardinality(failing)
                /\ completedHosts'[t] =
                     Cardinality({c \in Commands : cmdTask[c] = t /\ hostStatus'[c] = "Completed"}) ]_vars

-----------------------------------------------------------------------------
(***************************************************************************)
(* The abstract specification.                                             *)
(***************************************************************************)
Contract == INSTANCE TaskContract
    WITH phase <- [t \in Tasks |-> Stage(taskStatus[t])],
         begun <- startedAt, Unasked <- DbFaults \/ UncalledOps

\* Whoever watches the status and the start time of tasks sees TaskContract: the
\* twelve writers of a task's row, several of them recomputing the status from
\* other tables, never bring it back to pending, never revive a deleted task, and
\* reopen one that is over only if it had begun.
ImplementsContract == Contract!Spec

-----------------------------------------------------------------------------
(***************************************************************************)
(* Liveness.  LiveSpec assumes of the environment that somebody keeps      *)
(* asking for the status of each task (GET /tasks/:id/status; a cached     *)
(* answer expires, so the query is computed again), and no other fairness. *)
(* AutoSpec has no such client: only the goroutines, the streams and the   *)
(* timeout monitor of the server are fair.                                 *)
(***************************************************************************)
LiveSpec == Spec /\ \A t \in Tasks : WF_vars(GetTaskStatus(t))

AutoSpec ==
    /\ Spec
    /\ WF_vars(DispatchStep) /\ WF_vars(AgentStep)
    /\ \A c \in Commands : WF_vars(HandleTimeout(c))
    /\ \A h \in Hosts : WF_vars(DisconnectCommands(h))

\* Every host of the task has ended, one way or another.
HostsDone(t) ==
    /\ Exists(t) /\ Rows(t) # {} /\ totalHosts[t] = Cardinality(Rows(t))
    /\ \A c \in Rows(t) : hostStatus[c] \in FailKinds \cup {"Completed", "Canceled"}

OneFailKind(t) == Cardinality({hostStatus[c] : c \in Rows(t)} \cap FailKinds) <= 1

\* When every host has ended, and those that failed failed in the same way, a
\* polled task does not stay unfinished: GetTaskStatus makes up for the handlers
\* that write CommandHosts and leave the task alone.
FinishIsNoticed ==
    \A t \in Tasks :
        HostsDone(t) /\ OneFailKind(t)
            ~> Completed(taskStatus[t]) \/ ~(HostsDone(t) /\ OneFailKind(t))

-----------------------------------------------------------------------------
(***************************************************************************)
(* What the documents say and the code does not do.  TLC refutes each of   *)
(* these; the README says with which constants.                            *)
(***************************************************************************)

\* requirements.md 2.5: when all hosts have ended the task status is updated to
\* completed or failed.
EndIsNoticed ==
    \A t \in Tasks : HostsDone(t) ~> Completed(taskStatus[t]) \/ ~HostsDone(t)

\* requirements.md 2.5, the same for the removal of hosts: a task is completed
\* only when all of its hosts are.
CompletedMeansAllHosts ==
    [][ \A t \in Tasks : taskStatus[t] # "completed" /\ taskStatus'[t] = "completed" =>
            \A c \in Rows(t) : hostStatus'[c] = "Completed" ]_vars

\* TASK_DISPATCH_IMPLEMENTATION.md, task states: canceled is an end state.
CanceledIsFinal ==
    [][ \A t \in Tasks : taskStatus[t] = "canceled" => taskStatus'[t] = "canceled" ]_vars

\* TASK_DISPATCH_IMPLEMENTATION.md, command states: completed is an end state.
CompletedCommandIsFinal ==
    [][ \A c \in Commands : cmdStatus[c] = "completed" => cmdStatus'[c] = "completed" ]_vars

\* TASK_DISPATCH_IMPLEMENTATION.md, transactions: functions that touch several
\* tables do it in one transaction, so at rest the two rows of a command agree.
RowsAgreeAtRest ==
    (halfGone = {} /\ \A c \in Commands, a \in Attempts : jobs[c][a] # "failing")
        => \A c \in Commands : Agree(c)

\* TASK_DISPATCH_IMPLEMENTATION.md, failed transactions: everything is rolled
\* back, so a start that failed has sent nothing.
RollbackSendsNothing ==
    \A c \in Commands, a \in Attempts : jobs[c][a] # "none" => startedAt[cmdTask[c]]

\* requirements.md 3.3: a connection lost during execution marks the CommandHost
\* as failed in execution, not as a failed dispatch.
LostConnectionIsExecFailure ==
    [][ \A c \in Commands : hostStatus[c] = "Running" /\ halfGone' # halfGone
            => hostStatus'[c] \in {"Running", "ExecFailed"} ]_vars

\* database_optimizer.go, CleanupOldRecords: the commands without a task are cleaned up
\* with the old tasks.
NoOrphans ==
    \A c \in Commands : cmdStatus[c] # "absent" => taskStatus[cmdTask[c]] # "deleted"
=============================================================================
