# devops-manager in TLA+

A TLA+ model of devops-manager: a server that sends shell commands to agents on
many hosts and keeps track of them in MySQL and Redis, and the agent that runs
them. Nine modules model the parts that keep state, an abstract specification says
what a task promises, TLC checks all of it on small instances, and TLAPS proves the
invariants of eight modules, and that two of them implement the abstract specification,
for every instance.

Paths below are relative to `src/`. "Service" is `server/pkg/service`,
"controller" is `server/pkg/controller`.

## 1. Inventory

| Part | State | Operations | Talks to | What is hard |
|---|---|---|---|---|
| Task service (`service/task_service.go`, `api/models`) | tables `tasks`, `commands`, `commands_hosts` | create, start, stop, cancel, delete a task; add and remove hosts; store a result; record failed dispatches and lost hosts; retry; status queries, which also store progress | dispatcher (interface to the gRPC controller), cache, queue, audit log | goroutines started inside transactions, pairs of writes without one, checks before a transaction, progress recomputed by five handlers |
| Timeout monitor (`service/timeout_monitor.go`) | none of its own | every 30 s: read the running commands, mark those over time | task service | acts on rows it read earlier |
| HTTP task controller (`controller/http_task_controller.go`) | none | validates requests and calls the task service | task service | requests overlap |
| Task queue manager (`service/task_queue_manager.go`) | priority queue, map of running tasks, host loads, channels of the workers, an RWMutex | enqueue, scan once a second, execute, retry after a delay, cancel, status, load reports, shutdown | task service (StartTask) | lock taken twice, slice changed while scanned, full channels, closed channels |
| Connection pool and gRPC task controller (`controller/grpc_task_controller.go`) | map agent → stream, last ping, streams | connect, register, message, send, monitor, disconnect, stop | task service (results, lost hosts) | reconnections race the end of old streams; connections used after the lock is released |
| Host service (`service/host_service.go`, host controllers) | table `hosts`, Redis keys `pending_host:*`, `host:*`, `host_status:*`, an RWMutex | register, report, approve, reject, get, update, delete | agents, administrator | two stores without a transaction, one operation without the lock, soft deletion |
| Agent host loop (`agent/pkg/service/host_service.go`, `agent/pkg/grpc/client.go`) | connected, registered | connect, register every 30 s, report | host service | decides from error texts; lost replies |
| Agent task executor (`agent/pkg/service/task_service.go`, `utils/command.go`, task controllers) | records of executions, once per controller; processes | execute, cancel, clean up, answer | HTTP or gRPC callers | status written by three goroutines; two services that do not know of each other; commands that outlive the agent |
| Task cache (`service/task_cache_service.go`) | six families of Redis keys | fill after a query, delete after a write, expiry | task service | deletions and fills race commits |
| Batch updates (`task_service.go`, `service/database_optimizer.go`) | a channel, two buffers, a ticker | queue an update, collect, write grouped batches, shut down | MySQL, progress computation | groups written in map order, full queue, lost batches, closed channel; nobody queues anything yet |
| Database optimizer (the rest of `database_optimizer.go`) | none | clean up old records; indexes, reports | MySQL | soft deletion against raw subqueries |
| Audit service (`service/audit_service.go`, log queries of `task_service.go`) | tables `audit_logs`, `task_execution_logs`, `execution_statistics` | log, count a day, clean up, read page by page | task service, HTTP task controller | logs beside transactions, an hourly ticker that must hit five minutes, days in two time zones, pages cut by offset while rows come and go, counted and read by two statements, or cached |
| System load monitor, configuration, web pages, generated code | samples; none | | | not modelled, see section 8 |

What makes each part correct:

* task service: the two rows of a command tell the same story; a task's counts and
  status follow its hosts; a task is completed only if its hosts are; whatever runs
  can time out; nothing is sent before its start; a task whose hosts have ended ends;
* queue: entries are neither lost nor doubled; slots and load are released exactly
  once; every task is served; new tasks respect the capacity;
* pool: what it offers can be used; a broken stream leaves it and fails its commands;
* admission: nobody is both waiting and admitted; the cache does not outlive the row;
  an agent never stops asking, an admitted one reports;
* executor: the record follows the process; within a service a task id has one live
  command; every call is answered;
* cache: no uncommitted answer, no answer that stays stale for good;
* batches: a row shows the last result of its command, and a code that fits its status;
  no update stays in memory;
* audit: a day is counted, with the tasks that are there; old rows go; a reader of pages
  misses nothing.

## 2. Modules and how they correspond to the code

The map in `PROJECT.json` gives the source lines of every definition.

```
TaskContract                 what somebody who watches a task may rely on
   ^ implemented by (INSTANCE ... WITH)
   |-- TaskLifecycle         one transaction = one step; any number of tasks
   '-- ProgressIsolation     one statement = one step; snapshots, row locks, deadlocks
TaskProgress                 the rules for statuses, used by these two and BatchUpdates
```

**`TaskContract`** – the abstract specification: a task is created once, is pending,
active or over, and may be deleted; it never becomes pending again, an active task has a
start time, which stays, and a deletion is final. A task that is over may become active
again: a retry or a late result reopens it, and so does the code. `Unasked` says whether
commands may have been sent by a start that was rolled back; then a task that is over
without ever having begun may become active too. Both instances map the status column to
the phase (`Stage`) and the start time to `begun`.

**`TaskProgress`** – pure operators: the status of a task from the counts of its hosts
and the statuses a result stands for. Their mutants serve three modules.

**`TaskLifecycle`** – the task service, the timeout monitor and the HTTP operations.
The variables are the columns the handlers read or write (`taskStatus`, `totalHosts`,
`completedHosts`, `failedHosts`, `startedAt`, `finishedAt`; per command `cmdTask`,
`cmdHost`, `cmdStatus`, `cmdStarted`, `hostStatus`) and what the process has under way:
`jobs` (each sending of a command, from the goroutine to the agent's last answer),
`expired` (commands a timeout check has read and not marked yet), `halfGone` (hosts
whose loss is recorded in one table only), `calls` (requests between their check and
their write). A transaction is one action. A failing transaction changes nothing, so
it is a step only where goroutines were started inside it (`StartTaskRolledBack`,
`RetryRolledBack`) or a message is used up (`ResultDropped`). Where the code writes
without a transaction, each statement is an action (`DispatchFailedCommand` /
`DispatchFailedHost`, `DisconnectHosts` / `DisconnectCommands`); where it checks
outside of one, the check and the write are two (`CheckCall` and `StopTask`,
`DeleteTask`, `AddTaskHosts`, `RemoveTaskHost`; `FindTimeouts` and `HandleTimeout`).
`UpdateTaskProgress` is `updateTaskProgressInTransaction`, with its peculiarity: the
failures of several kinds are not added up, the last row of a `GROUP BY` without order
counts, hence a nondeterministic choice. `UncalledOps` switches on three exported
operations no code calls. A *bare* result is one without times, the only kind the
shipped agent sends: it changes no status and clears `started_at`.

`CleanupOldRecords` soft deletes completed and canceled tasks. "Old" is a matter of time
and left open, so any set of them may go.

**`ProgressIsolation`** – StartTask, CancelTask, GetTaskStatus, the timeout and the result
of a command as lists of statements (`Program`), run by database connections against one
task. A plain `SELECT` reads the snapshot of the transaction's first one (`View`), an
`UPDATE` the latest committed row (`Current`), which it locks until the end; a cycle of
waits rolls one transaction back (`DeadlockVictim`). `FindTimeouts` and `HandleTimeout`
have become one begin, since the transaction looks at nothing the check has read. This is
where TaskLifecycle's "one transaction, one step" is questioned: both are shown to obey
the same contract.

**`BatchUpdates`** – `OptimizedHandleCommandResult` with its two updates, the queue, the
buffers and the processor's `select`. A batch is written group by group, in every order a
Go map may give (`Written`). `disturbed` remembers the rows for which order was lost and
why, so that the property can say that these are the only ways.

**`AuditTrail`** – hours of a few short days; transactions with the goroutines that log
them, the nightly job and the requests that do its halves, the cleanup that soft deletes
old tasks (`CleanupOldRecords`), and a reader who goes on to the next page as long as the
total says there is one. The ticker's place in the hour (`phase`) is fixed when the server
starts, by the minute it starts in, and may be one in which the nightly work is never done;
such nights are in `missed`, with those that failed. A page is two actions, `CountRows` and
`FindPage`, because `QueryAuditLogs`, `GetTaskLogs` and `GetTasks` run Count and Find
without a transaction; a page of tasks may come from the list cache instead
(`AnswerFromCache`), which a goroutine fills later (`CacheTaskList`) and which expires or is
invalidated at any time (`EntryGoes`). `shaken` remembers which of three things happened to
the reader that may cost it rows: a row in front of the list between the Count and the Find
of the last page, rows that were removed in front of it, or a cached page that was outdated.

**`TaskQueue`** – the queue manager. A critical section is one action, except for the
scan of `processQueue`, whose iterations are actions (`ScanEnds`, `ScanSkips`,
`ScanDispatches`, `ScanPutsBack`) because workers receive without the lock, and for the
places where a goroutine asks for the lock it holds (`lock = "stuck"`). Sends on and
receives from closed channels after `Shutdown` set `crashed`. Nothing in the HTTP layer
reaches `StartTaskWithQueue` yet. `Throttling` holds the values of `AdaptiveThrottling` a run
allows; the service ships with true, and then the first scan asks for the lock it holds.

**`ConnectionPool`** – streams, their handlers, pool, monitor and senders; a send, a
removal and the notification of the task service are separate steps. Of the task service
it keeps `running`, the agents with a running command. The agent id "" of a message
without a host id is one of the agents.

**`HostAdmission`** – the host service and the agent's loop. A request is a program over
MySQL and Redis commands (`Steps`), interleaved with other requests as far as the RWMutex
allows (`RejectHost` takes no lock). Faults (a failed command, a lost reply, a dying
server or agent) are bounded by `MaxFaults`. Hosts only meet at the mutex, so one host
with several requests shows every conflict.

**`AgentExecutor`** – executions with the process and goroutine of each, the callers
blocked in `ExecuteTask`, and the process of the agent. The HTTP and the gRPC controller
each call `NewTaskService()`, so there are two services with a `record` each, and a caller
looks only into the one of its controller (`Via`). Commands are processes of their own: those
that run when the agent dies are `orphans` afterwards, which the new agent does not know.
The shipped agent serves gRPC without registering a service; the handler is modelled as
written, for `GrpcCallers`.

**`TaskCache`** – key families, writes with the goroutine that deletes keys, queries
with the goroutine that fills them. An answer is the number of commits it has seen, so
that stale means older than the last commit that changes the family.

`MC*` modules give TLC the sets and functions a cfg cannot write.
The proofs are in modules of their own, one `_proofs` module each for `TaskLifecycle`,
`ProgressIsolation`, `BatchUpdates`, `AuditTrail`, `TaskQueue`, `ConnectionPool`,
`HostAdmission` and `AgentExecutor`.

The definitions commented "mutant" are faulty variants of the definition that follows
them. Each property is known to fail when the definition is replaced by its variant.

## 3. Runs

Every run is `tlc -config <cfg> <module>`. The passing ones are exhaustive for their
constants; sizes are distinct states.

| Run | cfg (states) | Shows |
|---|---|---|
| `lifecycle_retry` | `TaskLifecycle_retry` (412 k) | One task with two commands, each sent up to twice. Rows disagree only where plain writes left their mark; nothing is sent before the start, although a retry looks at the command only; whatever runs can time out; completed means all hosts; a polled task whose hosts have ended, with failures of one kind, ends; `TaskContract` is implemented. |
| `lifecycle_faults` | `TaskLifecycle_faults` (425 k) | Two hosts added and removed by an overlapping request, bare and final results, stops, deletions, cleanups, rollbacks, restarts and uncalled operations: types (`total_hosts` never below zero), times and counts still hold. |
| `isolation` | `ProgressIsolation` (236 k) | Two transactions at a time, three requests in all, each command answered once: the two rows of a command agree although results and timeouts lock them in opposite orders; a cancel overwrites no result; `TaskContract` is implemented by what is committed; the end of the hosts is stored in the end, although every single computation may be from an old snapshot. |
| `batch` | `BatchUpdates` (207 k) | Two results of six kinds, a queue and batches of two, one fault (a failed transaction or the shutdown). |
| `audit` | `AuditTrail` (6.0 M) | Three days of three hours, a time zone ahead of UTC, one day of retention, two changes, a ticker in either part of the hour, and two events of which one may be a fault: a night that is not missed leaves the day before counted, with the tasks that are still there, and nothing expired in the logs, whatever earlier nights missed; a reader misses rows only in the three ways the property names, also when its pages are the cached ones of another. |
| `queue_calls` | `TaskQueue_calls` (4.8 M) | Two tasks and workers: cancels, retries, put-backs, status queries, load reports, idle hosts, shutdown and both settings of adaptive throttling against the scan. Slots and entries stay accounted for, new tasks fit, order is kept by everything but the put-back, up to the moment a goroutine blocks itself or panics. |
| `queue_served` | `TaskQueue_served` (247 k) | Three tasks, two of them sharing each host, one worker with a channel of one, throttling on or off, failures, retries, status queries and idle hosts: load is exact; a queued task is taken out of the queue, unless a goroutine waits for its own lock, a scan spins on full channels, or one of its hosts was given up while it had no load. |
| `pool` | `ConnectionPool` (110 k) | Two streams, an agent with and one without an id, two senders, the monitor: only live streams are offered; a broken one leaves the pool; commands of a broken stream do not stay running. |
| `admission` | `HostAdmission` (40 k) | Two requests at a time of all seven kinds, one fault anywhere: waiting list and cache agree with the table while nothing fails; the agent keeps its host listed or admitted, an admitted host reports, a deleted one leaves the cache. |
| `executor` | `AgentExecutor` (114 k) | One HTTP and one gRPC caller with a service each, two task ids of which one is refused, two executions, cancels, cleanups, restarts that leave commands behind: the record follows the process, within a service an id has one live command that nobody canceled, every call is answered. |
| `cache` | `TaskCache` (352 k) | Two writers, two commits, failing deletions: nothing uncommitted is cached, and no stale answer stays for good. |
| `admission_deleted` | `HostAdmission_deleted` | violation of `ApprovalTakesEffect`: a deleted host can never be admitted again |

### Bounds

`MaxSends` 2 is one retry, the least that lets an old answer meet a new sending; more
sendings repeat it. Two commands are the least in which hosts of one task differ; tasks
do not share rows, so one task is enough (the proofs cover any number). One request
between check and write, against every transaction, shows each stale check; the double
removal needs two. Queue: three entries and a channel of one make the channel overflow
while a worker is about to receive; `MaxRetries` 1 stands for 3; the limits of a host, of
running tasks and of the queue are reached in one of the two runs. Pool: two streams of one
agent are one reconnection.
Admission: two requests, since the mutex lets at most a writer and a `RejectHost`, or
readers and a `RejectHost`, overlap; one fault, after which everything must recover.
Executor: two executions of one id, in one service or in both. Cache: `status` and `progress`
are the only families computed from one another; `stats` stands for the ones with their
own query, and for those `CreateTask` deletes too. Isolation: two connections are the
least for which snapshots and locks matter (a cycle of waits between three repeats the
one between two); two commands are the last two hosts of a task; three requests are a
start, and a cancel and a timeout or a second start against it. Batches: two updates of
one command can share a batch, and fall on both sides of a full queue. Audit: three days
are two nights, either of which may be missed; two events are a reading with another reading
before it, which leaves its pages in the cache, with a cleanup, or with a fault; pages of one
row have a boundary at every row.

`CHECK_DEADLOCK FALSE` appears where the system may stop: a pool whose streams are used
up, a queue that is shut down or has blocked itself (`queue_calls`, `queue_served`), a batch
queue and a calendar that have reached their bounds (`batch`, `audit`).

### Fairness

* `TaskLifecycle!LiveSpec`: a client keeps asking for the status. This is an assumption
  about the environment: nothing in the repository polls tasks. The goroutines, agents
  and monitors get no fairness.
* `TaskQueue!FairSpec`: weak fairness for the running scan, for a receiving worker and for
  a status query that has the read lock (it goes on, or a writer comes in between), strong
  fairness for those that wait for the mutex, which Go hands over in turn.
* `ConnectionPool!FairSpec`: a handler whose `Recv` failed goes on, a sender tells the
  task service, the monitor's ticker fires. No stream has to be opened, used or broken.
* `HostAdmission!FairSpec`: commands return (with an answer or an error), the mutex is
  handed over, Redis keys expire, the agent's two tickers fire. `ApprovingSpec` adds an
  administrator who approves what waits.
* `AgentExecutor!FairSpec`: goroutines run, deadlines pass. Commands need not end, not
  even when killed (`Run` waits for whoever holds the output pipes). `PatientSpec` leaves
  the deadlines out.
* `ProgressIsolation!Spec`: statements return; InnoDB hands a row's lock out in the order
  of the requests (strong fairness) and resolves cycles. `PolledSpec` adds a client who
  asks for the status, as above. Requests, results and timeouts need not come.
* `BatchUpdates!Spec`: the goroutines run and the processor's ticker fires; Go's `select`
  chooses at random among ready cases, hence strong fairness for the ticker. Results need
  not come.
* `TaskCache!ExpirySpec`: keys expire. Fills and deletions may be delayed for ever.

## 4. Proofs

For every number of tasks, hosts, commands, requests, agents, streams, senders, database
connections, queue entries, batches, log rows, days, workers and executions:

| Theorem | Says |
|---|---|
| `TypeCorrect` | `Spec => []TypeOK` for `TaskLifecycle` |
| `TimesAlwaysMatch` | `[]TimesMatchStatus` |
| `MismatchIsBounded` | `[]MismatchOnlyByPlainWrites` |
| `RunningAlwaysCanTimeOut` | `[]RunningCanTimeOut` |
| `NothingIsSentEarly` | `[]NothingSentBeforeStart` |
| `CompletedIsTrue` | the action property `CompletedOnlyIfAllAre` |
| `FailuresAreShown` | the action property `FailuresShow` |
| `ServiceKeepsContract` | `Spec => Contract!Spec`: `TaskLifecycle` implements `TaskContract` |
| `CommittedRowsAgree` | `[]RowsAgree` for `ProgressIsolation` |
| `CancelSparesResults` | the action property `CancelKeepsResults` |
| `IsolationKeepsContract` | `Spec => Contract!Spec`: what `ProgressIsolation` commits implements `TaskContract` |
| `BatchTypes` | `[]TypeOK` for `BatchUpdates` |
| `CodesBelongToStatuses`, `LastResultsWin` | `[]CodeMatchesStatus`, `[]LastResultWinsUnlessDisturbed` |
| `AuditTypes` | `[]TypeOK` for `AuditTrail` |
| `PagesAreComplete` | `[]NothingSkipped` |
| `StatisticsAreComplete`, `CleanupCatchesUp` | `[]GoodNightCounts` and `[]ExpiryCatchesUp` |
| `QueueTypeCorrect` | `[]TypeOK` for `TaskQueue` |
| `RunningHasWorker`, `EntriesPlacedOnce` | `[]RunningIsAssigned`, `[]EntryInOnePlace` |
| `LoadStaysExact`, `NewTasksFit` | `[]LoadIsExact`, `[]NewTasksWithinCapacity` |
| `EntriesNotLost`, `QueueOrder` | the action properties `NothingLost`, `OrderKept` |
| `PoolTypeCorrect`, `PoolIsLive` | `[]TypeOK` and `[]PoolHoldsLiveHandlers` for `ConnectionPool` |
| `AdmissionTypeCorrect` | `[]TypeOK` for `HostAdmission` |
| `AdmittedIsNotPending`, `DeletedIsNotCached` | `[]PendingIsWaiting`, `[]CacheIsCurrent` |
| `ExecutorTypeCorrect` | `[]TypeOK` for `AgentExecutor` |
| `ExecutorStatus`, `ExecutorExclusion` | `[]StatusFollowsProcess`, `[]OneCommandPerService` |

Assumptions: the commands of `TaskLifecycle` and the tasks of the queue are finitely many,
a queued task has a list of hosts, there is a worker, the commands of `ProgressIsolation`
come in a finite sequence (`SeqAssumption`), the results of `BatchUpdates` are of the six
kinds, a day has more than two hours, bounds and capacities are natural numbers, the
switches are Boolean, and the nulls are none of the values (`NoneAssumption`,
`NoneIsNoEntry`, `NoStats`). All of them are evaluated by the runs. No theorem assumes
anything of the behaviour.

*`Typed`* is `TypeOK` and `FreshUnused`: an id that was not generated has no row, job or
timeout. Without it a timeout might be handled for a command of no task, and the task's
row would be looked up at a null.

*`Safe`* adds to `Typed` the times, the rows, `RunningCanTimeOut` and `OnlyStartedAct`.
`NothingSentBeforeStart` is not inductive, because a retry sends whatever failed or timed
out: those commands must belong to a started task too, which is `OnlyStartedAct`.
`MismatchOnlyByPlainWrites` needs that the two rows are deleted together (`RowsPaired`).
`TimesMatchStatus` rests on a lemma about the stored progress (`ProgressTimes`): the
status and the times it stores come from the same counts.

*`Counted`* says that `total_hosts` is no less than the commands ever created for the
task, if hosts are not removed. With it, "completed = total and nothing failed" means
that all are: the completed rows are as many as all rows, so they are the same set. The
lemma on failures takes the choice among the kinds apart: a failed host of some kind
makes the chosen count positive, and no count exceeds the number of failed hosts.

*Refinement*: the initial states map to initial states, and under `Safe` every action
maps each task to a step of `TaskContract` or leaves its phase and start time alone. The
proof has one step per action and rests on two lemmas: what stored progress may do to a
task that exists (`ProgressTimes` gives the start time with the status running), and
that a command which acts belongs to a task that has begun (`OnlyStartedAct`), without
which a canceled task that was never started could be reopened. With `DbFaults` it can,
by commands of a start that was rolled back, and so can `HandleAgentDisconnection`, one of
the uncalled operations; hence `Unasked <- DbFaults \/ UncalledOps`. In
`ProgressIsolation`, where a deadlock may roll a start back, `Unasked` is always true.

*Pool*: `TypeOK` and `PoolHoldsLiveHandlers` are inductive together; a handler leaves its
loop only in a step that removes the entry of its agent, whichever stream it names.

*Isolation*: the invariant has a part for the committed rows (`DbOK`, `RowsAgree`), the
row locks (`RowLocks`: no two open transactions have written one row) and, for each open
transaction, its shape, that it writes both rows of a command or none (`Closed`), that the
progress of the task is written last, and its snapshot knows of no start that is not
committed (`ProgressLast`), and that what it has written so far was made from rows which
still are the committed ones (`OwnCommands`, `OwnTask`). The last two are what the locks
are for: a row that was written cannot change under the writer, so at the commit both
halves of a pair come from the same state, whatever the snapshot said. `RowsAgree` alone
is not inductive, since the pair is complete only in the private copies until then. A
rollback drops the copy, and another transaction's commit touches none of the locked rows.
The refinement follows from `OwnTask` and `ProgressLast`: whichever snapshot a status was
computed from, what is committed with it keeps the start time that was committed before.

*Batches*: `CodeMatchesStatus` holds row by row: each update is honest about its own code,
and a group is written with the status and the code of one of its members (`Honest`,
`GroupRowIsHonest`). `LastResultWinsUnlessDisturbed` speaks of the moment at which nothing
waits; the invariant (`LatestWins`) says where the last result is before: at the end of
what the queue holds for the row, else at the end of what the buffer holds, else in the
row (`Shows`), and while the handler is between its two updates the table it has not
reached yet still shows the result before (`Latest`). What a batch leaves in a row is a fold over its groups in any
order a Go map may give. That every order leaves the update of a row with a single one
(`WrittenRow`) rests on `FoldExists` and `FoldUnique`, which say that the library's fold
over a sequence of groups is the row after the first, after the second, and so on.

*Audit*: `LogsInOrder`, `StatsAreTrue`, `JobsAreTrue` and `ReaderIsAhead` are inductive
together with the types. A count is true (`True`) if it lies between the tasks of the day
that are there and those that were created: removals lower the first and leave the second,
so a count that is under way stays true while tasks go, and after its day nothing is added,
because tasks are only created at the present hour; `DayMonotone` and `DayUnique` do the
arithmetic of days and hours for any length of the day. `ReaderIsAhead` is about the place
of a row in the order of the list (`Place`), not in the table: new rows move the rows of a
list that is newest first away from its front, deleted ones of the audit log come from its
end, so a row that has been passed stays passed, whatever the pages in between were read
with. Between a Count and its Find it adds that the total covers every row the reader
wants, which is what a row in front of the list breaks and the next Count restores; hence
`shaken` forgets "grown" there, and nowhere the other two. A cached page that is up to date
is the page a query would have read. `NightWork` follows the nightly job through the hour of
one o'clock (`Working`: what is counted and what is young at each of its places) and keeps
the result for the days after: nothing becomes uncounted, and rows that are added later are
younger (`NightStays`). A night on which the ticker is late, a statement fails or the server
restarts is in `missed` from that step on; nothing is said of it, and all of what the
theorems say of the next good night holds although it was missed.

*Queue*: `EntryInOnePlace` needs companions. `PlacedOnce` extends it to all pairs of
places and to the positions within the channels; `InTime` says that every entry was
created no later than `clock`, so a new one is like no other; `Retried` and `RunningOwn`
tie the running map to the entries (a task in the map holds its own entry, one that sleeps
has been tried). `RunningIsAssigned` then holds because a slot is taken in the step that
puts the entry in a channel and freed in the one in which the worker gives it up.
`LoadIsExact` compares a counter with a sum over a set that grows and shrinks by one entry
per step. What is needed of the sum is that adding an entry adds its part, in whatever
order the fold visits the set; the lemmas `FoldExists`, `FoldUnique`, `FoldAnyOrder` and
`LoadOfMore` show it of the library's definition. Induction is replaced there by a
first-order argument: a counterexample of least size, or a least subset, exists by
well-foundedness (`LeastNumber`, `MinimalSubset`), and taking one element away gives a
smaller one. `NewTasksWithinCapacity` is stated with cardinalities of sets of positions; a
put-back is at most the entry that left. `OrderKept` is proved for queues of any length
from where `insertTaskByPriority` inserts.

*Admission*: `LockExclusion` (a writer is alone, readers only meet readers) and
`FindIsCurrent`: what a request that holds the lock has read is still so, since the only
writer without the lock, `RejectHost`, never touches the table of hosts. With them
`PendingIsWaiting` and `CacheIsCurrent` are inductive.

*Executor*: `ProcShape` and `CancelShape` say which statuses, results and end times go
with each place of the goroutine, `NotYetMade` that executions to come are untouched, and
`RunningIsRecorded` that an execution which says "running" is the one on record for its
task in its own service. `OneCommandPerService` is not inductive without the last: the check
of `ExecuteTask` looks at that record, not at the processes. It says nothing of two
services, nor of commands an earlier agent left behind, and cannot (section 5).

Only model-checked: all liveness properties (`FinishIsNoticed`, `StableEndIsStored`,
`EveryUpdateIsFlushed`, `ServedUnlessHeldUp`, `BrokenLeavesPool`, `BrokenFailsCommands`,
`DeletedIsForgotten`, `KeepsAsking`, `AdmittedReports`, `CallsAreAnswered`,
`EventuallyFresh`), whose fairness is out of the prover's reach, and `TypeOK` of
`TaskCache`, which has no proof module: its only other property is a liveness one, and the
keys a write deletes are picked with `SelectSeq`, which the provers cannot unfold.

## 5. Deviations

Sections "What the documents say and the code does not do" of the modules state claims
that TLC refutes. One of them is a run. The others can be put in place of the properties
of the cfg named here (as INVARIANT or PROPERTY), with the constants changed as given:

| Property | cfg and changes | What the code does |
|---|---|---|
| `EndIsNoticed` | `TaskLifecycle_retry`, `MaxSends = 1` | hosts that fail in two ways are not added up: the task is never over (`task_service.go:1440`; requirements.md:41 "在所有主机完成执行后自动更新任务状态为已完成或失败") |
| `EndIsNoticed` | `TaskLifecycle_retry`, `MaxSends = 1`, `AutoSpec`, one command | a failed dispatch or a lost agent ends the last host and leaves the task running until its status is asked for (`task_service.go:526`) |
| `CompletedMeansAllHosts` | `TaskLifecycle_faults`, two requests | two removals of one host subtract two from `total_hosts` (`task_service.go:1056`) |
| `CanceledIsFinal` | `TaskLifecycle_retry` | a late result turns a canceled task into completed or failed (`task_service.go:1465`) |
| `CompletedCommandIsFinal` | `TaskLifecycle_retry` | a timeout decided earlier overwrites a result (`timeout_monitor.go:157`) |
| `RowsAgreeAtRest` | `TaskLifecycle_retry` | two plain writes with another write between them (`task_service.go:526`, `:1551`) |
| `RollbackSendsNothing` | `TaskLifecycle_faults` | commands are sent by a start that is rolled back (`task_service.go:428`) |
| `LostConnectionIsExecFailure` | `TaskLifecycle_retry` | a lost agent is recorded as a failed dispatch (`task_service.go:1556`) |
| `NoOrphans` | `TaskLifecycle_faults` | the commands of cleaned-up tasks stay (`database_optimizer.go:215`, whose comment says "清理孤立的命令记录") |
| `EndIsStored` | `ProgressIsolation`, `Spec` | the last two results, or a result that a deadlock rolls back, leave the task running until its status is asked for (`task_service.go:1457`) |
| `StartSendsOnce` | `ProgressIsolation`, `Spec` | two starts both find the task pending (`task_service.go:380`) |
| `CompletedIsNotCanceled` | `ProgressIsolation`, `Spec` | a cancel that found the task running overwrites completed (`task_service.go:606`) |
| `ResultIsStored` | `ProgressIsolation`, `Spec` | a result that is rolled back in a deadlock is logged and lost (`task_service.go:1258`, `grpc_task_controller.go:359`) |
| `LastResultWins`, `RowsAgreeAtRest` | `BatchUpdates`, `MaxFaults = 0` | groups in map order, direct writes at a full queue (`database_optimizer.go:105`, `task_service.go:2563`) |
| `OwnExitCode` | `BatchUpdates`, `MaxFaults = 0` | a group is written with the exit code of its last member (`database_optimizer.go:101`) |
| `ProgressCatchesUp` | `BatchUpdates`, `MaxFaults = 0` | progress is computed before the batch is written, and not again (`task_service.go:2678`) |
| `ShutdownIsOrderly` | `BatchUpdates` | a handler sends on the closed queue (`task_service.go:3228`) |
| `EveryDayIsCounted` | `AuditTrail` | a server started at 10:30 looks at the clock at half past every hour and never finds it between 1:00 and 1:05 (`task_service.go:2820`; `:2813` "每天凌晨1点更新统计信息") |
| `LoggedMeansCommitted` | `AuditTrail` | the end of a task is logged inside its transaction (`task_service.go:1502`) |
| `TodayMeansToday` | `AuditTrail` | `Truncate` rounds in UTC (`task_service.go:3093`) |
| `CountIsFinal` | `AuditTrail` | `Assign` and `FirstOrCreate` share one struct: an existing row may keep its old counts (`audit_service.go:379`) |
| `OutcomesAreCounted` | `AuditTrail` | a day is counted once, before its last tasks have ended (`task_service.go:2823`) |
| `CompleteThoughGrown` | `AuditTrail` | a row added between a page's Count and its Find pushes the oldest past the page, and the older total ends the reading (`audit_service.go:239` and `:245`, `task_service.go:264` and `:270`) |
| `CompleteThoughShrunk` | `AuditTrail` | a cleanup shifts the pages of the execution log and of the tasks (`audit_service.go:277`, `database_optimizer.go:201`) |
| `CompleteThoughStale` | `AuditTrail` | a cached page of tasks is older than the one read before it (`task_service.go:242`) |
| `NeverStuck` | `TaskQueue_served`, `Throttling = {TRUE}` | `processQueue` holds the write lock and asks for the read lock: with adaptive throttling, as shipped (`task_service.go:77`), the first scan blocks itself (`task_queue_manager.go:216`; TASK_QUEUE_IMPLEMENTATION.md:176 "非阻塞队列操作") |
| `NeverStuck` | `TaskQueue_calls`, `Throttling = {FALSE}` | `GetQueueStatus` takes the read lock twice (`task_queue_manager.go:564`) |
| `WithinCapacity` | `TaskQueue_calls` | retries are not counted (`task_queue_manager.go:423`) |
| `ConcurrencyBounded` | `TaskQueue_calls`, `MaxConcurrentTasks = 1` | a canceled task stays with its worker (`task_queue_manager.go:607`) |
| `AlwaysSorted` | `TaskQueue_served`, `Priorities = {1, 2}` | a put-back goes to the front (`task_queue_manager.go:244`) |
| `EveryTaskIsServed` | `TaskQueue_served`, `Throttling = {FALSE}`, `StatusQueries = FALSE`, `IdleHosts = FALSE` | the scan spins on a full channel with the lock its worker needs (`task_queue_manager.go:247`) |
| `EveryTaskIsServed` | `TaskQueue_served`, `Throttling = {FALSE}`, `StatusQueries = FALSE`, `ChanCap = 3` | a host unused for five minutes is never used again (`task_queue_manager.go:465`) |
| `ShutdownIsClean` | `TaskQueue_calls` | closed channels are still used (`task_queue_manager.go:638`) |
| `ReconnectionSurvives` | `ConnectionPool`, `Spec`, `UncalledOps = FALSE` | the end of an old stream removes the new one of the same agent (`grpc_task_controller.go:238`; TASK_DISPATCH_IMPLEMENTATION.md:224 "支持 Agent 重连后恢复") |
| `HeardIsReachable` | `ConnectionPool`, `Spec`, `UncalledOps = FALSE` | a given-up agent that is heard again is not put back (`grpc_task_controller.go:107`) |
| `GivenUpFailsCommands` | `ConnectionPool`, `UncalledOps = FALSE` | giving a connection up tells nobody (`grpc_task_controller.go:157`) |
| `ApprovedWasPending` | `HostAdmission`, `Spec` | `RejectHost` takes no lock (`host_service.go:471`) |
| `ListIsOfWaiting` | `HostAdmission`, `Spec` | a failed deletion leaves an admitted host on the list (`host_service.go:462`) |
| `BadExitIsFailure` | `AgentExecutor` | the deferred function overwrites failed (`agent/pkg/service/task_service.go:70`) |
| `CanceledStays` | `AgentExecutor` | a canceled command runs on and becomes completed (same file, `:124`) |
| `RefusalIsHarmless` | `AgentExecutor` | an error over gRPC ends the agent (`agent/pkg/controller/grpc_task_controller.go:92`) |
| `OneCommandPerTask` | `AgentExecutor` | the HTTP and the gRPC controller have a task service each (`http_task_controller.go:21`, `grpc_task_controller.go:20`), and commands outlive an agent that panics, so an id runs twice (`agent/pkg/service/task_service.go:50` "task is already running") |
| `AnsweredWhenDone` | `AgentExecutor`, `PatientSpec`, no cleanups | results are held back until the timeout (`agent/pkg/service/task_service.go:88`) |
| `FreshAtRest` | `TaskCache`, `Spec`, `WriteOps = {"start"}`, `RedisFails = FALSE` | keys are deleted before the commit (`task_service.go:486`) |
| `FreshAtRest` | `TaskCache`, `Spec`, `WriteOps = {"other"}`, `RedisFails = FALSE` | timeouts, retries and edits delete no key (`timeout_monitor.go:157`) |

Most queue operations, `TaskService.Shutdown` and the gRPC command stream have no caller
in the shipped server and agent yet; the table is about the code as written. The places
are listed under "hazards" in `PROJECT.json` with the properties that watch them.

## 6. Abstractions

* Messages, outputs, names and times are left out, except for whether a time is set. A
  clock appears only as what it decides (over time, silent, stale, expired).
* MySQL transactions are atomic steps in `TaskLifecycle`; `ProgressIsolation` opens the
  five that matter. There the last `UPDATE` and the commit are one step, gap locks and lock
  waits that time out are left out, and the rows of `command_results`, which one stream
  writes, too. Retries and edits of hosts are not opened.
* The statuses of the two tables are spelled alike in `BatchUpdates`. Errors carry one
  message there; agents that send different texts make more groups, not different ones.
* Log rows have distinct timestamps and are numbered in their order; ties would leave the
  order of a page to MySQL. Transactions, goroutines, jobs and readers of `AuditTrail` are done
  within the hour, by which time cached pages have expired (three minutes). A task that has
  ended is not reopened there; `TaskLifecycle` has the retries. Lists are read without
  filters. The read of the cache and the decision on it are one step. What gorm does with the shared struct of `FirstOrCreate` is left open between two outcomes.
* A restart of the server drops its goroutines and requests and keeps the rows; nothing
  at start-up looks at unfinished tasks.
* An agent has one host id. A generated id changes with every start of an agent without
  a configured one, and two agents may get the same id within a second; neither is modelled.
* `canExecuteTask` reads host usage from reports; the model has one bit for "above 80 %".

## 7. Plan

Done in this order: `TaskLifecycle` with its proofs, `TaskQueue`, `ConnectionPool` with
its proofs, `HostAdmission`, `AgentExecutor`, `TaskCache`, `TaskContract` with the proof
that `TaskLifecycle` implements it, `ProgressIsolation`, `BatchUpdates`, `AuditTrail`, and
the proofs for `AgentExecutor`, `HostAdmission`, `ProgressIsolation`, `TaskQueue`,
`BatchUpdates` and `AuditTrail`. Next:

1. Proofs: `TypeOK` of `TaskCache`, with the deleted keys written without `SelectSeq`.
2. A module that composes `TaskLifecycle` with `ConnectionPool`, so that dispatch failures
   come from the pool and not from a choice; then `AgentExecutor` for the answers.
3. `HostAdmission` with two agents behind one id.

Runs replace one another rather than pile up: a later run takes the place of a deviation
that is fixed or proved to be harmless.

## 8. Not modelled

* `UpdateTask`, `UpdateCommandStatus`: plain overwrites that nothing calls.
* Statistics, summaries, timelines, reports on tables and slow queries, index creation:
  queries that change no row. Of the lists, paging is modelled and filters are not.
* System load monitor: floating-point samples of CPU and memory; the queue takes their
  result as an input.
* Legacy HTTP controller: its host handlers duplicate those of the host controller and
  are not routed.
* Agent connection service: never constructed; its `SendMessage` is a stub.
* Two agents behind one host id.
* Agent system information: reads of the operating system without state.
* Configuration, start-up, routing, web pages, Swagger and protobuf code.
