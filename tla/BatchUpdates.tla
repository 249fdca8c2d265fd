---------------------------- MODULE BatchUpdates ----------------------------
(***************************************************************************)
(* Results that are stored in batches (OptimizedHandleCommandResult and    *)
(* the processor of the batch queue in task_service.go, the grouped        *)
(* UPDATEs of database_optimizer.go).  A handler queues one update for the *)
(* CommandHost and one for the Command, saves the result and starts a      *)
(* goroutine that recomputes the task.  One processor collects the updates *)
(* in two buffers and writes a buffer when it is full or the ticker fires. *)
(* A batch is grouped by status and message in a Go map, whose groups are  *)
(* written in any order.  A handler that finds the queue full writes its   *)
(* update itself.                                                          *)
(***************************************************************************)
EXTENDS Integers, Sequences, FiniteSets, FiniteSetsExt, SequencesExt, TaskProgress

CONSTANTS
    Commands,       \* the commands of one task, one per host
    QueueCap,       \* capacity of batchUpdateQueue
    BatchSize,      \* batchSize
    ResultKinds,    \* what results say
    MaxResults,     \* bound: how many results arrive
    MaxFaults       \* bound: how many transactions fail, the shutdown included

ASSUME BatchAssumption ==
    /\ QueueCap \in Nat /\ BatchSize \in Nat \ {0}
    /\ ResultKinds \subseteq {"started", "ok", "err1", "err2", "bare", "bareErr"}

Tables == {"command_host", "command"}

VARIABLES
    queue,          \* batchUpdateQueue
    closed,         \* was it closed?
    buffer,         \* commandHostUpdates and commandUpdates
    proc,           \* where the processor is: which flush is next, from which size on
    row,            \* status and exit code in both tables
    handler,        \* where the handler of each command's results is
    last,           \* the last result of each command that was handled
    got,            \* how many results arrived
    due,            \* goroutines that will recompute the task
    task,           \* the status of the task
    up,             \* the process runs
    faults,         \* how many transactions failed
    disturbed       \* rows that an older update may have overwritten, or that a failed write missed

vars == <<queue, closed, buffer, proc, row, handler, last, got, due, task, up, faults, disturbed>>

NoRow   == [status |-> "pending", code |-> -1]
Select  == [stage |-> "select", need |-> 0]
AtRest  == [at |-> "idle", kind |-> "none"]

\* The statuses are the same in both tables up to their spelling.  A result with
\* neither time leaves the variable at its zero value.
StatusOf(k) ==
    CASE k = "ok" -> "completed" [] k \in {"err1", "err2"} -> "failed"
      [] k = "started" -> "running" [] OTHER -> ""
CodeOf(k) == CASE k \in {"err1", "bareErr"} -> 1 [] k = "err2" -> 2 [] OTHER -> 0

Update   == [table : Tables, cmd : Commands, kind : ResultKinds]
RowState == [status : {"pending", "running", "completed", "failed", ""}, code : -1..2]
Handler  == [at : Tables \cup {"idle"}, kind : ResultKinds \cup {"none"}]

TypeOK ==
    /\ queue \in Seq(Update) /\ closed \in BOOLEAN
    /\ buffer \in [Tables -> Seq(Update)]
    /\ proc \in [stage : Tables \cup {"select"}, need : {0, 1, BatchSize}]
    /\ row \in [Tables -> [Commands -> RowState]]
    /\ handler \in [Commands -> Handler]
    /\ last \in [Commands -> ResultKinds \cup {"none"}]
    /\ got \in Nat /\ due \in Nat /\ faults \in Nat
    /\ task \in {"running", "completed", "failed"}
    /\ up \in BOOLEAN
    /\ disturbed \subseteq Tables \X Commands

Init ==
    /\ queue = <<>> /\ closed = FALSE
    /\ buffer = [t \in Tables |-> <<>>]
    /\ proc = Select
    /\ row = [t \in Tables |-> [c \in Commands |-> NoRow]]
    /\ handler = [c \in Commands |-> AtRest]
    /\ last = [c \in Commands |-> "none"]
    /\ got = 0
    /\ due = 0
    /\ task = "running"
    /\ up = TRUE
    /\ faults = 0
    /\ disturbed = {}

-----------------------------------------------------------------------------
(***************************************************************************)
(* A batch in the database.                                                *)
(***************************************************************************)

\* The key of the group an update belongs to: its status and its message.  Errors carry
\* one message here, and the others none.
Key(u) == <<StatusOf(u.kind), CodeOf(u.kind) > 0>>

Groups(batch) == {Key(batch[i]) : i \in DOMAIN batch}

Members(batch, key) == {batch[i].cmd : i \in {j \in DOMAIN batch : Key(batch[j]) = key}}

\* updateData keeps the last update of the group.
LastOf(batch, key) == batch[Max({i \in DOMAIN batch : Key(batch[i]) = key})]

\* mutant: a zero exit code is taken for one that is not set
NonZeroFields(u, old) ==
    [status |-> StatusOf(u.kind), code |-> IF CodeOf(u.kind) = 0 THEN old.code ELSE CodeOf(u.kind)]
\* updateFields: status and exit code of the group's update.
UpdateFields(u, old) == [status |-> StatusOf(u.kind), code |-> CodeOf(u.kind)]

\* mutant: a group is written to all commands of the batch
AnyWritten(rows, batch, key) ==
    [c \in Commands |-> IF \E i \in DOMAIN batch : batch[i].cmd = c
                        THEN UpdateFields(LastOf(batch, key), rows[c]) ELSE rows[c]]
\* One UPDATE ... WHERE command_id IN ... for one group.
GroupWritten(rows, batch, key) ==
    [c \in Commands |-> IF c \in Members(batch, key)
                        THEN UpdateFields(LastOf(batch, key), rows[c]) ELSE rows[c]]

\* BatchUpdateCommandHostStatus, BatchUpdateCommandStatus: the groups in some order.
Written(rows, batch) ==
    {FoldLeft(LAMBDA rs, key : GroupWritten(rs, batch, key), rows, order) :
        order \in SetToSeqs(Groups(batch))}

Mixed(batch) ==
    {c \in Commands : \E key1, key2 \in Groups(batch) :
        key1 # key2 /\ c \in Members(batch, key1) \cap Members(batch, key2)}

\* A transaction for a batch of table t: committed, or failed, logged and forgotten.
Store(t, batch, overtaken, commits) ==
    IF commits
    THEN /\ \E rows \in Written(row[t], batch) : row' = [row EXCEPT ![t] = rows]
         /\ disturbed' = disturbed \cup ({t} \X (Mixed(batch) \cup overtaken))
    ELSE /\ disturbed' = disturbed \cup ({t} \X {batch[i].cmd : i \in DOMAIN batch})
         /\ UNCHANGED row

Failing(n) == faults + n <= MaxFaults /\ faults' = faults + n

-----------------------------------------------------------------------------
(***************************************************************************)
(* OptimizedHandleCommandResult.  The results of a command come over one   *)
(* stream, whose reader handles them one after the other.                  *)
(***************************************************************************)

\* What an agent may report next: the start is optional, a failed command may be retried.
Follows(before, k) ==
    CASE before \in {"none", "err1", "err2", "bareErr"} -> TRUE
      [] before \in {"started", "bare"} -> k # "started"
      [] OTHER -> FALSE

Arrive(c, k) ==
    /\ up /\ handler[c] = AtRest
    /\ got < MaxResults /\ Follows(last[c], k)
    /\ got' = got + 1
    /\ handler' = [handler EXCEPT ![c] = [at |-> "command_host", kind |-> k]]
    /\ UNCHANGED <<queue, closed, buffer, proc, row, last, due, task, up, faults, disturbed>>

\* Updates of c for table t that are queued or buffered.
Waiting(t, c) ==
    \/ \E i \in DOMAIN queue : queue[i].table = t /\ queue[i].cmd = c
    \/ \E i \in DOMAIN buffer[t] : buffer[t][i].cmd = c

\* QueueBatchUpdate: queued, or written at once when the queue is full.  A send on a
\* closed channel ends the process.
QueueBatchUpdate(t, c, commits) ==
    LET u == [table |-> t, cmd |-> c, kind |-> handler[c].kind] IN
    /\ up' = ~closed
    /\ IF closed \/ Len(queue) < QueueCap
       THEN /\ commits
            /\ queue' = IF closed THEN queue ELSE Append(queue, u)
            /\ UNCHANGED <<row, disturbed>>
       ELSE Store(t, <<u>>, IF Waiting(t, c) THEN {c} ELSE {}, commits) /\ UNCHANGED queue

QueueHost(c) ==
    /\ up /\ handler[c].at = "command_host"
    /\ \E commits \in BOOLEAN :
          QueueBatchUpdate("command_host", c, commits) /\ Failing(IF commits THEN 0 ELSE 1)
    /\ handler' = [handler EXCEPT ![c].at = "command"]
    /\ UNCHANGED <<closed, buffer, proc, last, got, due, task>>

\* The second update, and then the transaction that creates or updates the
\* CommandResult (nobody else reads it in between) and, if it commits, the goroutine
\* that recomputes the task.
QueueCommand(c) ==
    /\ up /\ handler[c].at = "command"
    /\ \E commits, saves \in BOOLEAN :
          /\ QueueBatchUpdate("command", c, commits)
          /\ Failing((IF commits THEN 0 ELSE 1) + (IF saves THEN 0 ELSE 1))
          /\ due' = IF saves /\ ~closed THEN due + 1 ELSE due
    /\ last' = [last EXCEPT ![c] = IF closed THEN @ ELSE handler[c].kind]
    /\ handler' = [handler EXCEPT ![c] = AtRest]
    /\ UNCHANGED <<closed, buffer, proc, got, task>>

InHost(s) == Cardinality({c \in Commands : row["command_host"][c].status = s})

\* updateTaskProgressInTransaction, as in TaskLifecycle; one way to fail here.
UpdateTaskProgress ==
    /\ up /\ due > 0
    /\ due' = due - 1
    /\ task' = ProgressStatus(task, Cardinality(Commands), InHost("completed"), InHost("failed"),
                              InHost("running"), 0)
    /\ UNCHANGED <<queue, closed, buffer, proc, row, handler, last, got, up, faults, disturbed>>

-----------------------------------------------------------------------------
(***************************************************************************)
(* startBatchUpdateProcessor.  A closed channel yields zero updates, which *)
(* change nothing; the ticker is still served.                             *)
(***************************************************************************)
Receive ==
    /\ up /\ proc = Select /\ queue # <<>>
    /\ LET u == Head(queue) IN
       buffer' = [buffer EXCEPT ![u.table] = Append(@, u)]
    /\ queue' = Tail(queue)
    /\ proc' = IF \E t \in Tables : Len(buffer'[t]) >= BatchSize
               THEN [stage |-> "command_host", need |-> BatchSize] ELSE Select
    /\ UNCHANGED <<closed, row, handler, last, got, due, task, up, faults, disturbed>>

Tick ==
    /\ up /\ proc = Select
    /\ \E t \in Tables : buffer[t] # <<>>
    /\ proc' = [stage |-> "command_host", need |-> 1]
    /\ UNCHANGED <<queue, closed, buffer, row, handler, last, got, due, task, up, faults, disturbed>>

\* mutant: the buffer of the commands is forgotten
ThenSelect == Select
\* The buffer of the hosts comes first, then the one of the commands.
NextStage == IF proc.stage = "command_host" THEN [proc EXCEPT !.stage = "command"] ELSE Select

Flush ==
    /\ up /\ proc.stage \in Tables
    /\ LET t == proc.stage IN
       IF Len(buffer[t]) >= proc.need
       THEN /\ \E commits \in BOOLEAN :
                  Store(t, buffer[t], {}, commits) /\ Failing(IF commits THEN 0 ELSE 1)
            /\ buffer' = [buffer EXCEPT ![t] = <<>>]
       ELSE UNCHANGED <<row, faults, disturbed, buffer>>
    /\ proc' = NextStage
    /\ UNCHANGED <<queue, closed, handler, last, got, due, task, up>>

Shutdown ==
    /\ up /\ ~closed
    /\ closed' = TRUE
    /\ Failing(1)
    /\ UNCHANGED <<queue, buffer, proc, row, handler, last, got, due, task, up, disturbed>>

-----------------------------------------------------------------------------
Processor == Receive \/ Tick \/ Flush

Handles(c) == QueueHost(c) \/ QueueCommand(c)

Next ==
    \/ \E c \in Commands : (\E k \in ResultKinds : Arrive(c, k)) \/ Handles(c)
    \/ UpdateTaskProgress \/ Processor \/ Shutdown

\* The goroutines run, and the ticker fires; Go's select picks among ready cases at
\* random, so neither the queue nor the ticker is passed over for ever.
Spec ==
    /\ Init /\ [][Next]_vars
    /\ WF_vars(Receive \/ Flush) /\ SF_vars(Tick)
    /\ WF_vars(UpdateTaskProgress)
    /\ \A c \in Commands : WF_vars(Handles(c))

-----------------------------------------------------------------------------
(***************************************************************************)
(* Properties.                                                             *)
(***************************************************************************)
AllHandled == up /\ queue = <<>> /\ (\A t \in Tables : buffer[t] = <<>>) /\ \A c \in Commands : handler[c] = AtRest

\* The exit code in a row belongs to its status, whatever batches, groups and direct
\* writes it went through: no success with a code, no failure without one.  (A result
\* without times has no status, and a code all the same.)
CodeMatchesStatus ==
    \A t \in Tables, c \in Commands :
        row[t][c].status # "" => (row[t][c].code > 0 <=> row[t][c].status = "failed")

\* When everything is written, both rows of a command show its last result, unless
\* two of its updates shared a batch, one overtook the other at a full queue, or a
\* transaction failed.  These are the only ways in which batching loses the order.
LastResultWinsUnlessDisturbed ==
    AllHandled => \A t \in Tables, c \in Commands :
        <<t, c>> \notin disturbed /\ last[c] # "none" => row[t][c].status = StatusOf(last[c])

\* No update stays in memory: whatever its batch is short of, the ticker writes it,
\* also after Shutdown, as long as the process runs.
EveryUpdateIsFlushed == []<>(up => queue = <<>> /\ \A t \in Tables : buffer[t] = <<>>)

-----------------------------------------------------------------------------
(***************************************************************************)
(* What one would expect of a faster HandleCommandResult, and does not     *)
(* hold; see the README.                                                   *)
(***************************************************************************)
LastResultWins ==
    AllHandled => \A t \in Tables, c \in Commands : last[c] # "none" => row[t][c].status = StatusOf(last[c])

RowsAgreeAtRest ==
    AllHandled => \A c \in Commands : row["command"][c].status = row["command_host"][c].status

\* An exit code is the one its agent reported.
OwnExitCode ==
    AllHandled => \A t \in Tables, c \in Commands : last[c] # "none" /\ row[t][c].status = StatusOf(last[c]) =>
        row[t][c].code = CodeOf(last[c])

\* The task follows its hosts.
ProgressCatchesUp ==
    AllHandled /\ due = 0 /\ InHost("completed") = Cardinality(Commands) => task = "completed"

\* A shutdown does not end the process under a handler.
ShutdownIsOrderly == up
=============================================================================
