-------------------------- MODULE ProgressIsolation --------------------------
(***************************************************************************)
(* The transactions of the task service, statement by statement, as MySQL  *)
(* runs them at its default isolation level (InnoDB, repeatable read): a   *)
(* plain SELECT reads the snapshot taken by the transaction's first one    *)
(* and its own writes; an UPDATE sees and locks the latest committed row   *)
(* and waits while another transaction holds it; a cycle of waits rolls    *)
(* one transaction back.  TaskLifecycle runs a transaction in one step;    *)
(* here two of them overlap.  There is one task, whose commands were       *)
(* created in the order CommandSeq.                                        *)
(***************************************************************************)
EXTENDS Integers, Sequences, FiniteSets, TaskProgress

CONSTANTS
    CommandSeq,     \* the commands of the task, in the order of their primary keys
    Connections,    \* database connections that may be in a transaction at once
    Idle,           \* a connection without a transaction
    MaxRequests,    \* bound: how often users and the monitor act
    MaxRuns         \* bound: how many sendings of a command its agent answers

ASSUME BoundsAssumption == MaxRequests \in Nat /\ MaxRuns \in Nat

Commands == {CommandSeq[i] : i \in DOMAIN CommandSeq}

ASSUME SeqAssumption == CommandSeq \in Seq(Commands)

VARIABLES
    db,             \* the committed rows
    tx,             \* the transaction of each connection
    sent,           \* how often StartTask handed each command to the dispatcher
    ran, ended,     \* how many of these sendings the agent reported to run, to have ended
    begun           \* how many transactions of the bounded kinds were begun

vars == <<db, tx, sent, ran, ended, begun>>

TaskRow  == <<"task", "-">>
Cmd(c)   == <<"cmd", c>>
Host(c)  == <<"host", c>>
Row      == {TaskRow} \cup {Cmd(c) : c \in Commands} \cup {Host(c) : c \in Commands}

\* A plain SELECT that comes after UPDATEs: it fixes the snapshot of the transaction.
ReadView == <<"read", "-">>

\* mutant: the timeout forgets the CommandHost
CommandOnly(op, c) ==
    CASE op = "result"  -> <<Host(c), Cmd(c), ReadView, TaskRow>>
      [] op = "timeout" -> <<Cmd(c), ReadView, TaskRow>>
      [] OTHER -> <<TaskRow>>
\* The statements of the transactions that belong to one command, or to a query,
\* without a SELECT that comes first (it is part of the step that begins them).
ProgressProgram(op, c) ==
    CASE op = "result"  -> <<Host(c), Cmd(c), ReadView, TaskRow>>
      [] op = "timeout" -> <<Cmd(c), Host(c), ReadView, TaskRow>>
      [] OTHER -> <<TaskRow>>

N == Len(CommandSeq)

\* CancelTask updates all commands in one statement and all hosts in the next;
\* StartTask goes through the commands and updates both rows of each.
CancelProgram == <<TaskRow>> \o [i \in 1..N |-> Cmd(CommandSeq[i])]
                            \o [i \in 1..N |-> Host(CommandSeq[i])]
StartProgram == <<TaskRow>> \o
    [i \in 1..(2 * N) |-> IF i % 2 = 1 THEN Cmd(CommandSeq[(i + 1) \div 2])
                                       ELSE Host(CommandSeq[i \div 2])]

Program(op, c) ==
    CASE op = "cancel" -> CancelProgram [] op = "start" -> StartProgram
      [] OTHER -> ProgressProgram(op, c)

Init ==
    /\ db = [r \in Row |-> IF r = TaskRow THEN [status |-> "absent", began |-> FALSE] ELSE "absent"]
    /\ tx = [x \in Connections |-> Idle]
    /\ sent = [c \in Commands |-> 0]
    /\ ran = [c \in Commands |-> 0]
    /\ ended = [c \in Commands |-> 0]
    /\ begun = [start |-> 0, cancel |-> 0, timeout |-> 0]

\* The INSERTs of CreateTask: nobody can touch the rows before they are committed.
CreateTask ==
    /\ db[TaskRow].status = "absent"
    /\ db' = [r \in Row |-> CASE r = TaskRow -> [status |-> "pending", began |-> FALSE]
                              [] r[1] = "cmd" -> "pending" [] OTHER -> "Pending"]
    /\ UNCHANGED <<tx, sent, ran, ended, begun>>

-----------------------------------------------------------------------------
(***************************************************************************)
(* What the statements write.                                              *)
(***************************************************************************)

\* A plain SELECT: the snapshot with the transaction's own writes on top.
View(x, r) == IF r \in DOMAIN tx[x].own THEN tx[x].own[r] ELSE tx[x].snap[r]

\* What an UPDATE finds: the latest committed row, or the transaction's own.
Current(x, r) == IF r \in DOMAIN tx[x].own THEN tx[x].own[r] ELSE db[r]

Seen(x, kinds) == Cardinality({c \in Commands : View(x, Host(c)) \in kinds})

\* As in TaskLifecycle: the last failing group of the GROUP BY wins.
FailedCounts(x) ==
    LET groups == {k \in FailKinds : Seen(x, {k}) > 0}
    IN  IF groups = {} THEN {0} ELSE {Seen(x, {k}) : k \in groups}

\* The UPDATE of the task: counts are from the snapshot, a column that no branch
\* assigns keeps its committed value.
\* mutant: the status read at the beginning is written back when no branch applies
WriteBack(x, failed) ==
    LET status == ProgressStatus(View(x, TaskRow).status, N, Seen(x, {"Completed"}), failed,
                                 Seen(x, {"Running"}), Seen(x, {"Canceled"}))
    IN  [status |-> status,
         began  |-> Current(x, TaskRow).began \/ (status = "running" /\ ~View(x, TaskRow).began)]
StoredProgress(x, failed) ==
    LET status == ProgressStatus(Current(x, TaskRow).status, N, Seen(x, {"Completed"}), failed,
                                 Seen(x, {"Running"}), Seen(x, {"Canceled"}))
        branch == /\ ~AllFinishedBy(N, Seen(x, {"Completed"}), failed, Seen(x, {"Canceled"}))
                  /\ Seen(x, {"Running", "Completed"}) > 0
    IN  [status |-> status,
         began  |-> Current(x, TaskRow).began \/ (branch /\ ~View(x, TaskRow).began)]

\* mutant: the UPDATEs rely on the check of the task
CancelsAll(x, r) == TRUE
\* The WHERE of CancelTask's UPDATEs.
Cancels(x, r) == Current(x, r) \in {"pending", "running", "Pending", "Running"}

TaskValue(x, failed) ==
    CASE tx[x].op = "start"  -> [status |-> "running", began |-> TRUE]
      [] tx[x].op = "cancel" -> [db[TaskRow] EXCEPT !.status = "canceled"]
      [] OTHER -> StoredProgress(x, failed)

CommandValue(x, r) ==
    CASE tx[x].op = "start"   -> "pending"
      [] tx[x].op = "timeout" -> "timeout"
      [] tx[x].op = "cancel"  -> IF Cancels(x, r) THEN "canceled" ELSE Current(x, r)
      [] OTHER -> ResultCommandStatus(tx[x].kind, Current(x, r))

HostValue(x, r) ==
    CASE tx[x].op = "start"   -> "Pending"
      [] tx[x].op = "timeout" -> "Timeout"
      [] tx[x].op = "cancel"  -> IF Cancels(x, r) THEN "Canceled" ELSE Current(x, r)
      [] OTHER -> ResultHostStatus(tx[x].kind, Current(x, r))

-----------------------------------------------------------------------------
(***************************************************************************)
(* Transactions.                                                           *)
(***************************************************************************)
\* The early returns of StartTask and CancelTask, decided on the row they select.
Refused(op) ==
    \/ op = "start"  /\ db[TaskRow].status # "pending"
    \/ op = "cancel" /\ Completed(db[TaskRow].status)

\* A transaction begins.  The ones of users and of a query begin with a SELECT;
\* those of StartTask and CancelTask read nothing later, so no snapshot is kept.
Begin(x, op, c, k) ==
    /\ tx[x] = Idle
    /\ db[TaskRow].status # "absent" /\ ~Refused(op)
    /\ tx' = [tx EXCEPT ![x] = [op |-> op, cmd |-> c, kind |-> k, todo |-> Program(op, c),
                                snap |-> IF op = "status" THEN db ELSE <<>>, own |-> <<>>]]
    /\ UNCHANGED <<db, sent>>

Bounded(op) ==
    /\ begun.start + begun.cancel + begun.timeout < MaxRequests
    /\ begun' = [begun EXCEPT ![op] = @ + 1]

BeginStart(x)  == Begin(x, "start", "-", "-") /\ Bounded("start") /\ UNCHANGED <<ran, ended>>
BeginCancel(x) == Begin(x, "cancel", "-", "-") /\ Bounded("cancel") /\ UNCHANGED <<ran, ended>>
BeginStatus(x) == Begin(x, "status", "-", "-") /\ UNCHANGED <<ran, ended, begun>>

\* The monitor read that c runs; its status is not looked at again.
BeginTimeout(x, c) ==
    /\ Begin(x, "timeout", c, "-")
    /\ db[Cmd(c)] = "running"
    /\ Bounded("timeout")
    /\ UNCHANGED <<ran, ended>>

\* A result of an agent.  One goroutine reads the agent's stream, so the results
\* of a command are handled one after the other.
BeginResult(x, c, k) ==
    /\ \A y \in Connections : tx[y] # Idle => ~(tx[y].op = "result" /\ tx[y].cmd = c)
    /\ IF k = "started" THEN ran[c] < sent[c] /\ ran[c] < MaxRuns ELSE ended[c] < ran[c]
    /\ Begin(x, "result", c, k)
    /\ IF k = "started" THEN ran' = [ran EXCEPT ![c] = @ + 1] /\ UNCHANGED ended
                        ELSE ended' = [ended EXCEPT ![c] = @ + 1] /\ UNCHANGED ran
    /\ UNCHANGED begun

Busy(x) == tx[x] # Idle

\* The SELECT with which the progress computation of a result or a timeout starts.
Read(x) ==
    /\ Busy(x) /\ Head(tx[x].todo) = ReadView
    /\ tx' = [tx EXCEPT ![x].snap = db, ![x].todo = Tail(@)]
    /\ UNCHANGED <<db, sent, ran, ended, begun>>

\* x's next statement needs a row that y has written.
WaitsFor(x, y) ==
    /\ x # y /\ Busy(x) /\ Busy(y)
    /\ Head(tx[x].todo) \in DOMAIN tx[y].own

Holding(own, r, v) == [q \in DOMAIN own \cup {r} |-> IF q = r THEN v ELSE own[q]]

Written(x, r) ==
    CASE r = TaskRow    -> {TaskValue(x, failed) : failed \in
                                IF tx[x].op \in {"start", "cancel"} THEN {0} ELSE FailedCounts(x)}
      [] r[1] = "cmd"   -> {CommandValue(x, r)}
      [] r[1] = "host"  -> {HostValue(x, r)}

\* An UPDATE.  The last one and the commit are one step: whatever another transaction
\* does between the two, it could do before both.  The goroutine of StartTask that
\* sends a command is started with the UPDATE of its CommandHost, before the commit.
Write(x) ==
    /\ Busy(x) /\ Head(tx[x].todo) # ReadView
    /\ \A y \in Connections : ~WaitsFor(x, y)
    /\ LET r == Head(tx[x].todo) IN
       /\ \E v \in Written(x, r) : LET own == Holding(tx[x].own, r, v) IN
            IF Tail(tx[x].todo) # <<>>
            THEN /\ tx' = [tx EXCEPT ![x].own = own, ![x].todo = Tail(@)]
                 /\ UNCHANGED db
            ELSE /\ db' = [q \in Row |-> IF q \in DOMAIN own THEN own[q] ELSE db[q]]
                 /\ tx' = [tx EXCEPT ![x] = Idle]
       /\ sent' = [c \in Commands |-> IF tx[x].op = "start" /\ r = Host(c) THEN sent[c] + 1 ELSE sent[c]]
    /\ UNCHANGED <<ran, ended, begun>>

\* InnoDB found a cycle of waits and rolls x back.  The service logs or returns the
\* error: nothing runs the transaction again.
DeadlockVictim(x) ==
    /\ \E S \in SUBSET Connections :
          /\ x \in S
          /\ \A y \in S : (\E z \in S : WaitsFor(y, z)) /\ (\E z \in S : WaitsFor(z, y))
    /\ tx' = [tx EXCEPT ![x] = Idle]
    /\ UNCHANGED <<db, sent, ran, ended, begun>>

-----------------------------------------------------------------------------
Step(x) == Read(x) \/ Write(x)

Next ==
    \/ CreateTask
    \/ \E x \in Connections :
          \/ BeginStart(x) \/ BeginCancel(x) \/ BeginStatus(x)
          \/ \E c \in Commands : BeginTimeout(x, c) \/ \E k \in {"started", "ok", "error"} : BeginResult(x, c, k)
          \/ Step(x) \/ DeadlockVictim(x)

\* InnoDB grants a row's lock in the order of the requests, so a statement that
\* waits is not passed over for ever.
Progresses ==
    /\ \A x \in Connections : SF_vars(Step(x))
    /\ WF_vars(\E x \in Connections : DeadlockVictim(x))

Spec == Init /\ [][Next]_vars /\ Progresses

\* Somebody keeps asking for the status of the task.
PolledSpec == Spec /\ WF_vars(\E x \in Connections : BeginStatus(x))

-----------------------------------------------------------------------------
(***************************************************************************)
(* Properties.                                                             *)
(***************************************************************************)
Contract == INSTANCE TaskContract
    WITH Tasks <- {TaskRow}, Unasked <- TRUE,
         phase <- [t \in {TaskRow} |-> Stage(db[t].status)],
         begun <- [t \in {TaskRow} |-> db[t].began]

\* The committed rows of a task obey TaskContract also when its transactions overlap
\* and compute from old snapshots: it does not become pending again, and runs only
\* with a start time.
ImplementsContract == Contract!Spec

\* Every transaction that ends a command writes both of its rows, and the row locks
\* keep them together although the writers take them in different orders.
RowsAgree == \A c \in Commands : Agrees(db[Cmd(c)], db[Host(c)])

\* A host that has ended is never marked as canceled: CancelTask decides on an old
\* snapshot that the task is not over, but its UPDATEs look at the current rows.
CancelKeepsResults ==
    [][ \A c \in Commands : db[Host(c)] \in FailKinds \cup {"Completed"} => db'[Host(c)] # "Canceled" ]_vars

HostsDone ==
    /\ \A c \in Commands : db[Host(c)] \in FailKinds \cup {"Completed", "Canceled"}
    /\ Cardinality({db[Host(c)] : c \in Commands} \cap FailKinds) <= 1

\* If the hosts have ended for good, and those that failed failed in one way, the
\* task of which somebody asks the status is over for good: a late commit that was
\* computed from an old snapshot does not have the last word.
StableEndIsStored == <>[]HostsDone => <>[]Completed(db[TaskRow].status)

-----------------------------------------------------------------------------
(***************************************************************************)
(* What the documents say and the code does not do; see the README.        *)
(***************************************************************************)

\* requirements.md 2.5: when all hosts have ended the task is updated by itself.
EndIsStored == <>[]HostsDone => <>Completed(db[TaskRow].status)

\* StartTask refuses a task that is not pending, so a task is started once.
StartSendsOnce == \A c \in Commands : sent[c] <= 1

\* CancelTask refuses a task that is over, so a completed task stays completed.
CompletedIsNotCanceled ==
    [][ db[TaskRow].status = "completed" => db'[TaskRow].status # "canceled" ]_vars

\* The transaction of a result is not given up: what the agent reported is stored.
ResultIsStored ==
    [][ \A x \in Connections :
            Busy(x) /\ tx[x].op = "result" /\ tx'[x] = Idle =>
                LET r == Cmd(tx[x].cmd) IN db'[r] = ResultCommandStatus(tx[x].kind, db[r]) ]_vars
=============================================================================
