------------------------ MODULE TaskLifecycle_proofs ------------------------
(***************************************************************************)
(* Proofs about TaskLifecycle for any tasks, hosts, commands and requests. *)
(***************************************************************************)
EXTENDS TaskLifecycle, FiniteSetTheorems, TLAPS

\* A count of CommandHost rows is a natural number.
LEMMA CountType ==
    ASSUME NEW t, NEW hs, NEW kinds
    PROVE  /\ Count(t, hs, kinds) \in Nat
           /\ Cardinality(Commands) \in Nat
<1>1. IsFiniteSet({c \in Commands : cmdTask[c] = t /\ hs[c] \in kinds})
  BY FiniteAssumption, FS_Subset
<1>2. QED
  BY <1>1, FiniteAssumption, FS_CardinalityType DEF Count

\* Recomputing progress keeps the task columns well-typed.
LEMMA ProgressType ==
    ASSUME TypeOK, NEW T \in SUBSET Tasks, NEW hs, UpdateTaskProgress(T, hs)
    PROVE  TaskTypeOK'
<1>1. \A t, kinds : Count(t, hs, kinds) \in Nat /\ Cardinality(Commands) \in Nat
  BY CountType
<1>2. PICK failed \in [T -> 0..Cardinality(Commands)] : StoreProgress(T, hs, failed)
  BY DEF UpdateTaskProgress
<1>3. completedHosts' \in [Tasks -> Nat] /\ totalHosts' \in [Tasks -> Nat]
  BY <1>1, <1>2 DEF TypeOK, TaskTypeOK, StoreProgress
<1>4. failedHosts' \in [Tasks -> Nat]
  BY <1>1, <1>2 DEF TypeOK, TaskTypeOK, StoreProgress
<1>5. taskStatus' \in [Tasks -> TaskStatus \cup {"absent", "deleted"}]
  BY <1>2 DEF TypeOK, TaskTypeOK, StoreProgress, ProgressStatus, TaskStatus
<1>6. startedAt' \in [Tasks -> BOOLEAN] /\ finishedAt' \in [Tasks -> BOOLEAN]
  BY <1>2 DEF TypeOK, TaskTypeOK, StoreProgress
<1>7. QED
  BY <1>3, <1>4, <1>5, <1>6 DEF TaskTypeOK

\* A goroutine handed to the dispatcher leaves the job table well-typed.
LEMMA JobsType ==
    ASSUME TypeOK
    PROVE  /\ \A C \in SUBSET Commands : SendAll(C) => jobs' \in [Commands -> [Attempts -> Phase]]
           /\ \A c \in Commands, a \in Attempts, p \in Phase :
                 SetJob(c, a, p) => jobs' \in [Commands -> [Attempts -> Phase]]
<1>1. ASSUME NEW C \in SUBSET Commands, SendAll(C)
      PROVE  jobs' \in [Commands -> [Attempts -> Phase]]
  BY <1>1 DEF SendAll, TypeOK, ProcTypeOK, Phase
<1>2. ASSUME NEW c \in Commands, NEW a \in Attempts, NEW p \in Phase, SetJob(c, a, p)
      PROVE  jobs' \in [Commands -> [Attempts -> Phase]]
  BY <1>2 DEF SetJob, TypeOK, ProcTypeOK
<1>3. QED
  BY <1>1, <1>2

\* The inductive invariant behind type correctness: the type of cmdTask[c] is known
\* only because ids that were not generated yet have no row and no timeout.
Typed == TypeOK /\ FreshUnused

\* The empty tables are well-typed, and no unused command id has a row.
LEMMA TypedInit == Init => Typed
  BY NullAssumption
     DEF Init, Typed, TypeOK, TaskTypeOK, RowTypeOK, ProcTypeOK, FreshUnused, Fresh, Phase

\* What a step leaves alone keeps its type.
LEMMA UnchangedTypes ==
    /\ TaskTypeOK /\ UNCHANGED taskVars => TaskTypeOK'
    /\ RowTypeOK /\ UNCHANGED rowVars => RowTypeOK'
    /\ ProcTypeOK /\ UNCHANGED procVars => ProcTypeOK'
    /\ FreshUnused /\ UNCHANGED <<rowVars, jobs, expired>> => FreshUnused'
  BY DEF TaskTypeOK, RowTypeOK, ProcTypeOK, FreshUnused, Fresh, taskVars, rowVars, procVars

\* A command with a row belongs to a task: it is not a fresh id.
LEMMA OwnedCommand ==
    ASSUME Typed, NEW c \in Commands, cmdStatus[c] # "absent" \/ c \in expired
    PROVE  cmdTask[c] \in Tasks
  BY DEF Typed, TypeOK, RowTypeOK, FreshUnused, Fresh

\* Every operation keeps the types, and uses up the ids it creates rows for.
LEMMA TypedNext == Typed /\ [Next]_vars => Typed'
<1> SUFFICES ASSUME Typed, [Next]_vars PROVE Typed'
  OBVIOUS
<1> USE DEF Typed, TypeOK
<1>1. ASSUME NEW t \in Tasks, NEW C \in SUBSET Fresh, C # {}, NEW hostOf \in [C -> Hosts], CreateTask(t, hostOf) PROVE Typed'
  <2>1. Cardinality(DOMAIN hostOf) \in Nat
    BY FiniteAssumption, FS_Subset, FS_CardinalityType DEF Fresh
  <2>2. TaskTypeOK'
    BY <1>1, <2>1 DEF CreateTask, TaskTypeOK, TaskStatus
  <2>3. RowTypeOK'
    BY <1>1 DEF CreateTask, Fresh, RowTypeOK, CommandStatus, CommandHostStatus
  <2>4. FreshUnused'
    BY <1>1, NullAssumption DEF CreateTask, procVars, FreshUnused, Fresh
  <2>5. ProcTypeOK'
    BY <1>1, UnchangedTypes DEF CreateTask, taskVars, rowVars, procVars
  <2>6. QED
    BY <2>2, <2>3, <2>4, <2>5
<1>2. ASSUME NEW t \in Tasks, StartTask(t) PROVE Typed'
  <2>1. TaskTypeOK'
    BY <1>2 DEF StartTask, TaskTypeOK, TaskStatus
  <2>2. RowTypeOK'
    BY <1>2 DEF StartTask, RowTypeOK, CommandStatus, CommandHostStatus
  <2>3. ProcTypeOK'
    BY <1>2, JobsType DEF StartTask, Rows, ProcTypeOK
  <2>4. FreshUnused'
    BY <1>2, NullAssumption DEF StartTask, SendAll, Rows, FreshUnused, Fresh
  <2>5. QED
    BY <2>1, <2>2, <2>3, <2>4
<1>3. ASSUME NEW t \in Tasks, CancelTask(t) PROVE Typed'
  <2>1. TaskTypeOK'
    BY <1>3 DEF CancelTask, TaskTypeOK, TaskStatus
  <2>2. RowTypeOK'
    BY <1>3 DEF CancelTask, RowTypeOK, CommandStatus, CommandHostStatus
  <2>3. FreshUnused'
    BY <1>3 DEF CancelTask, procVars, FreshUnused, Fresh
  <2>4. ProcTypeOK'
    BY <1>3, UnchangedTypes DEF CancelTask, taskVars, rowVars, procVars
  <2>5. QED
    BY <2>1, <2>2, <2>3, <2>4
<1>4. ASSUME NEW t \in Tasks, NEW C \in SUBSET Rows(t), StartTaskRolledBack(t, C) PROVE Typed'
  <2>1. ProcTypeOK'
    BY <1>4, JobsType DEF StartTaskRolledBack, Rows, ProcTypeOK
  <2>2. FreshUnused'
    BY <1>4, NullAssumption DEF StartTaskRolledBack, SendAll, Rows, rowVars, FreshUnused, Fresh
  <2>3. TaskTypeOK' /\ RowTypeOK'
    BY <1>4, UnchangedTypes DEF StartTaskRolledBack, taskVars, rowVars, procVars
  <2>4. QED
    BY <2>1, <2>2, <2>3
<1>5. ASSUME NEW c \in Commands, RetryFailedCommand(c) PROVE Typed'
  <2>1. TaskTypeOK'
    BY <1>5, OwnedCommand, ProgressType DEF RetryFailedCommand, Retryable
  <2>2. RowTypeOK'
    BY <1>5 DEF RetryFailedCommand, Retryable, RowTypeOK, CommandStatus, CommandHostStatus
  <2>3. ProcTypeOK'
    BY <1>5, JobsType DEF RetryFailedCommand, Retryable, ProcTypeOK
  <2>4. FreshUnused'
    BY <1>5, OwnedCommand, NullAssumption DEF RetryFailedCommand, Retryable, SendAll, FreshUnused, Fresh
  <2>5. QED
    BY <2>1, <2>2, <2>3, <2>4
<1>6. ASSUME NEW c \in Commands, RetryRolledBack(c) PROVE Typed'
  <2>1. ProcTypeOK'
    BY <1>6, JobsType DEF RetryRolledBack, Retryable, ProcTypeOK
  <2>2. FreshUnused'
    BY <1>6, OwnedCommand, NullAssumption DEF RetryRolledBack, Retryable, SendAll, rowVars, FreshUnused, Fresh
  <2>3. TaskTypeOK' /\ RowTypeOK'
    BY <1>6, UnchangedTypes DEF RetryRolledBack, Retryable, taskVars, rowVars, procVars
  <2>4. QED
    BY <2>1, <2>2, <2>3
<1>7. ASSUME NEW r \in Requests, NEW op \in {"stop", "delete", "add", "remove"}, NEW t \in Tasks, NEW h \in Hosts \cup {NoHost}, CheckCall(r, op, t, h) PROVE Typed'
  <2>1. ProcTypeOK'
    BY <1>7 DEF CheckCall, Call, ProcTypeOK
  <2>2. TaskTypeOK' /\ RowTypeOK' /\ FreshUnused'
    BY <1>7, UnchangedTypes DEF CheckCall, taskVars, rowVars, procVars
  <2>3. QED
    BY <2>1, <2>2
<1>8. ASSUME NEW r \in Requests, StopTask(r) PROVE Typed'
  <2>1. TaskTypeOK'
    BY <1>8 DEF StopTask, Returns, ProcTypeOK, Call, TaskTypeOK, TaskStatus
  <2>2. ProcTypeOK'
    BY <1>8 DEF StopTask, Returns, ProcTypeOK
  <2>3. FreshUnused'
    BY <1>8 DEF StopTask, Returns, rowVars, FreshUnused, Fresh
  <2>4. RowTypeOK'
    BY <1>8, UnchangedTypes DEF StopTask, Returns, taskVars, rowVars, procVars
  <2>5. QED
    BY <2>1, <2>2, <2>3, <2>4
<1>9. ASSUME NEW r \in Requests, DeleteTask(r) PROVE Typed'
  <2>1. TaskTypeOK'
    BY <1>9 DEF DeleteTask, Returns, ProcTypeOK, Call, TaskTypeOK, TaskStatus
  <2>2. RowTypeOK'
    BY <1>9 DEF DeleteTask, RowTypeOK, CommandStatus, CommandHostStatus
  <2>3. ProcTypeOK'
    BY <1>9 DEF DeleteTask, Returns, ProcTypeOK
  <2>4. FreshUnused'
    BY <1>9 DEF DeleteTask, Returns, FreshUnused, Fresh
  <2>5. QED
    BY <2>1, <2>2, <2>3, <2>4
<1>10. ASSUME NEW r \in Requests, RemoveTaskHost(r) PROVE Typed'
  <2>1. TaskTypeOK'
    BY <1>10 DEF RemoveTaskHost, OneLess, Returns, ProcTypeOK, Call, TaskTypeOK, TaskStatus
  <2>2. RowTypeOK'
    BY <1>10 DEF RemoveTaskHost, OneLess, RowTypeOK, CommandStatus, CommandHostStatus
  <2>3. ProcTypeOK'
    BY <1>10 DEF RemoveTaskHost, OneLess, Returns, ProcTypeOK
  <2>4. FreshUnused'
    BY <1>10 DEF RemoveTaskHost, OneLess, Returns, FreshUnused, Fresh
  <2>5. QED
    BY <2>1, <2>2, <2>3, <2>4
<1>11. ASSUME NEW r \in Requests, NEW c \in Commands, AddTaskHosts(r, c) PROVE Typed'
  <2>1. TaskTypeOK'
    BY <1>11 DEF AddTaskHosts, Returns, ProcTypeOK, Call, TaskTypeOK, TaskStatus
  <2>2. RowTypeOK'
    BY <1>11 DEF AddTaskHosts, Returns, ProcTypeOK, Call, RowTypeOK, CommandStatus, CommandHostStatus
  <2>3. ProcTypeOK'
    BY <1>11 DEF AddTaskHosts, Returns, ProcTypeOK
  <2>4. FreshUnused'
    BY <1>11, NullAssumption DEF AddTaskHosts, Returns, ProcTypeOK, Call, RowTypeOK, FreshUnused, Fresh
  <2>5. QED
    BY <2>1, <2>2, <2>3, <2>4
<1>12. ASSUME NEW c \in Commands, NEW a \in Attempts, SendSucceeds(c, a) PROVE Typed'
  <2>1. ProcTypeOK'
    BY <1>12, JobsType DEF SendSucceeds, ProcTypeOK, Phase
  <2>2. FreshUnused'
    BY <1>12 DEF SendSucceeds, SetJob, ProcTypeOK, rowVars, FreshUnused, Fresh
  <2>3. TaskTypeOK' /\ RowTypeOK'
    BY <1>12, UnchangedTypes DEF SendSucceeds, taskVars, rowVars, procVars
  <2>4. QED
    BY <2>1, <2>2, <2>3
<1>13. ASSUME NEW c \in Commands, NEW a \in Attempts, DispatchFailedCommand(c, a) PROVE Typed'
  <2>1. RowTypeOK'
    BY <1>13 DEF DispatchFailedCommand, RowTypeOK, CommandStatus, CommandHostStatus
  <2>2. ProcTypeOK'
    BY <1>13, JobsType DEF DispatchFailedCommand, ProcTypeOK, Phase
  <2>3. FreshUnused'
    BY <1>13 DEF DispatchFailedCommand, SetJob, RowTypeOK, ProcTypeOK, FreshUnused, Fresh
  <2>4. TaskTypeOK'
    BY <1>13, UnchangedTypes DEF DispatchFailedCommand, taskVars, rowVars, procVars
  <2>5. QED
    BY <2>1, <2>2, <2>3, <2>4
<1>14. ASSUME NEW c \in Commands, NEW a \in Attempts, DispatchFailedHost(c, a) PROVE Typed'
  <2>1. RowTypeOK'
    BY <1>14 DEF DispatchFailedHost, RowTypeOK, CommandStatus, CommandHostStatus
  <2>2. ProcTypeOK'
    BY <1>14, JobsType DEF DispatchFailedHost, ProcTypeOK, Phase
  <2>3. FreshUnused'
    BY <1>14 DEF DispatchFailedHost, SetJob, RowTypeOK, ProcTypeOK, FreshUnused, Fresh
  <2>4. TaskTypeOK'
    BY <1>14, UnchangedTypes DEF DispatchFailedHost, taskVars, rowVars, procVars
  <2>5. QED
    BY <2>1, <2>2, <2>3, <2>4
<1>15. ASSUME NEW c \in Commands, NEW a \in Attempts, NEW k \in ResultKinds, HandleCommandResult(c, a, k) PROVE Typed'
  <2>1. TaskTypeOK'
    BY <1>15, OwnedCommand, ProgressType DEF HandleCommandResult, ResultSetsStart, Found
  <2>2. RowTypeOK'
    BY <1>15 DEF HandleCommandResult, ResultSetsStart, ResultCommandStatus, ResultHostStatus, RowTypeOK, CommandStatus, CommandHostStatus
  <2>3. ProcTypeOK'
    BY <1>15, JobsType DEF HandleCommandResult, ResultSetsStart, AgentSends, ProcTypeOK, Phase
  <2>4. FreshUnused'
    BY <1>15 DEF HandleCommandResult, ResultSetsStart, Found, AgentSends, SetJob, RowTypeOK, ProcTypeOK, FreshUnused, Fresh
  <2>5. QED
    BY <2>1, <2>2, <2>3, <2>4
<1>16. ASSUME NEW c \in Commands, NEW a \in Attempts, NEW k \in ResultKinds, ResultDropped(c, a, k) PROVE Typed'
  <2>1. ProcTypeOK'
    BY <1>16, JobsType DEF ResultDropped, AgentSends, ProcTypeOK, Phase
  <2>2. FreshUnused'
    BY <1>16 DEF ResultDropped, AgentSends, SetJob, ProcTypeOK, rowVars, FreshUnused, Fresh
  <2>3. TaskTypeOK' /\ RowTypeOK'
    BY <1>16, UnchangedTypes DEF ResultDropped, taskVars, rowVars, procVars
  <2>4. QED
    BY <2>1, <2>2, <2>3
<1>17. ASSUME NEW c \in Commands, NEW a \in Attempts, AnswerLost(c, a) PROVE Typed'
  <2>1. ProcTypeOK'
    BY <1>17, JobsType DEF AnswerLost, ProcTypeOK, Phase
  <2>2. FreshUnused'
    BY <1>17 DEF AnswerLost, SetJob, ProcTypeOK, rowVars, FreshUnused, Fresh
  <2>3. TaskTypeOK' /\ RowTypeOK'
    BY <1>17, UnchangedTypes DEF AnswerLost, taskVars, rowVars, procVars
  <2>4. QED
    BY <2>1, <2>2, <2>3
<1>18. ASSUME NEW C \in SUBSET Commands, FindTimeouts(C) PROVE Typed'
  <2>1. ProcTypeOK'
    BY <1>18 DEF FindTimeouts, ProcTypeOK
  <2>2. FreshUnused'
    BY <1>18 DEF FindTimeouts, rowVars, FreshUnused, Fresh
  <2>3. TaskTypeOK' /\ RowTypeOK'
    BY <1>18, UnchangedTypes DEF FindTimeouts, taskVars, rowVars, procVars
  <2>4. QED
    BY <2>1, <2>2, <2>3
<1>19. ASSUME NEW c \in Commands, HandleTimeout(c) PROVE Typed'
  <2>1. TaskTypeOK'
    BY <1>19, OwnedCommand, ProgressType, UnchangedTypes DEF HandleTimeout, taskVars, Found
  <2>2. RowTypeOK'
    BY <1>19 DEF HandleTimeout, RowTypeOK, CommandStatus, CommandHostStatus
  <2>3. ProcTypeOK'
    BY <1>19 DEF HandleTimeout, ProcTypeOK
  <2>4. FreshUnused'
    BY <1>19 DEF HandleTimeout, Found, RowTypeOK, FreshUnused, Fresh
  <2>5. QED
    BY <2>1, <2>2, <2>3, <2>4
<1>20. ASSUME NEW c \in Commands, HandleCommandExecutionError(c) PROVE Typed'
  <2>1. TaskTypeOK'
    BY <1>20, OwnedCommand, ProgressType DEF HandleCommandExecutionError, Found
  <2>2. RowTypeOK'
    BY <1>20 DEF HandleCommandExecutionError, RowTypeOK, CommandStatus, CommandHostStatus
  <2>3. FreshUnused'
    BY <1>20 DEF HandleCommandExecutionError, Found, RowTypeOK, procVars, FreshUnused, Fresh
  <2>4. ProcTypeOK'
    BY <1>20, UnchangedTypes DEF HandleCommandExecutionError, taskVars, rowVars, procVars
  <2>5. QED
    BY <2>1, <2>2, <2>3, <2>4
<1>21. ASSUME NEW h \in Hosts, DisconnectHosts(h) PROVE Typed'
  <2>1. RowTypeOK'
    BY <1>21 DEF DisconnectHosts, RowTypeOK, CommandStatus, CommandHostStatus
  <2>2. ProcTypeOK'
    BY <1>21 DEF DisconnectHosts, ProcTypeOK
  <2>3. FreshUnused'
    BY <1>21 DEF DisconnectHosts, FreshUnused, Fresh
  <2>4. TaskTypeOK'
    BY <1>21, UnchangedTypes DEF DisconnectHosts, taskVars, rowVars, procVars
  <2>5. QED
    BY <2>1, <2>2, <2>3, <2>4
<1>22. ASSUME NEW h \in Hosts, DisconnectCommands(h) PROVE Typed'
  <2>1. RowTypeOK'
    BY <1>22 DEF DisconnectCommands, RowTypeOK, CommandStatus, CommandHostStatus
  <2>2. ProcTypeOK'
    BY <1>22 DEF DisconnectCommands, ProcTypeOK
  <2>3. FreshUnused'
    BY <1>22 DEF DisconnectCommands, FreshUnused, Fresh
  <2>4. TaskTypeOK'
    BY <1>22, UnchangedTypes DEF DisconnectCommands, taskVars, rowVars, procVars
  <2>5. QED
    BY <2>1, <2>2, <2>3, <2>4
<1>23. ASSUME NEW h \in Hosts, HandleAgentDisconnection(h) PROVE Typed'
  <2>1. TaskTypeOK'
    BY <1>23, ProgressType DEF HandleAgentDisconnection
  <2>2. RowTypeOK'
    BY <1>23 DEF HandleAgentDisconnection, RowTypeOK, CommandStatus, CommandHostStatus
  <2>3. FreshUnused'
    BY <1>23 DEF HandleAgentDisconnection, procVars, FreshUnused, Fresh
  <2>4. ProcTypeOK'
    BY <1>23, UnchangedTypes DEF HandleAgentDisconnection, taskVars, rowVars, procVars
  <2>5. QED
    BY <2>1, <2>2, <2>3, <2>4
<1>24. ASSUME ServerRestart PROVE Typed'
  <2>1. ProcTypeOK'
    BY <1>24 DEF ServerRestart, ProcTypeOK, Phase
  <2>2. FreshUnused'
    BY <1>24 DEF ServerRestart, rowVars, FreshUnused, Fresh
  <2>3. TaskTypeOK' /\ RowTypeOK'
    BY <1>24, UnchangedTypes DEF ServerRestart, taskVars, rowVars, procVars
  <2>4. QED
    BY <2>1, <2>2, <2>3
<1>25. ASSUME NEW t \in Tasks, GetTaskStatus(t) PROVE Typed'
  <2>1. TaskTypeOK'
    BY <1>25, ProgressType DEF GetTaskStatus
  <2>2. RowTypeOK' /\ ProcTypeOK' /\ FreshUnused'
    BY <1>25, UnchangedTypes DEF GetTaskStatus, taskVars, rowVars, procVars
  <2>3. QED
    BY <2>1, <2>2
<1>26. CASE UNCHANGED vars
  BY <1>26, UnchangedTypes DEF vars, rowVars, procVars
<1>27. ASSUME NEW T \in SUBSET Tasks, CleanupOldRecords(T) PROVE Typed'
  <2>1. TaskTypeOK'
    BY <1>27 DEF CleanupOldRecords, TaskTypeOK
  <2>2. RowTypeOK' /\ ProcTypeOK' /\ FreshUnused'
    BY <1>27, UnchangedTypes DEF CleanupOldRecords, rowVars, procVars
  <2>3. QED
    BY <2>1, <2>2
<1>28. QED
  BY <1>1, <1>2, <1>3, <1>4, <1>5, <1>6, <1>7, <1>8, <1>9, <1>10, <1>11, <1>12, <1>13, <1>14, <1>15, <1>16, <1>17, <1>18, <1>19, <1>20, <1>21, <1>22, <1>23, <1>24, <1>25, <1>26, <1>27
     DEF Next, UserStep, DispatchStep, AgentStep, ServerStep, Poll

\* Every column, every goroutine and every request in flight keeps its type.
THEOREM TypeCorrect == Spec => []TypeOK
<1>1. Spec => []Typed
  BY TypedInit, TypedNext, PTL DEF Spec
<1>2. Typed => TypeOK
  BY DEF Typed
<1>3. QED
  BY <1>1, <1>2, PTL

-----------------------------------------------------------------------------
(***************************************************************************)
(* The state invariants.                                                   *)
(***************************************************************************)

\* NothingSentBeforeStart is not inductive: a retry sends a command that failed or
\* timed out, so such a command, and one that runs, ended or is found over time,
\* must belong to a started task too.
Acted(c) ==
    \/ \E a \in Attempts : jobs[c][a] # "none"
    \/ cmdStatus[c] \notin {"absent", "pending", "canceled"}
    \/ c \in expired

OnlyStartedAct ==
    ~DbFaults /\ ~UncalledOps =>
        \A c \in Commands : Acted(c) => startedAt[cmdTask[c]]

\* A timeout that finds the Command deleted must find the CommandHost deleted too.
RowsPaired == \A c \in Commands : cmdStatus[c] = "absent" <=> hostStatus[c] = "absent"

RowsOK == RowsPaired /\ MismatchOnlyByPlainWrites

Safe == /\ Typed
        /\ TimesMatchStatus
        /\ RowsOK
        /\ RunningCanTimeOut
        /\ OnlyStartedAct

\* Before the first task is created every part of the invariant holds.
LEMMA SafeInit == Init => Safe
<1> SUFFICES ASSUME Init PROVE Safe
  OBVIOUS
<1>1. TimesMatchStatus
  BY DEF Init, TimesMatchStatus, Completed
<1>2. RowsOK /\ RunningCanTimeOut
  BY DEF Init, RowsOK, RowsPaired, MismatchOnlyByPlainWrites, Agree, Agrees, RunningCanTimeOut
<1>3. OnlyStartedAct
  BY DEF Init, OnlyStartedAct, Acted
<1>4. QED
  BY <1>1, <1>2, <1>3, TypedInit DEF Safe

\* Recomputing progress keeps times and status consistent and never unsets a start time.
LEMMA ProgressTimes ==
    ASSUME TypeOK, NEW T \in SUBSET Tasks, NEW hs, UpdateTaskProgress(T, hs)
    PROVE  /\ TimesMatchStatus => TimesMatchStatus'
           /\ \A t \in Tasks : startedAt[t] => startedAt'[t]
<1>1. \A t, kinds : Count(t, hs, kinds) \in Nat
  BY CountType
<1>2. PICK failed \in [T -> 0..Cardinality(Commands)] : StoreProgress(T, hs, failed)
  BY DEF UpdateTaskProgress
<1>3. \A t \in Tasks : startedAt[t] => startedAt'[t]
  BY <1>2 DEF StoreProgress
<1>4. ASSUME TimesMatchStatus, NEW t \in T
      PROVE  /\ Completed(taskStatus'[t]) => finishedAt'[t]
             /\ taskStatus'[t] = "running" => startedAt'[t]
  <2>1. t \in Tasks
    OBVIOUS
  <2>2. CASE Over(t, hs, failed[t])
    BY <1>2, <2>1, <2>2 DEF StoreProgress, ProgressStatus, Over, Completed
  <2>3. CASE ~Over(t, hs, failed[t])
    <3>1. CASE Count(t, hs, {"Running"}) > 0 \/ Count(t, hs, {"Completed"}) > 0
      <4>1. Count(t, hs, {"Running"}) + Count(t, hs, {"Completed"}) > 0
        BY <1>1, <3>1
      <4>2. taskStatus'[t] = "running"
        BY <1>2, <2>1, <2>3, <3>1 DEF StoreProgress, ProgressStatus, Over
      <4>3. startedAt'[t]
        BY <1>2, <2>1, <2>3, <4>1 DEF StoreProgress
      <4>4. QED
        BY <4>2, <4>3 DEF Completed
    <3>2. CASE ~(Count(t, hs, {"Running"}) > 0 \/ Count(t, hs, {"Completed"}) > 0)
      BY <1>2, <1>4, <2>1, <2>3, <3>2 DEF StoreProgress, ProgressStatus, Over, TimesMatchStatus
    <3>3. QED
      BY <3>1, <3>2
  <2>4. QED
    BY <2>2, <2>3
<1>5. ASSUME TimesMatchStatus, NEW t \in Tasks \ T
      PROVE  /\ Completed(taskStatus'[t]) => finishedAt'[t]
             /\ taskStatus'[t] = "running" => startedAt'[t]
  BY <1>2, <1>5 DEF StoreProgress, TimesMatchStatus
<1>6. QED
  BY <1>3, <1>4, <1>5 DEF TimesMatchStatus

\* A step that recomputes progress, and after which only commands that had acted
\* before have acted, keeps OnlyStartedAct.
LEMMA StartedKept ==
    ASSUME Typed, OnlyStartedAct, UNCHANGED cmdTask,
           \A t \in Tasks : startedAt[t] => startedAt'[t],
           ~DbFaults /\ ~UncalledOps => \A c \in Commands : Acted(c)' => Acted(c)
    PROVE  OnlyStartedAct'
<1>1. \A c \in Commands : Acted(c) => cmdTask[c] \in Tasks
  BY DEF Acted, Typed, TypeOK, RowTypeOK, FreshUnused, Fresh
<1>2. QED
  BY <1>1 DEF OnlyStartedAct

\* The parts of the invariant that a step does not touch.
LEMMA UnchangedSafe ==
    /\ TimesMatchStatus /\ UNCHANGED taskVars => TimesMatchStatus'
    /\ RowsOK /\ UNCHANGED <<cmdStatus, hostStatus>> => RowsOK'
    /\ RunningCanTimeOut /\ UNCHANGED <<cmdStatus, cmdStarted>> => RunningCanTimeOut'
    /\ OnlyStartedAct /\ UNCHANGED <<startedAt, cmdTask, cmdStatus, jobs, expired>> => OnlyStartedAct'
  BY DEF TimesMatchStatus, RowsOK, RowsPaired, MismatchOnlyByPlainWrites, Agree, Agrees, RunningCanTimeOut, OnlyStartedAct, Acted, taskVars

\* Every operation keeps the invariant: one step of the proof per operation.
LEMMA SafeNext == Safe /\ [Next]_vars => Safe'
<1> SUFFICES ASSUME Safe, [Next]_vars PROVE Safe'
  OBVIOUS
<1> USE DEF Safe, Typed, TypeOK
<1>0. Typed'
  BY TypedNext
<1>1. ASSUME NEW t \in Tasks, NEW C \in SUBSET Fresh, C # {}, NEW hostOf \in [C -> Hosts], CreateTask(t, hostOf) PROVE Safe'
  <2>1. TimesMatchStatus'
    BY <1>1 DEF CreateTask, TaskTypeOK, TimesMatchStatus, Completed
  <2>2. RowsOK'
    BY <1>1 DEF CreateTask, RowsOK, RowsPaired, MismatchOnlyByPlainWrites, Agree, Agrees, RowTypeOK
  <2>3. RunningCanTimeOut'
    BY <1>1 DEF CreateTask, RunningCanTimeOut, RowTypeOK
  <2>4. OnlyStartedAct'
    BY <1>1 DEF CreateTask, OnlyStartedAct, Acted, TaskTypeOK, RowTypeOK, ProcTypeOK, FreshUnused, Fresh, procVars
  <2>5. QED
    BY <1>0, <2>1, <2>2, <2>3, <2>4
<1>2. ASSUME NEW t \in Tasks, StartTask(t) PROVE Safe'
  <2>1. TimesMatchStatus'
    BY <1>2 DEF StartTask, TaskTypeOK, TimesMatchStatus, Completed
  <2>2. RowsOK'
    BY <1>2 DEF StartTask, RowsOK, RowsPaired, MismatchOnlyByPlainWrites, Agree, Agrees, RowTypeOK
  <2>3. RunningCanTimeOut'
    BY <1>2 DEF StartTask, RunningCanTimeOut, RowTypeOK
  <2>4. OnlyStartedAct'
    BY <1>2 DEF StartTask, OnlyStartedAct, Acted, TaskTypeOK, RowTypeOK, ProcTypeOK, SendAll, Rows
  <2>5. QED
    BY <1>0, <2>1, <2>2, <2>3, <2>4
<1>3. ASSUME NEW t \in Tasks, CancelTask(t) PROVE Safe'
  <2>1. TimesMatchStatus'
    BY <1>3 DEF CancelTask, TaskTypeOK, TimesMatchStatus, Completed
  <2>2. RowsOK'
    BY <1>3 DEF CancelTask, RowsOK, RowsPaired, MismatchOnlyByPlainWrites, Agree, Agrees, RowTypeOK
  <2>3. RunningCanTimeOut'
    BY <1>3 DEF CancelTask, RunningCanTimeOut, RowTypeOK
  <2>4. OnlyStartedAct'
    BY <1>3 DEF CancelTask, OnlyStartedAct, Acted, TaskTypeOK, RowTypeOK, ProcTypeOK, procVars
  <2>5. QED
    BY <1>0, <2>1, <2>2, <2>3, <2>4
<1>4. ASSUME NEW t \in Tasks, NEW C \in SUBSET Rows(t), StartTaskRolledBack(t, C) PROVE Safe'
  <2>1. OnlyStartedAct'
    BY <1>4 DEF StartTaskRolledBack, OnlyStartedAct, Acted, TaskTypeOK, RowTypeOK, ProcTypeOK
  <2>2. TimesMatchStatus' /\ RowsOK' /\ RunningCanTimeOut'
    BY <1>4, UnchangedSafe DEF StartTaskRolledBack, taskVars, rowVars, procVars
  <2>3. QED
    BY <1>0, <2>1, <2>2
<1>5. ASSUME NEW c \in Commands, RetryFailedCommand(c) PROVE Safe'
  <2>1. TimesMatchStatus'
    BY <1>5, OwnedCommand, ProgressTimes DEF RetryFailedCommand, Retryable
  <2>2. RowsOK'
    BY <1>5 DEF RetryFailedCommand, Retryable, RowsOK, RowsPaired, MismatchOnlyByPlainWrites, Agree, Agrees, RowTypeOK
  <2>3. RunningCanTimeOut'
    BY <1>5 DEF RetryFailedCommand, Retryable, RunningCanTimeOut, RowTypeOK
  <2>4. \A u \in Tasks : startedAt[u] => startedAt'[u]
    BY <1>5, OwnedCommand, ProgressTimes DEF RetryFailedCommand, Retryable
  <2>5. UNCHANGED cmdTask /\ \A d \in Commands : Acted(d)' => Acted(d)
    BY <1>5 DEF RetryFailedCommand, Retryable, SendAll, Acted, RowTypeOK, ProcTypeOK
  <2>6. OnlyStartedAct'
    BY <2>4, <2>5, StartedKept
  <2>7. QED
    BY <1>0, <2>1, <2>2, <2>3, <2>6
<1>6. ASSUME NEW c \in Commands, RetryRolledBack(c) PROVE Safe'
  <2>1. OnlyStartedAct'
    BY <1>6 DEF RetryRolledBack, Retryable, OnlyStartedAct, Acted, TaskTypeOK, RowTypeOK, ProcTypeOK, SendAll, rowVars, taskVars
  <2>2. TimesMatchStatus' /\ RowsOK' /\ RunningCanTimeOut'
    BY <1>6, UnchangedSafe DEF RetryRolledBack, Retryable, taskVars, rowVars, procVars
  <2>3. QED
    BY <1>0, <2>1, <2>2
<1>7. ASSUME NEW r \in Requests, NEW op \in {"stop", "delete", "add", "remove"}, NEW t \in Tasks, NEW h \in Hosts \cup {NoHost}, CheckCall(r, op, t, h) PROVE Safe'
  <2>1. TimesMatchStatus' /\ RowsOK' /\ RunningCanTimeOut' /\ OnlyStartedAct'
    BY <1>7, UnchangedSafe DEF CheckCall, taskVars, rowVars, procVars
  <2>2. QED
    BY <1>0, <2>1
<1>8. ASSUME NEW r \in Requests, StopTask(r) PROVE Safe'
  <2>1. TimesMatchStatus'
    BY <1>8 DEF StopTask, Returns, ProcTypeOK, Call, TaskTypeOK, TimesMatchStatus, Completed
  <2>2. RowsOK' /\ RunningCanTimeOut' /\ OnlyStartedAct'
    BY <1>8, UnchangedSafe DEF StopTask, Returns, taskVars, rowVars, procVars
  <2>3. QED
    BY <1>0, <2>1, <2>2
<1>9. ASSUME NEW r \in Requests, DeleteTask(r) PROVE Safe'
  <2>1. TimesMatchStatus'
    BY <1>9 DEF DeleteTask, TaskTypeOK, TimesMatchStatus, Completed, Returns, ProcTypeOK, Call
  <2>2. RowsOK'
    BY <1>9 DEF DeleteTask, RowsOK, RowsPaired, MismatchOnlyByPlainWrites, Agree, Agrees, RowTypeOK
  <2>3. RunningCanTimeOut'
    BY <1>9 DEF DeleteTask, RunningCanTimeOut, RowTypeOK
  <2>4. OnlyStartedAct'
    BY <1>9 DEF DeleteTask, OnlyStartedAct, Acted, TaskTypeOK, RowTypeOK, ProcTypeOK, Returns
  <2>5. QED
    BY <1>0, <2>1, <2>2, <2>3, <2>4
<1>10. ASSUME NEW r \in Requests, RemoveTaskHost(r) PROVE Safe'
  <2>1. TimesMatchStatus'
    BY <1>10 DEF RemoveTaskHost, OneLess, TaskTypeOK, TimesMatchStatus, Completed
  <2>2. RowsOK'
    BY <1>10 DEF RemoveTaskHost, OneLess, RowsOK, RowsPaired, MismatchOnlyByPlainWrites, Agree, Agrees, RowTypeOK
  <2>3. RunningCanTimeOut'
    BY <1>10 DEF RemoveTaskHost, OneLess, RunningCanTimeOut, RowTypeOK
  <2>4. OnlyStartedAct'
    BY <1>10 DEF RemoveTaskHost, OneLess, OnlyStartedAct, Acted, TaskTypeOK, RowTypeOK, ProcTypeOK, Returns
  <2>5. QED
    BY <1>0, <2>1, <2>2, <2>3, <2>4
<1>11. ASSUME NEW r \in Requests, NEW c \in Commands, AddTaskHosts(r, c) PROVE Safe'
  <2>1. TimesMatchStatus'
    BY <1>11 DEF AddTaskHosts, TaskTypeOK, TimesMatchStatus, Completed
  <2>2. RowsOK'
    BY <1>11 DEF AddTaskHosts, RowsOK, RowsPaired, MismatchOnlyByPlainWrites, Agree, Agrees, RowTypeOK
  <2>3. RunningCanTimeOut'
    BY <1>11 DEF AddTaskHosts, RunningCanTimeOut, RowTypeOK
  <2>4. OnlyStartedAct'
    BY <1>11 DEF AddTaskHosts, OnlyStartedAct, Acted, TaskTypeOK, RowTypeOK, ProcTypeOK, FreshUnused, Fresh, Returns
  <2>5. QED
    BY <1>0, <2>1, <2>2, <2>3, <2>4
<1>12. ASSUME NEW c \in Commands, NEW a \in Attempts, SendSucceeds(c, a) PROVE Safe'
  <2>1. OnlyStartedAct'
    BY <1>12 DEF SendSucceeds, OnlyStartedAct, Acted, TaskTypeOK, RowTypeOK, ProcTypeOK, SetJob, taskVars, rowVars
  <2>2. TimesMatchStatus' /\ RowsOK' /\ RunningCanTimeOut'
    BY <1>12, UnchangedSafe DEF SendSucceeds, taskVars, rowVars, procVars
  <2>3. QED
    BY <1>0, <2>1, <2>2
<1>13. ASSUME NEW c \in Commands, NEW a \in Attempts, DispatchFailedCommand(c, a) PROVE Safe'
  <2>1. RowsOK'
    BY <1>13 DEF DispatchFailedCommand, RowsOK, RowsPaired, MismatchOnlyByPlainWrites, Agree, Agrees, RowTypeOK
  <2>2. RunningCanTimeOut'
    BY <1>13 DEF DispatchFailedCommand, RunningCanTimeOut, RowTypeOK
  <2>3. OnlyStartedAct'
    BY <1>13 DEF DispatchFailedCommand, OnlyStartedAct, Acted, TaskTypeOK, RowTypeOK, ProcTypeOK, SetJob, taskVars
  <2>4. TimesMatchStatus'
    BY <1>13, UnchangedSafe DEF DispatchFailedCommand, taskVars, rowVars, procVars
  <2>5. QED
    BY <1>0, <2>1, <2>2, <2>3, <2>4
<1>14. ASSUME NEW c \in Commands, NEW a \in Attempts, DispatchFailedHost(c, a) PROVE Safe'
  <2>1. RowsOK'
    BY <1>14 DEF DispatchFailedHost, RowsOK, RowsPaired, MismatchOnlyByPlainWrites, Agree, Agrees, RowTypeOK
  <2>2. OnlyStartedAct'
    BY <1>14 DEF DispatchFailedHost, OnlyStartedAct, Acted, TaskTypeOK, RowTypeOK, ProcTypeOK, SetJob, taskVars
  <2>3. TimesMatchStatus' /\ RunningCanTimeOut'
    BY <1>14, UnchangedSafe DEF DispatchFailedHost, taskVars, rowVars, procVars
  <2>4. QED
    BY <1>0, <2>1, <2>2, <2>3
<1>15. ASSUME NEW c \in Commands, NEW a \in Attempts, NEW k \in ResultKinds, HandleCommandResult(c, a, k) PROVE Safe'
  <2>1. TimesMatchStatus'
    BY <1>15, OwnedCommand, ProgressTimes DEF HandleCommandResult, ResultSetsStart, Found
  <2>2. RowsOK'
    BY <1>15 DEF HandleCommandResult, ResultSetsStart, RowsOK, RowsPaired, MismatchOnlyByPlainWrites, Agree, Agrees, RowTypeOK, ResultCommandStatus, ResultHostStatus
  <2>3. RunningCanTimeOut'
    BY <1>15 DEF HandleCommandResult, ResultSetsStart, RunningCanTimeOut, RowTypeOK, ResultCommandStatus, ResultHostStatus
  <2>4. \A u \in Tasks : startedAt[u] => startedAt'[u]
    BY <1>15, OwnedCommand, ProgressTimes DEF HandleCommandResult, ResultSetsStart, Found
  <2>5. UNCHANGED cmdTask /\ \A d \in Commands : Acted(d)' => Acted(d)
    BY <1>15 DEF HandleCommandResult, ResultSetsStart, AgentSends, SetJob, Acted, RowTypeOK, ProcTypeOK
  <2>6. OnlyStartedAct'
    BY <2>4, <2>5, StartedKept
  <2>7. QED
    BY <1>0, <2>1, <2>2, <2>3, <2>6
<1>16. ASSUME NEW c \in Commands, NEW a \in Attempts, NEW k \in ResultKinds, ResultDropped(c, a, k) PROVE Safe'
  <2>1. OnlyStartedAct'
    BY <1>16 DEF ResultDropped, OnlyStartedAct, Acted, TaskTypeOK, RowTypeOK, ProcTypeOK, AgentSends, SetJob, taskVars, rowVars
  <2>2. TimesMatchStatus' /\ RowsOK' /\ RunningCanTimeOut'
    BY <1>16, UnchangedSafe DEF ResultDropped, taskVars, rowVars, procVars
  <2>3. QED
    BY <1>0, <2>1, <2>2
<1>17. ASSUME NEW c \in Commands, NEW a \in Attempts, AnswerLost(c, a) PROVE Safe'
  <2>1. OnlyStartedAct'
    BY <1>17 DEF AnswerLost, OnlyStartedAct, Acted, TaskTypeOK, RowTypeOK, ProcTypeOK, SetJob, taskVars, rowVars
  <2>2. TimesMatchStatus' /\ RowsOK' /\ RunningCanTimeOut'
    BY <1>17, UnchangedSafe DEF AnswerLost, taskVars, rowVars, procVars
  <2>3. QED
    BY <1>0, <2>1, <2>2
<1>18. ASSUME NEW C \in SUBSET Commands, FindTimeouts(C) PROVE Safe'
  <2>1. OnlyStartedAct'
    BY <1>18 DEF FindTimeouts, OnlyStartedAct, Acted, TaskTypeOK, RowTypeOK, ProcTypeOK, taskVars, rowVars
  <2>2. TimesMatchStatus' /\ RowsOK' /\ RunningCanTimeOut'
    BY <1>18, UnchangedSafe DEF FindTimeouts, taskVars, rowVars, procVars
  <2>3. QED
    BY <1>0, <2>1, <2>2
<1>19. ASSUME NEW c \in Commands, HandleTimeout(c) PROVE Safe'
  <2>1. TimesMatchStatus'
    BY <1>19, OwnedCommand, ProgressTimes, UnchangedSafe DEF HandleTimeout, Found
  <2>2. RowsOK'
    BY <1>19 DEF HandleTimeout, RowsOK, RowsPaired, MismatchOnlyByPlainWrites, Agree, Agrees, RowTypeOK
  <2>3. RunningCanTimeOut'
    BY <1>19 DEF HandleTimeout, RunningCanTimeOut, RowTypeOK
  <2>4. \A u \in Tasks : startedAt[u] => startedAt'[u]
    BY <1>19, OwnedCommand, ProgressTimes DEF HandleTimeout, taskVars
  <2>5. UNCHANGED cmdTask /\ \A d \in Commands : Acted(d)' => Acted(d)
    BY <1>19 DEF HandleTimeout, Acted, RowTypeOK, ProcTypeOK
  <2>6. OnlyStartedAct'
    BY <2>4, <2>5, StartedKept
  <2>7. QED
    BY <1>0, <2>1, <2>2, <2>3, <2>6
<1>20. ASSUME NEW c \in Commands, HandleCommandExecutionError(c) PROVE Safe'
  <2>1. TimesMatchStatus'
    BY <1>20, OwnedCommand, ProgressTimes DEF HandleCommandExecutionError, Found
  <2>2. RowsOK'
    BY <1>20 DEF HandleCommandExecutionError, RowsOK, RowsPaired, MismatchOnlyByPlainWrites, Agree, Agrees, RowTypeOK
  <2>3. RunningCanTimeOut'
    BY <1>20 DEF HandleCommandExecutionError, RunningCanTimeOut, RowTypeOK
  <2>4. OnlyStartedAct'
    BY <1>20 DEF HandleCommandExecutionError, OnlyStartedAct
  <2>5. QED
    BY <1>0, <2>1, <2>2, <2>3, <2>4
<1>21. ASSUME NEW h \in Hosts, DisconnectHosts(h) PROVE Safe'
  <2>1. RowsOK'
    BY <1>21 DEF DisconnectHosts, RowsOK, RowsPaired, MismatchOnlyByPlainWrites, Agree, Agrees, RowTypeOK
  <2>2. TimesMatchStatus' /\ RunningCanTimeOut' /\ OnlyStartedAct'
    BY <1>21, UnchangedSafe DEF DisconnectHosts, taskVars, rowVars, procVars
  <2>3. QED
    BY <1>0, <2>1, <2>2
<1>22. ASSUME NEW h \in Hosts, DisconnectCommands(h) PROVE Safe'
  <2>1. RowsOK'
    BY <1>22 DEF DisconnectCommands, RowsOK, RowsPaired, MismatchOnlyByPlainWrites, Agree, Agrees, RowTypeOK
  <2>2. RunningCanTimeOut'
    BY <1>22 DEF DisconnectCommands, RunningCanTimeOut, RowTypeOK
  <2>3. OnlyStartedAct'
    BY <1>22 DEF DisconnectCommands, OnlyStartedAct, Acted, TaskTypeOK, RowTypeOK, ProcTypeOK, taskVars
  <2>4. TimesMatchStatus'
    BY <1>22, UnchangedSafe DEF DisconnectCommands, taskVars, rowVars, procVars
  <2>5. QED
    BY <1>0, <2>1, <2>2, <2>3, <2>4
<1>23. ASSUME NEW h \in Hosts, HandleAgentDisconnection(h) PROVE Safe'
  <2>1. TimesMatchStatus'
    BY <1>23, ProgressTimes DEF HandleAgentDisconnection
  <2>2. RowsOK'
    BY <1>23 DEF HandleAgentDisconnection, RowsOK, RowsPaired, MismatchOnlyByPlainWrites, Agree, Agrees, RowTypeOK
  <2>3. RunningCanTimeOut'
    BY <1>23 DEF HandleAgentDisconnection, RunningCanTimeOut, RowTypeOK
  <2>4. OnlyStartedAct'
    BY <1>23 DEF HandleAgentDisconnection, OnlyStartedAct
  <2>5. QED
    BY <1>0, <2>1, <2>2, <2>3, <2>4
<1>24. ASSUME ServerRestart PROVE Safe'
  <2>1. OnlyStartedAct'
    BY <1>24 DEF ServerRestart, OnlyStartedAct, Acted, TaskTypeOK, RowTypeOK, ProcTypeOK, taskVars, rowVars
  <2>2. TimesMatchStatus' /\ RowsOK' /\ RunningCanTimeOut'
    BY <1>24, UnchangedSafe DEF ServerRestart, taskVars, rowVars, procVars
  <2>3. QED
    BY <1>0, <2>1, <2>2
<1>25. ASSUME NEW t \in Tasks, GetTaskStatus(t) PROVE Safe'
  <2>1. TimesMatchStatus'
    BY <1>25, ProgressTimes DEF GetTaskStatus
  <2>2. \A u \in Tasks : startedAt[u] => startedAt'[u]
    BY <1>25, ProgressTimes DEF GetTaskStatus
  <2>3. UNCHANGED cmdTask /\ \A d \in Commands : Acted(d)' => Acted(d)
    BY <1>25 DEF GetTaskStatus, Acted, rowVars, procVars
  <2>4. OnlyStartedAct'
    BY <2>2, <2>3, StartedKept
  <2>5. RowsOK' /\ RunningCanTimeOut'
    BY <1>25, UnchangedSafe DEF GetTaskStatus, taskVars, rowVars, procVars
  <2>6. QED
    BY <1>0, <2>1, <2>4, <2>5
<1>26. CASE UNCHANGED vars
  BY <1>0, <1>26, UnchangedSafe DEF vars, taskVars, rowVars, procVars
<1>27. ASSUME NEW T \in SUBSET Tasks, CleanupOldRecords(T) PROVE Safe'
  <2>1. TimesMatchStatus'
    BY <1>27 DEF CleanupOldRecords, TaskTypeOK, TimesMatchStatus, Completed
  <2>2. RowsOK' /\ RunningCanTimeOut' /\ OnlyStartedAct'
    BY <1>27, UnchangedSafe DEF CleanupOldRecords, rowVars, procVars
  <2>3. QED
    BY <1>0, <2>1, <2>2
<1>28. QED
  BY <1>1, <1>2, <1>3, <1>4, <1>5, <1>6, <1>7, <1>8, <1>9, <1>10, <1>11, <1>12, <1>13, <1>14, <1>15, <1>16, <1>17, <1>18, <1>19, <1>20, <1>21, <1>22, <1>23, <1>24, <1>25, <1>26, <1>27
     DEF Next, UserStep, DispatchStep, AgentStep, ServerStep, Poll

\* The invariant holds in every reachable state.
LEMMA SafeAlways == Spec => []Safe
  BY SafeInit, SafeNext, PTL DEF Spec

\* A task that is over has a finish time and a running task has a start time.
THEOREM TimesAlwaysMatch == Spec => []TimesMatchStatus
<1>1. Safe => TimesMatchStatus
  BY DEF Safe
<1>2. QED
  BY <1>1, SafeAlways, PTL

\* The two rows of a command disagree only where a handler without a transaction
\* left a failure.
THEOREM MismatchIsBounded == Spec => []MismatchOnlyByPlainWrites
<1>1. Safe => MismatchOnlyByPlainWrites
  BY DEF Safe, RowsOK
<1>2. QED
  BY <1>1, SafeAlways, PTL

\* A running command can be timed out, if every agent reports its times.
THEOREM RunningAlwaysCanTimeOut == Spec => []RunningCanTimeOut
<1>1. Safe => RunningCanTimeOut
  BY DEF Safe
<1>2. QED
  BY <1>1, SafeAlways, PTL

\* While transactions do not fail, no command is handed to the dispatcher before
\* its task was started.
THEOREM NothingIsSentEarly == Spec => []NothingSentBeforeStart
<1>1. Safe => NothingSentBeforeStart
  BY DEF Safe, OnlyStartedAct, Acted, NothingSentBeforeStart
<1>2. QED
  BY <1>1, SafeAlways, PTL

-----------------------------------------------------------------------------
(***************************************************************************)
(* Proofs that the counting of hosts is right: a task becomes completed    *)
(* only when every host is, and a stored progress shows every failure.     *)
(* Both are properties of steps, and both rest on updateTaskProgress.      *)
(***************************************************************************)

\* Everything ever created for a task.
Of(t) == {c \in Commands : cmdTask[c] = t}

\* total_hosts is no less than the commands of the task, as long as no host is
\* removed: what "completed + failed + canceled = total" needs to mean "all".
Counted ==
    /\ "remove" \notin HostEdits =>
         /\ \A r \in Requests : calls[r] # NoCall => calls[r].op # "remove"
         /\ \A t \in Tasks : Exists(t) => Cardinality(Of(t)) <= totalHosts[t]
    /\ \A t \in Tasks : taskStatus[t] = "absent" => Of(t) = {}
    /\ \A r \in Requests : calls[r] # NoCall => taskStatus[calls[r].task] # "absent"

\* No task, nothing to count.
LEMMA CountedInit == Init => Counted
<1> SUFFICES ASSUME Init PROVE Counted
  OBVIOUS
<1>1. \A t \in Tasks : Of(t) = {}
  BY NullAssumption DEF Init, Of
<1>2. \A t \in Tasks : ~Exists(t)
  BY DEF Init, Exists, TaskStatus
<1>3. \A r \in Requests : calls[r] = NoCall
  BY DEF Init
<1>4. QED
  BY <1>1, <1>2, <1>3 DEF Counted

\* A step that creates nothing and keeps the total keeps the invariant.
LEMMA CountedKept ==
    ASSUME Counted, UNCHANGED <<cmdTask, totalHosts>>,
           \A t \in Tasks : /\ taskStatus'[t] = "absent" <=> taskStatus[t] = "absent"
                            /\ Exists(t)' => Exists(t),
           \A r \in Requests : calls'[r] \in {calls[r], NoCall},
           calls \in [Requests -> Call \cup {NoCall}]
    PROVE  Counted'
<1>1. \A t \in Tasks : Of(t)' = Of(t)
  BY DEF Of
<1>2. \A r \in Requests : calls'[r] # NoCall => calls[r] # NoCall /\ calls'[r] = calls[r]
  OBVIOUS
<1>3. \A r \in Requests : calls[r] # NoCall => calls[r].task \in Tasks
  BY DEF Call
<1>4. "remove" \notin HostEdits => \A r \in Requests : calls'[r] # NoCall => calls'[r].op # "remove"
  BY <1>2 DEF Counted
<1>5. "remove" \notin HostEdits =>
        \A t \in Tasks : Exists(t)' => Cardinality(Of(t))' <= totalHosts'[t]
  BY <1>1 DEF Counted
<1>6. \A t \in Tasks : taskStatus'[t] = "absent" => Of(t)' = {}
  BY <1>1 DEF Counted
<1>7. \A r \in Requests : calls'[r] # NoCall => taskStatus'[calls'[r].task] # "absent"
  BY <1>2, <1>3 DEF Counted
<1>8. QED
  BY <1>4, <1>5, <1>6, <1>7 DEF Counted

\* Recomputing the progress of existing tasks creates and deletes none.
LEMMA ProgressKeepsTasks ==
    ASSUME TypeOK, NEW T \in SUBSET Tasks, NEW hs, UpdateTaskProgress(T, hs),
           \A t \in T : Exists(t)
    PROVE  /\ totalHosts' = totalHosts
           /\ \A t \in Tasks : /\ taskStatus'[t] = "absent" <=> taskStatus[t] = "absent"
                               /\ Exists(t)' => Exists(t)
<1>1. PICK failed \in [T -> 0..Cardinality(Commands)] : StoreProgress(T, hs, failed)
  BY DEF UpdateTaskProgress
<1>2. \A t \in T : taskStatus'[t] \in TaskStatus
  BY <1>1 DEF StoreProgress, ProgressStatus, TaskStatus, Exists
<1>3. \A t \in Tasks \ T : taskStatus'[t] = taskStatus[t]
  BY <1>1 DEF StoreProgress
<1>4. QED
  BY <1>1, <1>2, <1>3 DEF StoreProgress, Exists, TaskStatus

\* Every operation keeps total_hosts at no less than the rows of the task.
LEMMA CountedNext == Typed /\ Counted /\ [Next]_vars => Counted'
<1> SUFFICES ASSUME Typed, Counted, [Next]_vars PROVE Counted'
  OBVIOUS
<1> USE DEF Typed, TypeOK
<1>0. calls \in [Requests -> Call \cup {NoCall}]
  BY DEF ProcTypeOK
<1>1. ASSUME NEW t \in Tasks, NEW C \in SUBSET Fresh, C # {}, NEW hostOf \in [C -> Hosts], CreateTask(t, hostOf) PROVE Counted'
  <2>1. \A u \in Tasks : Of(u)' = IF u = t THEN C ELSE Of(u)
    BY <1>1, NullAssumption DEF CreateTask, Counted, Of, Fresh, RowTypeOK
  <2>2. \A u \in Tasks : Exists(u)' => u = t \/ Exists(u)
    BY <1>1 DEF CreateTask, Exists, TaskTypeOK
  <2>3. totalHosts' = [totalHosts EXCEPT ![t] = Cardinality(C)] /\ UNCHANGED calls
    BY <1>1 DEF CreateTask, procVars
  <2>4. Cardinality(C) <= Cardinality(C)
    BY FiniteAssumption, FS_Subset, FS_CardinalityType DEF Fresh
  <2>5. "remove" \notin HostEdits =>
          \A u \in Tasks : Exists(u)' => Cardinality(Of(u))' <= totalHosts'[u]
    BY <2>1, <2>2, <2>3, <2>4 DEF Counted, TaskTypeOK
  <2>6. \A u \in Tasks : taskStatus'[u] = "absent" => Of(u)' = {}
    BY <1>1, <2>1 DEF CreateTask, Counted, TaskTypeOK
  <2>7. \A r \in Requests : calls'[r] # NoCall => taskStatus'[calls'[r].task] # "absent"
    BY <1>1, <2>3 DEF CreateTask, Counted, TaskTypeOK, ProcTypeOK, Call
  <2>8. QED
    BY <2>3, <2>5, <2>6, <2>7 DEF Counted
<1>2. ASSUME NEW t \in Tasks, StartTask(t) PROVE Counted'
  BY <1>2, <1>0, CountedKept DEF StartTask, TaskTypeOK, Exists, TaskStatus
<1>3. ASSUME NEW t \in Tasks, CancelTask(t) PROVE Counted'
  BY <1>3, <1>0, CountedKept DEF CancelTask, procVars, TaskTypeOK, Exists, TaskStatus
<1>4. ASSUME NEW t \in Tasks, NEW C \in SUBSET Rows(t), StartTaskRolledBack(t, C) PROVE Counted'
  BY <1>4, <1>0, CountedKept DEF StartTaskRolledBack, Exists, taskVars, rowVars, procVars
<1>5. ASSUME NEW c \in Commands, RetryFailedCommand(c) PROVE Counted'
  BY <1>5, <1>0, CountedKept, ProgressKeepsTasks, OwnedCommand DEF RetryFailedCommand, Retryable, Found, procVars
<1>6. ASSUME NEW c \in Commands, RetryRolledBack(c) PROVE Counted'
  BY <1>6, <1>0, CountedKept DEF RetryRolledBack, Retryable, Exists, taskVars, rowVars, procVars
<1>7. ASSUME NEW r \in Requests, NEW op \in {"stop", "delete", "add", "remove"}, NEW t \in Tasks, NEW h \in Hosts \cup {NoHost}, CheckCall(r, op, t, h) PROVE Counted'
  <2>1. UNCHANGED <<taskVars, cmdTask>> /\ \A u \in Tasks : Of(u)' = Of(u) /\ Exists(u)' = Exists(u)
    BY <1>7 DEF CheckCall, rowVars, taskVars, Of, Exists
  <2>2. "remove" \notin HostEdits => op # "remove"
    BY <1>7 DEF CheckCall
  <2>3. calls' = [calls EXCEPT ![r] = [op |-> op, task |-> t, host |-> h]] /\ taskStatus[t] # "absent"
    BY <1>7 DEF CheckCall, Exists, TaskStatus
  <2>4. \A q \in Requests : calls'[q] # NoCall =>
            /\ "remove" \notin HostEdits => calls'[q].op # "remove"
            /\ taskStatus'[calls'[q].task] # "absent"
    BY <1>0, <2>1, <2>2, <2>3 DEF Counted, taskVars
  <2>5. QED
    BY <2>1, <2>4 DEF Counted, taskVars
<1>8. ASSUME NEW r \in Requests, StopTask(r) PROVE Counted'
  BY <1>8, <1>0, CountedKept DEF StopTask, Returns, Call, Counted, rowVars, TaskTypeOK, Exists, TaskStatus
<1>9. ASSUME NEW r \in Requests, DeleteTask(r) PROVE Counted'
  BY <1>9, <1>0, CountedKept DEF DeleteTask, Returns, Call, Counted, TaskTypeOK, Exists, TaskStatus
<1>10. ASSUME NEW r \in Requests, RemoveTaskHost(r) PROVE Counted'
  <2>1. "remove" \in HostEdits
    BY <1>10 DEF RemoveTaskHost, OneLess, Returns, Counted
  <2>2. UNCHANGED <<cmdTask, taskStatus>> /\ \A u \in Tasks : Of(u)' = Of(u)
    BY <1>10 DEF RemoveTaskHost, OneLess, Of
  <2>3. \A q \in Requests : calls'[q] # NoCall => calls'[q] = calls[q]
    BY <1>10, <1>0 DEF RemoveTaskHost, OneLess, Returns
  <2>4. QED
    BY <2>1, <2>2, <2>3 DEF Counted
<1>11. ASSUME NEW r \in Requests, NEW c \in Commands, AddTaskHosts(r, c) PROVE Counted'
  <2>0. PICK u \in Tasks : u = calls[r].task
    BY <1>11, <1>0 DEF AddTaskHosts, Returns, Call
  <2>1. taskStatus[u] # "absent" /\ c \notin Of(u) /\ UNCHANGED taskStatus
    BY <1>11, <2>0, NullAssumption DEF AddTaskHosts, Returns, Counted, Of, Fresh
  <2>2. \A t \in Tasks : Of(t)' = IF t = u THEN Of(t) \cup {c} ELSE Of(t)
    BY <1>11, <2>0, NullAssumption DEF AddTaskHosts, Of, Fresh, RowTypeOK
  <2>3. Cardinality(Of(u) \cup {c}) = Cardinality(Of(u)) + 1 /\ Cardinality(Of(u)) \in Nat
    BY <2>1, FiniteAssumption, FS_Subset, FS_CardinalityType, FS_AddElement DEF Of
  <2>4. totalHosts' = [totalHosts EXCEPT ![u] = IF Exists(u) THEN @ + 1 ELSE @]
    BY <1>11, <2>0 DEF AddTaskHosts
  <2>5. "remove" \notin HostEdits =>
          \A t \in Tasks : Exists(t)' => Cardinality(Of(t))' <= totalHosts'[t]
    <3>1. \A t \in Tasks : Exists(t)' = Exists(t)
      BY <2>1 DEF Exists
    <3>2. \A t \in Tasks \ {u} : Of(t)' = Of(t) /\ totalHosts'[t] = totalHosts[t]
      BY <2>2, <2>4 DEF TaskTypeOK
    <3>3. Exists(u) => totalHosts'[u] = totalHosts[u] + 1
      BY <2>1, <2>4 DEF TaskTypeOK
    <3>4. Of(u)' = Of(u) \cup {c}
      BY <2>1, <2>2
    <3>5. totalHosts[u] \in Nat
      BY <2>1 DEF TaskTypeOK
    <3>6. "remove" \notin HostEdits /\ Exists(u) => Cardinality(Of(u))' <= totalHosts'[u]
      BY <2>1, <2>3, <3>3, <3>4, <3>5 DEF Counted
    <3>7. QED
      BY <3>1, <3>2, <3>6 DEF Counted
  <2>6. \A t \in Tasks : taskStatus'[t] = "absent" => Of(t)' = {}
    BY <2>1, <2>2 DEF Counted
  <2>7. \A q \in Requests : calls'[q] # NoCall => calls'[q] = calls[q]
    BY <1>11, <1>0 DEF AddTaskHosts, Returns
  <2>8. QED
    BY <2>1, <2>5, <2>6, <2>7 DEF Counted
<1>12. ASSUME NEW c \in Commands, NEW a \in Attempts, SendSucceeds(c, a) PROVE Counted'
  BY <1>12, <1>0, CountedKept DEF SendSucceeds, Exists, taskVars, rowVars, procVars
<1>13. ASSUME NEW c \in Commands, NEW a \in Attempts, DispatchFailedCommand(c, a) PROVE Counted'
  BY <1>13, <1>0, CountedKept DEF DispatchFailedCommand, Exists, taskVars, rowVars, procVars
<1>14. ASSUME NEW c \in Commands, NEW a \in Attempts, DispatchFailedHost(c, a) PROVE Counted'
  BY <1>14, <1>0, CountedKept DEF DispatchFailedHost, Exists, taskVars, rowVars, procVars
<1>15. ASSUME NEW c \in Commands, NEW a \in Attempts, NEW k \in ResultKinds, HandleCommandResult(c, a, k) PROVE Counted'
  BY <1>15, <1>0, CountedKept, ProgressKeepsTasks, OwnedCommand DEF HandleCommandResult, ResultSetsStart, Found, procVars
<1>16. ASSUME NEW c \in Commands, NEW a \in Attempts, NEW k \in ResultKinds, ResultDropped(c, a, k) PROVE Counted'
  BY <1>16, <1>0, CountedKept DEF ResultDropped, Exists, taskVars, rowVars, procVars
<1>17. ASSUME NEW c \in Commands, NEW a \in Attempts, AnswerLost(c, a) PROVE Counted'
  BY <1>17, <1>0, CountedKept DEF AnswerLost, Exists, taskVars, rowVars, procVars
<1>18. ASSUME NEW C \in SUBSET Commands, FindTimeouts(C) PROVE Counted'
  BY <1>18, <1>0, CountedKept DEF FindTimeouts, Exists, taskVars, rowVars, procVars
<1>19. ASSUME NEW c \in Commands, HandleTimeout(c) PROVE Counted'
  <2>1. CASE Exists(cmdTask[c])
    BY <1>19, <2>1, <1>0, CountedKept, ProgressKeepsTasks, OwnedCommand DEF HandleTimeout
  <2>2. CASE ~Exists(cmdTask[c])
    BY <1>19, <2>2, <1>0, CountedKept DEF HandleTimeout, Exists, taskVars
  <2>3. QED
    BY <2>1, <2>2
<1>20. ASSUME NEW c \in Commands, HandleCommandExecutionError(c) PROVE Counted'
  BY <1>20, <1>0, CountedKept, ProgressKeepsTasks, OwnedCommand DEF HandleCommandExecutionError, Found, procVars
<1>21. ASSUME NEW h \in Hosts, DisconnectHosts(h) PROVE Counted'
  BY <1>21, <1>0, CountedKept DEF DisconnectHosts, Exists, taskVars, rowVars, procVars
<1>22. ASSUME NEW h \in Hosts, DisconnectCommands(h) PROVE Counted'
  BY <1>22, <1>0, CountedKept DEF DisconnectCommands, Exists, taskVars, rowVars, procVars
<1>23. ASSUME NEW h \in Hosts, HandleAgentDisconnection(h) PROVE Counted'
  BY <1>23, <1>0, CountedKept, ProgressKeepsTasks, OwnedCommand DEF HandleAgentDisconnection, Found, procVars
<1>24. ASSUME ServerRestart PROVE Counted'
  BY <1>24, <1>0, CountedKept DEF ServerRestart, taskVars, rowVars, Exists
<1>25. ASSUME NEW t \in Tasks, GetTaskStatus(t) PROVE Counted'
  BY <1>25, <1>0, CountedKept, ProgressKeepsTasks DEF GetTaskStatus, rowVars, procVars
<1>26. CASE UNCHANGED vars
  BY <1>26, <1>0, CountedKept DEF vars, taskVars, rowVars, procVars, Exists
<1>27. ASSUME NEW T \in SUBSET Tasks, CleanupOldRecords(T) PROVE Counted'
  BY <1>27, <1>0, CountedKept DEF CleanupOldRecords, rowVars, procVars, TaskTypeOK, Exists, TaskStatus
<1>28. QED
  BY <1>1, <1>2, <1>3, <1>4, <1>5, <1>6, <1>7, <1>8, <1>9, <1>10, <1>11, <1>12, <1>13, <1>14, <1>15, <1>16, <1>17, <1>18, <1>19, <1>20, <1>21, <1>22, <1>23, <1>24, <1>25, <1>26, <1>27
     DEF Next, UserStep, DispatchStep, AgentStep, ServerStep, Poll

\* The failed count of one of the groups is zero only when no host failed, and
\* never more than the failures there are.
LEMMA FailedCountShows ==
    ASSUME NEW t, NEW hs, NEW n \in FailedCounts(t, hs)
    PROVE  LET failing == {c \in Commands : cmdTask[c] = t /\ hs[c] \in FailKinds}
           IN  (n = 0 <=> failing = {}) /\ n <= Cardinality(failing)
<1> DEFINE failing == {c \in Commands : cmdTask[c] = t /\ hs[c] \in FailKinds}
           group(k) == {c \in Commands : cmdTask[c] = t /\ hs[c] \in {k}}
<1>1. IsFiniteSet(failing) /\ Cardinality(failing) \in Nat
  BY FiniteAssumption, FS_Subset, FS_CardinalityType
<1>2. \A k \in FailKinds : /\ group(k) \subseteq failing
                           /\ Count(t, hs, {k}) = Cardinality(group(k))
  BY DEF Count
<1>3. \A k \in FailKinds : /\ Cardinality(group(k)) \in Nat
                           /\ Cardinality(group(k)) <= Cardinality(failing)
                           /\ Cardinality(group(k)) = 0 <=> group(k) = {}
  BY <1>1, <1>2, FS_Subset, FS_EmptySet, FS_CardinalityType
<1>4. \A x : x \in failing => \E k \in FailKinds : x \in group(k)
  OBVIOUS
<1>5. CASE \A k \in FailKinds : ~(Count(t, hs, {k}) > 0)
  <2>1. n = 0
    BY <1>5 DEF FailedCounts
  <2>2. ASSUME NEW k \in FailKinds PROVE group(k) = {}
    <3> HIDE DEF group
    <3>1. Cardinality(group(k)) \in Nat /\ ~(Cardinality(group(k)) > 0)
      BY <1>2, <1>3, <1>5
    <3>2. Cardinality(group(k)) = 0
      BY <3>1
    <3>3. QED
      BY <3>2, <1>3
  <2>3. failing = {}
    BY <2>2, <1>4
  <2>4. QED
    BY <1>1, <2>1, <2>3
<1>6. CASE \E k \in FailKinds : Count(t, hs, {k}) > 0
  <2>1. PICK k \in FailKinds : Count(t, hs, {k}) > 0 /\ n = Count(t, hs, {k})
    BY <1>6 DEF FailedCounts
  <2>2. n = Cardinality(group(k)) /\ n > 0 /\ n \in Nat /\ n <= Cardinality(failing)
    BY <1>2, <1>3, <2>1
  <2>3. group(k) # {} /\ group(k) \subseteq failing
    BY <1>2, <2>2, FS_EmptySet
  <2>4. failing # {}
    BY <2>3
  <2>5. QED
    BY <2>2, <2>4
<1>7. QED
  BY <1>5, <1>6

\* What updateTaskProgress stores of a task.
LEMMA ProgressShows ==
    ASSUME TypeOK, NEW T \in SUBSET Tasks, NEW hs, UpdateTaskProgress(T, hs), NEW t \in T
    PROVE  LET failing == {c \in Commands : cmdTask[c] = t /\ hs[c] \in FailKinds}
           IN  /\ failedHosts'[t] = 0 <=> failing = {}
               /\ failedHosts'[t] <= Cardinality(failing)
               /\ completedHosts'[t] =
                    Cardinality({c \in Commands : cmdTask[c] = t /\ hs[c] = "Completed"})
<1>1. PICK failed \in [T -> 0..Cardinality(Commands)] :
            (\A u \in T : failed[u] \in FailedCounts(u, hs)) /\ StoreProgress(T, hs, failed)
  BY DEF UpdateTaskProgress
<1>2. failedHosts'[t] \in FailedCounts(t, hs)
  BY <1>1 DEF StoreProgress
<1>3. completedHosts'[t] = Count(t, hs, {"Completed"})
  BY <1>1 DEF StoreProgress
<1>4. {c \in Commands : cmdTask[c] = t /\ hs[c] \in {"Completed"}}
        = {c \in Commands : cmdTask[c] = t /\ hs[c] = "Completed"}
  OBVIOUS
<1>5. QED
  BY <1>2, <1>3, <1>4, FailedCountShows DEF Count

\* A task that updateTaskProgress completes has only completed hosts, if its total
\* is no less than what was created for it.
LEMMA ProgressCompletes ==
    ASSUME TypeOK, NEW T \in SUBSET Tasks, NEW hs, UpdateTaskProgress(T, hs), NEW t \in T,
           Cardinality(Of(t)) <= totalHosts[t],
           taskStatus[t] # "completed", taskStatus'[t] = "completed"
    PROVE  \A c \in Commands : cmdTask[c] = t => hs[c] = "Completed"
<1>1. PICK failed \in [T -> 0..Cardinality(Commands)] : StoreProgress(T, hs, failed)
  BY DEF UpdateTaskProgress
<1> DEFINE done == {c \in Commands : cmdTask[c] = t /\ hs[c] \in {"Completed"}}
           canceled == Count(t, hs, {"Canceled"})
<1>2. /\ Cardinality(done) + failed[t] + canceled = totalHosts[t]
      /\ ~(canceled > 0) /\ failed[t] = 0
  BY <1>1 DEF StoreProgress, ProgressStatus, AllFinishedBy, Count
<1>3. canceled \in Nat /\ Cardinality(Commands) \in Nat
  BY CountType
<1>4. IsFiniteSet(Of(t)) /\ done \subseteq Of(t)
  BY FiniteAssumption, FS_Subset DEF Of
<1>5. Cardinality(done) \in Nat /\ Cardinality(Of(t)) \in Nat /\ totalHosts[t] \in Nat
  BY <1>4, FS_Subset, FS_CardinalityType DEF TypeOK, TaskTypeOK
<1>6. Cardinality(done) >= Cardinality(Of(t))
  BY <1>2, <1>3, <1>5
<1>7. done = Of(t)
  BY <1>4, <1>5, <1>6, FS_Subset
<1>8. QED
  BY <1>7 DEF Of

-----------------------------------------------------------------------------
\* The counts change, and a task becomes completed, only where progress is recomputed
\* from the new CommandHost rows.
Recomputed(T) == (\A t \in T : Exists(t)) /\ UpdateTaskProgress(T, hostStatus')

CountsKept ==
    \A t \in Tasks : /\ completedHosts'[t] = completedHosts[t] /\ failedHosts'[t] = failedHosts[t]
                     /\ taskStatus'[t] = "completed" => taskStatus[t] = "completed"

\* A step changes no count and completes no task, or it recomputes the progress of
\* some tasks.
LEMMA OnlyProgressCounts ==
    Typed /\ [Next]_vars => CountsKept \/ \E T \in SUBSET Tasks : Recomputed(T)
<1> DEFINE Goal == CountsKept \/ \E T \in SUBSET Tasks : Recomputed(T)
<1> SUFFICES ASSUME Typed, [Next]_vars PROVE Goal
  OBVIOUS
<1> USE DEF Typed, TypeOK
<1>1. ASSUME NEW t \in Tasks, NEW C \in SUBSET Fresh, C # {}, NEW hostOf \in [C -> Hosts], CreateTask(t, hostOf) PROVE Goal
  BY <1>1 DEF CreateTask, TaskTypeOK, CountsKept, taskVars
<1>2. ASSUME NEW t \in Tasks, StartTask(t) PROVE Goal
  BY <1>2 DEF StartTask, TaskTypeOK, CountsKept, taskVars
<1>3. ASSUME NEW t \in Tasks, CancelTask(t) PROVE Goal
  BY <1>3 DEF CancelTask, TaskTypeOK, CountsKept, taskVars
<1>4. ASSUME NEW t \in Tasks, NEW C \in SUBSET Rows(t), StartTaskRolledBack(t, C) PROVE Goal
  BY <1>4 DEF StartTaskRolledBack, CountsKept, taskVars
<1>5. ASSUME NEW c \in Commands, RetryFailedCommand(c) PROVE Goal
  <2>1. cmdTask[c] \in Tasks /\ Recomputed({cmdTask[c]})
    BY <1>5, OwnedCommand DEF RetryFailedCommand, Retryable, Found, Recomputed
  <2>2. QED
    BY <2>1
<1>6. ASSUME NEW c \in Commands, RetryRolledBack(c) PROVE Goal
  BY <1>6 DEF RetryRolledBack, Retryable, CountsKept, taskVars
<1>7. ASSUME NEW r \in Requests, NEW op \in {"stop", "delete", "add", "remove"}, NEW t \in Tasks, NEW h \in Hosts \cup {NoHost}, CheckCall(r, op, t, h) PROVE Goal
  BY <1>7 DEF CheckCall, CountsKept, taskVars
<1>8. ASSUME NEW r \in Requests, StopTask(r) PROVE Goal
  BY <1>8 DEF StopTask, Returns, ProcTypeOK, Call, TaskTypeOK, CountsKept, taskVars
<1>9. ASSUME NEW r \in Requests, DeleteTask(r) PROVE Goal
  BY <1>9 DEF DeleteTask, Returns, ProcTypeOK, Call, TaskTypeOK, CountsKept, taskVars
<1>10. ASSUME NEW r \in Requests, RemoveTaskHost(r) PROVE Goal
  BY <1>10 DEF RemoveTaskHost, OneLess, CountsKept, taskVars
<1>11. ASSUME NEW r \in Requests, NEW c \in Commands, AddTaskHosts(r, c) PROVE Goal
  BY <1>11 DEF AddTaskHosts, CountsKept, taskVars
<1>12. ASSUME NEW c \in Commands, NEW a \in Attempts, SendSucceeds(c, a) PROVE Goal
  BY <1>12 DEF SendSucceeds, CountsKept, taskVars
<1>13. ASSUME NEW c \in Commands, NEW a \in Attempts, DispatchFailedCommand(c, a) PROVE Goal
  BY <1>13 DEF DispatchFailedCommand, CountsKept, taskVars
<1>14. ASSUME NEW c \in Commands, NEW a \in Attempts, DispatchFailedHost(c, a) PROVE Goal
  BY <1>14 DEF DispatchFailedHost, CountsKept, taskVars
<1>15. ASSUME NEW c \in Commands, NEW a \in Attempts, NEW k \in ResultKinds, HandleCommandResult(c, a, k) PROVE Goal
  <2>1. cmdTask[c] \in Tasks /\ Recomputed({cmdTask[c]})
    BY <1>15, OwnedCommand DEF HandleCommandResult, ResultSetsStart, Found, Recomputed
  <2>2. QED
    BY <2>1
<1>16. ASSUME NEW c \in Commands, NEW a \in Attempts, NEW k \in ResultKinds, ResultDropped(c, a, k) PROVE Goal
  BY <1>16 DEF ResultDropped, CountsKept, taskVars
<1>17. ASSUME NEW c \in Commands, NEW a \in Attempts, AnswerLost(c, a) PROVE Goal
  BY <1>17 DEF AnswerLost, CountsKept, taskVars
<1>18. ASSUME NEW C \in SUBSET Commands, FindTimeouts(C) PROVE Goal
  BY <1>18 DEF FindTimeouts, CountsKept, taskVars
<1>19. ASSUME NEW c \in Commands, HandleTimeout(c) PROVE Goal
  <2>1. CASE Exists(cmdTask[c])
    <3>1. cmdTask[c] \in Tasks /\ Recomputed({cmdTask[c]})
      BY <1>19, <2>1, OwnedCommand DEF HandleTimeout, Recomputed
    <3>2. QED
      BY <3>1
  <2>2. CASE ~Exists(cmdTask[c])
    BY <1>19, <2>2 DEF HandleTimeout, CountsKept, taskVars
  <2>3. QED
    BY <2>1, <2>2
<1>20. ASSUME NEW c \in Commands, HandleCommandExecutionError(c) PROVE Goal
  <2>1. cmdTask[c] \in Tasks /\ Recomputed({cmdTask[c]})
    BY <1>20, OwnedCommand DEF HandleCommandExecutionError, Found, Recomputed
  <2>2. QED
    BY <2>1
<1>21. ASSUME NEW h \in Hosts, DisconnectHosts(h) PROVE Goal
  BY <1>21 DEF DisconnectHosts, CountsKept, taskVars
<1>22. ASSUME NEW h \in Hosts, DisconnectCommands(h) PROVE Goal
  BY <1>22 DEF DisconnectCommands, CountsKept, taskVars
<1>23. ASSUME NEW h \in Hosts, HandleAgentDisconnection(h) PROVE Goal
  <2>1. \E T \in SUBSET Tasks : Recomputed(T)
    BY <1>23 DEF HandleAgentDisconnection, Recomputed
  <2>2. QED
    BY <2>1
<1>24. ASSUME ServerRestart PROVE Goal
  BY <1>24 DEF ServerRestart, CountsKept, taskVars
<1>25. ASSUME NEW t \in Tasks, GetTaskStatus(t) PROVE Goal
  <2>1. Recomputed({t})
    BY <1>25 DEF GetTaskStatus, Recomputed, rowVars
  <2>2. QED
    BY <2>1
<1>26. CASE UNCHANGED vars
  BY <1>26 DEF vars, CountsKept, taskVars
<1>27. ASSUME NEW T \in SUBSET Tasks, CleanupOldRecords(T) PROVE Goal
  BY <1>27 DEF CleanupOldRecords, CountsKept
<1>28. QED
  BY <1>1, <1>2, <1>3, <1>4, <1>5, <1>6, <1>7, <1>8, <1>9, <1>10, <1>11, <1>12, <1>13, <1>14, <1>15, <1>16, <1>17, <1>18, <1>19, <1>20, <1>21, <1>22, <1>23, <1>24, <1>25, <1>26, <1>27
     DEF Next, UserStep, DispatchStep, AgentStep, ServerStep, Poll

\* Tasks whose progress is not recomputed keep their columns.
LEMMA OthersKept ==
    ASSUME NEW T \in SUBSET Tasks, NEW hs, UpdateTaskProgress(T, hs), NEW t \in Tasks \ T
    PROVE  /\ completedHosts'[t] = completedHosts[t] /\ failedHosts'[t] = failedHosts[t]
           /\ taskStatus'[t] = taskStatus[t]
  BY DEF UpdateTaskProgress, StoreProgress

\* Unless hosts are removed, a task becomes completed only when all its hosts are.
THEOREM CompletedIsTrue == Spec => CompletedOnlyIfAllAre
<1> DEFINE Step == "remove" \notin HostEdits =>
        \A t \in Tasks : taskStatus[t] # "completed" /\ taskStatus'[t] = "completed" =>
            \A c \in Commands : cmdTask[c] = t => hostStatus'[c] = "Completed"
<1>1. Typed /\ Counted /\ [Next]_vars => Step
  <2> SUFFICES ASSUME Typed, Counted, [Next]_vars, "remove" \notin HostEdits, NEW t \in Tasks,
                      taskStatus[t] # "completed", taskStatus'[t] = "completed"
               PROVE  \A c \in Commands : cmdTask[c] = t => hostStatus'[c] = "Completed"
    OBVIOUS
  <2>1. PICK T \in SUBSET Tasks : Recomputed(T)
    BY OnlyProgressCounts DEF CountsKept
  <2>2. t \in T
    BY <2>1, OthersKept DEF Recomputed
  <2>3. Cardinality(Of(t)) <= totalHosts[t]
    BY <2>1, <2>2 DEF Recomputed, Counted
  <2>4. QED
    BY <2>1, <2>2, <2>3, ProgressCompletes DEF Recomputed, Typed
<1>2. Spec => [](Typed /\ Counted)
  BY TypedInit, TypedNext, CountedInit, CountedNext, PTL DEF Spec
<1>3. Spec => [][Next]_vars
  BY PTL DEF Spec
<1>4. QED
  BY <1>1, <1>2, <1>3, PTL DEF CompletedOnlyIfAllAre

\* Whenever the counts change, they show the true number of completed hosts and
\* whether any host failed.
THEOREM FailuresAreShown == Spec => FailuresShow
<1> DEFINE Step ==
      \A t \in Tasks : completedHosts'[t] # completedHosts[t] \/ failedHosts'[t] # failedHosts[t] =>
        LET failing == {c \in Commands : cmdTask[c] = t /\ hostStatus'[c] \in FailKinds}
        IN  /\ failedHosts'[t] = 0 <=> failing = {}
            /\ failedHosts'[t] <= Cardinality(failing)
            /\ completedHosts'[t] =
                 Cardinality({c \in Commands : cmdTask[c] = t /\ hostStatus'[c] = "Completed"})
<1>1. Typed /\ [Next]_vars => Step
  <2> SUFFICES ASSUME Typed, [Next]_vars, NEW t \in Tasks,
                      completedHosts'[t] # completedHosts[t] \/ failedHosts'[t] # failedHosts[t]
               PROVE  LET failing == {c \in Commands : cmdTask[c] = t /\ hostStatus'[c] \in FailKinds}
                      IN  /\ failedHosts'[t] = 0 <=> failing = {}
                          /\ failedHosts'[t] <= Cardinality(failing)
                          /\ completedHosts'[t] = Cardinality(
                                {c \in Commands : cmdTask[c] = t /\ hostStatus'[c] = "Completed"})
    OBVIOUS
  <2>1. PICK T \in SUBSET Tasks : Recomputed(T)
    BY OnlyProgressCounts DEF CountsKept
  <2>2. t \in T
    BY <2>1, OthersKept DEF Recomputed
  <2>3. QED
    BY <2>1, <2>2, ProgressShows DEF Recomputed, Typed
<1>2. Spec => []Typed
  BY TypedInit, TypedNext, PTL DEF Spec
<1>3. Spec => [][Next]_vars
  BY PTL DEF Spec
<1>4. QED
  BY <1>1, <1>2, <1>3, PTL DEF FailuresShow

-----------------------------------------------------------------------------
(***************************************************************************)
(* TaskLifecycle implements TaskContract, for any tasks, hosts, commands   *)
(* and requests, with and without failing transactions.                    *)
(***************************************************************************)

\* What TaskContract sees of one task in a step that moves its row.
Seen(t) ==
    LET p == Stage(taskStatus[t])
        q == Stage(taskStatus'[t])
    IN  \/ q = p /\ startedAt'[t] = startedAt[t]
        \/ p = "absent" /\ q = "pending" /\ startedAt'[t] = startedAt[t]
        \/ p \in {"pending", "active"} /\ q = "active" /\ startedAt'[t]
        \/ p \in {"pending", "active", "over"} /\ q \in {"over", "deleted"} /\ startedAt'[t] = startedAt[t]
        \/ p = "over" /\ q = "active" /\ startedAt'[t] /\ (startedAt[t] \/ DbFaults \/ UncalledOps)

\* A step in which every task is seen to move as the contract allows is a step of
\* the contract.
LEMMA SeenIsContract == (\A t \in Tasks : Seen(t)) => Contract!Next
<1> SUFFICES ASSUME NEW t \in Tasks, Seen(t)
             PROVE  \/ Contract!Create(t) \/ Contract!Begin(t) \/ Contract!End(t)
                    \/ Contract!Reopen(t) \/ Contract!Delete(t) \/ Contract!Rest(t)
  BY DEF Contract!Next
<1> USE DEF Contract!Moves
<1>1. CASE Stage(taskStatus'[t]) = Stage(taskStatus[t]) /\ startedAt'[t] = startedAt[t]
  BY <1>1 DEF Contract!Rest
<1>2. CASE /\ Stage(taskStatus[t]) = "absent" /\ Stage(taskStatus'[t]) = "pending"
           /\ startedAt'[t] = startedAt[t]
  BY <1>2 DEF Contract!Create
<1>3. CASE /\ Stage(taskStatus[t]) \in {"pending", "active"} /\ Stage(taskStatus'[t]) = "active"
           /\ startedAt'[t]
  BY <1>3 DEF Contract!Begin
<1>4. CASE /\ Stage(taskStatus[t]) \in {"pending", "active", "over"} /\ Stage(taskStatus'[t]) = "over"
           /\ startedAt'[t] = startedAt[t]
  BY <1>4 DEF Contract!End
<1>5. CASE /\ Stage(taskStatus[t]) \in {"pending", "active", "over"} /\ Stage(taskStatus'[t]) = "deleted"
           /\ startedAt'[t] = startedAt[t]
  BY <1>5 DEF Contract!Delete
<1>6. CASE /\ Stage(taskStatus[t]) = "over" /\ Stage(taskStatus'[t]) = "active"
           /\ startedAt'[t] /\ (startedAt[t] \/ DbFaults \/ UncalledOps)
  BY <1>6 DEF Contract!Reopen
<1>7. QED
  BY <1>1, <1>2, <1>3, <1>4, <1>5, <1>6 DEF Seen

\* A task without a write to its row rests.
LEMMA RestIsSeen == UNCHANGED <<taskStatus, startedAt>> => \A t \in Tasks : Seen(t)
  BY DEF Seen

\* Recomputing progress moves a task as the contract allows, if only commands that
\* had acted before act, or if unasked commands are allowed for.
LEMMA ProgressIsSeen ==
    ASSUME Safe, Safe', UNCHANGED cmdTask, NEW T \in SUBSET Tasks, \A t \in T : Exists(t),
           UpdateTaskProgress(T, hostStatus'),
           DbFaults \/ UncalledOps \/ \A c \in Commands : Acted(c)' => Acted(c)
    PROVE  \A t \in Tasks : Seen(t)
<1>1. \A t, kinds : Count(t, hostStatus', kinds) \in Nat
  BY CountType
<1>2. PICK failed \in [T -> 0..Cardinality(Commands)] : StoreProgress(T, hostStatus', failed)
  BY DEF UpdateTaskProgress
<1>3. ASSUME NEW t \in Tasks \ T PROVE Seen(t)
  BY <1>2, <1>3 DEF StoreProgress, Seen, Safe, Typed, TypeOK, TaskTypeOK
<1>4. ASSUME NEW t \in T PROVE Seen(t)
  <2>1. t \in Tasks /\ taskStatus[t] \in TaskStatus
    BY DEF Exists
  <2>2. Stage(taskStatus[t]) \in {"pending", "active", "over"}
    BY <2>1 DEF Stage, TaskStatus, Completed
  <2>3. CASE Over(t, hostStatus', failed[t])
    <3>1. taskStatus'[t] \in {"completed", "failed", "canceled"} /\ startedAt'[t] = startedAt[t]
      BY <1>2, <2>1, <2>3 DEF StoreProgress, ProgressStatus, Over, Safe, Typed, TypeOK, TaskTypeOK
    <3>2. QED
      BY <2>2, <3>1 DEF Seen, Stage, Completed
  <2>4. CASE ~Over(t, hostStatus', failed[t])
    <3>1. CASE Count(t, hostStatus', {"Running"}) > 0 \/ Count(t, hostStatus', {"Completed"}) > 0
      <4>1. Count(t, hostStatus', {"Running"}) + Count(t, hostStatus', {"Completed"}) > 0
        BY <1>1, <3>1
      <4>2. taskStatus'[t] = "running"
        BY <1>2, <2>1, <2>4, <3>1 DEF StoreProgress, ProgressStatus, Over
      <4>3. startedAt'[t]
        BY <1>2, <2>1, <2>4, <4>1 DEF StoreProgress
      <4>4. startedAt[t] \/ DbFaults \/ UncalledOps
        <5>1. \E c \in Commands : cmdTask[c] = t /\ hostStatus'[c] \in {"Running", "Completed"}
          BY <1>1, <3>1, FS_EmptySet DEF Count
        <5>2. PICK c \in Commands : cmdTask[c] = t /\ hostStatus'[c] \in {"Running", "Completed"}
          BY <5>1
        \* Where the two rows disagree, the Command is "failed".
        <5>3. Acted(c)'
          BY <5>2 DEF Safe, RowsOK, MismatchOnlyByPlainWrites, Agree, Agrees, Acted
        <5>4. QED
          BY <5>2, <5>3 DEF Safe, OnlyStartedAct
      <4>5. QED
        BY <2>2, <4>2, <4>3, <4>4 DEF Seen, Stage, Completed
    <3>2. CASE ~(Count(t, hostStatus', {"Running"}) > 0 \/ Count(t, hostStatus', {"Completed"}) > 0)
      <4>1. Count(t, hostStatus', {"Running"}) + Count(t, hostStatus', {"Completed"}) = 0
        BY <1>1, <3>2
      <4>2. taskStatus'[t] = taskStatus[t]
        BY <1>2, <2>1, <2>4, <3>2 DEF StoreProgress, ProgressStatus, Over
      <4>3. startedAt'[t] = startedAt[t]
        BY <1>2, <2>1, <4>1 DEF StoreProgress, Safe, Typed, TypeOK, TaskTypeOK
      <4>4. QED
        BY <4>2, <4>3 DEF Seen
    <3>3. QED
      BY <3>1, <3>2
  <2>5. QED
    BY <2>3, <2>4
<1>5. QED
  BY <1>3, <1>4
\* Every operation moves each task as the contract allows.
LEMMA NextIsSeen ==
    Safe /\ Safe' /\ Counted /\ [Next]_vars => \A u \in Tasks : Seen(u)
<1> DEFINE Goal == \A u \in Tasks : Seen(u)
<1> SUFFICES ASSUME Safe, Safe', Counted, [Next]_vars PROVE Goal
  OBVIOUS
<1>0. Safe /\ Safe'
  OBVIOUS
<1>1. ASSUME NEW t \in Tasks, NEW C \in SUBSET Fresh, NEW hostOf \in [C -> Hosts], CreateTask(t, hostOf) PROVE Goal
  BY <1>1 DEF CreateTask, Seen, Stage, Completed, Safe, Typed, TypeOK, TaskTypeOK, TaskStatus
<1>2. ASSUME NEW t \in Tasks, StartTask(t) PROVE Goal
  BY <1>2 DEF StartTask, Seen, Stage, Completed, Safe, Typed, TypeOK, TaskTypeOK, TaskStatus
<1>3. ASSUME NEW t \in Tasks, CancelTask(t) PROVE Goal
  BY <1>3 DEF CancelTask, Exists, Seen, Stage, Completed, Safe, Typed, TypeOK, TaskTypeOK, TaskStatus
<1>4. ASSUME NEW t \in Tasks, NEW C \in SUBSET Rows(t), StartTaskRolledBack(t, C) PROVE Goal
  BY <1>4, RestIsSeen DEF StartTaskRolledBack, taskVars
<1>5. ASSUME NEW c \in Commands, RetryFailedCommand(c) PROVE Goal
  <2>1. cmdTask[c] \in Tasks /\ Exists(cmdTask[c])
    BY <1>5, OwnedCommand DEF RetryFailedCommand, Retryable, Found, Safe
  <2>2. UNCHANGED cmdTask /\ UpdateTaskProgress({cmdTask[c]}, hostStatus')
    BY <1>5 DEF RetryFailedCommand, Retryable
  <2>3. \A d \in Commands : Acted(d)' => Acted(d)
    BY <1>5 DEF RetryFailedCommand, Retryable, SendAll, Acted, Safe, Typed, TypeOK, RowTypeOK, ProcTypeOK
  <2>4. QED
    BY <1>0, <2>1, <2>2, <2>3, ProgressIsSeen
<1>6. ASSUME NEW c \in Commands, RetryRolledBack(c) PROVE Goal
  BY <1>6, RestIsSeen DEF RetryRolledBack, taskVars
<1>7. ASSUME NEW r \in Requests, NEW op, NEW t, NEW h, CheckCall(r, op, t, h) PROVE Goal
  BY <1>7, RestIsSeen DEF CheckCall, taskVars
<1>8. ASSUME NEW r \in Requests, StopTask(r) PROVE Goal
  <2>1. PICK t \in Tasks : t = calls[r].task /\ taskStatus[t] # "absent"
    BY <1>8 DEF StopTask, Returns, Call, Counted, Safe, Typed, TypeOK, ProcTypeOK
  <2>2. QED
    BY <1>8, <2>1 DEF StopTask, Seen, Stage, Completed, Safe, Typed, TypeOK, TaskTypeOK, TaskStatus
<1>9. ASSUME NEW r \in Requests, DeleteTask(r) PROVE Goal
  <2>1. PICK t \in Tasks : t = calls[r].task /\ taskStatus[t] # "absent"
    BY <1>9 DEF DeleteTask, Returns, Call, Counted, Safe, Typed, TypeOK, ProcTypeOK
  <2>2. QED
    BY <1>9, <2>1 DEF DeleteTask, Seen, Stage, Completed, Safe, Typed, TypeOK, TaskTypeOK, TaskStatus
<1>10. ASSUME NEW r \in Requests, RemoveTaskHost(r) PROVE Goal
  BY <1>10, RestIsSeen DEF RemoveTaskHost, taskVars
<1>11. ASSUME NEW r \in Requests, NEW c \in Commands, AddTaskHosts(r, c) PROVE Goal
  BY <1>11, RestIsSeen DEF AddTaskHosts, taskVars
<1>12. ASSUME NEW c \in Commands, NEW a \in Attempts, SendSucceeds(c, a) PROVE Goal
  BY <1>12, RestIsSeen DEF SendSucceeds, taskVars
<1>13. ASSUME NEW c \in Commands, NEW a \in Attempts, DispatchFailedCommand(c, a) PROVE Goal
  BY <1>13, RestIsSeen DEF DispatchFailedCommand, taskVars
<1>14. ASSUME NEW c \in Commands, NEW a \in Attempts, DispatchFailedHost(c, a) PROVE Goal
  BY <1>14, RestIsSeen DEF DispatchFailedHost, taskVars
<1>15. ASSUME NEW c \in Commands, NEW a \in Attempts, NEW k \in ResultKinds, HandleCommandResult(c, a, k) PROVE Goal
  <2>1. cmdTask[c] \in Tasks /\ Exists(cmdTask[c])
    BY <1>15, OwnedCommand DEF HandleCommandResult, Found, Safe
  <2>2. UNCHANGED cmdTask /\ UpdateTaskProgress({cmdTask[c]}, hostStatus')
    BY <1>15 DEF HandleCommandResult
  <2>3. \A d \in Commands : Acted(d)' => Acted(d)
    BY <1>15 DEF HandleCommandResult, AgentSends, SetJob, Acted, Safe, Typed, TypeOK, RowTypeOK, ProcTypeOK
  <2>4. QED
    BY <1>0, <2>1, <2>2, <2>3, ProgressIsSeen
<1>16. ASSUME NEW c \in Commands, NEW a \in Attempts, NEW k \in ResultKinds, ResultDropped(c, a, k) PROVE Goal
  BY <1>16, RestIsSeen DEF ResultDropped, taskVars
<1>17. ASSUME NEW c \in Commands, NEW a \in Attempts, AnswerLost(c, a) PROVE Goal
  BY <1>17, RestIsSeen DEF AnswerLost, taskVars
<1>18. ASSUME NEW C \in SUBSET Commands, FindTimeouts(C) PROVE Goal
  BY <1>18, RestIsSeen DEF FindTimeouts, taskVars
<1>19. ASSUME NEW c \in Commands, HandleTimeout(c) PROVE Goal
  <2>1. CASE Exists(cmdTask[c])
    <3>1. cmdTask[c] \in Tasks
      BY <1>19, OwnedCommand DEF HandleTimeout, Safe
    <3>2. UNCHANGED cmdTask /\ UpdateTaskProgress({cmdTask[c]}, hostStatus')
      BY <1>19, <2>1 DEF HandleTimeout
    <3>3. \A d \in Commands : Acted(d)' => Acted(d)
      BY <1>19 DEF HandleTimeout, Acted, Safe, Typed, TypeOK, RowTypeOK, ProcTypeOK
    <3>4. QED
      BY <1>0, <2>1, <3>1, <3>2, <3>3, ProgressIsSeen
  <2>2. CASE ~Exists(cmdTask[c])
    BY <1>19, <2>2, RestIsSeen DEF HandleTimeout, taskVars
  <2>3. QED
    BY <2>1, <2>2
<1>20. ASSUME NEW c \in Commands, HandleCommandExecutionError(c) PROVE Goal
  <2>1. cmdTask[c] \in Tasks /\ Exists(cmdTask[c])
    BY <1>20, OwnedCommand DEF HandleCommandExecutionError, Found, Safe
  <2>2. UNCHANGED cmdTask /\ UpdateTaskProgress({cmdTask[c]}, hostStatus')
    BY <1>20 DEF HandleCommandExecutionError
  <2>3. UncalledOps
    BY <1>20 DEF HandleCommandExecutionError
  <2>4. QED
    BY <1>0, <2>1, <2>2, <2>3, ProgressIsSeen
<1>21. ASSUME NEW h \in Hosts, DisconnectHosts(h) PROVE Goal
  BY <1>21, RestIsSeen DEF DisconnectHosts, taskVars
<1>22. ASSUME NEW h \in Hosts, DisconnectCommands(h) PROVE Goal
  BY <1>22, RestIsSeen DEF DisconnectCommands, taskVars
<1>23. ASSUME NEW h \in Hosts, HandleAgentDisconnection(h) PROVE Goal
  BY <1>0, <1>23, ProgressIsSeen DEF HandleAgentDisconnection
<1>24. ASSUME ServerRestart PROVE Goal
  BY <1>24, RestIsSeen DEF ServerRestart, taskVars
<1>25. ASSUME NEW t \in Tasks, GetTaskStatus(t) PROVE Goal
  <2>1. UNCHANGED cmdTask /\ UpdateTaskProgress({t}, hostStatus')
    BY <1>25 DEF GetTaskStatus, rowVars
  <2>2. \A d \in Commands : Acted(d)' => Acted(d)
    BY <1>25 DEF GetTaskStatus, Acted, rowVars, procVars
  <2>3. QED
    BY <1>0, <1>25, <2>1, <2>2, ProgressIsSeen DEF GetTaskStatus
<1>26. ASSUME NEW T \in SUBSET Tasks, CleanupOldRecords(T) PROVE Goal
  BY <1>26 DEF CleanupOldRecords, Seen, Stage, Completed, Safe, Typed, TypeOK, TaskTypeOK, TaskStatus
<1>27. CASE UNCHANGED vars
  BY <1>27, RestIsSeen DEF vars, taskVars
<1>28. QED
  BY <1>1, <1>2, <1>3, <1>4, <1>5, <1>6, <1>7, <1>8, <1>9, <1>10, <1>11, <1>12, <1>13, <1>14, <1>15, <1>16, <1>17, <1>18, <1>19, <1>20, <1>21, <1>22, <1>23, <1>24, <1>25, <1>26, <1>27
     DEF Next, UserStep, DispatchStep, AgentStep, ServerStep, Poll

\* The task service implements the contract: with the refinement mapping of
\* TaskLifecycle, every behaviour of its rows, goroutines, requests and agents is a
\* behaviour of TaskContract.
THEOREM ServiceKeepsContract == Spec => ImplementsContract
<1>1. Init => Contract!Init
  BY DEF Init, Contract!Init, Stage, Completed
<1>2. Safe /\ Safe' /\ Counted /\ [Next]_vars => Contract!Next
  BY NextIsSeen, SeenIsContract
<1>3. Spec => [](Safe /\ Counted)
  <2>1. Safe => Typed
    BY DEF Safe
  <2>2. QED
    BY <2>1, SafeInit, SafeNext, CountedInit, CountedNext, PTL DEF Spec
<1>4. Spec => Init /\ [][Next]_vars
  BY PTL DEF Spec
<1>5. QED
  BY <1>1, <1>2, <1>3, <1>4, PTL DEF ImplementsContract, Contract!Spec
=============================================================================
