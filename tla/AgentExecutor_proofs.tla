------------------------ MODULE AgentExecutor_proofs ------------------------
(***************************************************************************)
(* Theorems about the agent's TaskService, for any task ids, callers and   *)
(* number of executions, with and without gRPC callers and cleanup.        *)
(***************************************************************************)
EXTENDS AgentExecutor, TLAPS

\* What is stored at each point of the goroutine of an execution.
ProcShape(e) ==
  LET x == exec[e] IN
  /\ x.proc = "none" <=> x.status = "none"
  /\ x.proc # "none" => x.service \in Services /\ x.task \in Tasks
  /\ x.proc \in {"alive", "exited"} => x.status \in {"running", "canceled"}
  /\ x.proc \in {"exited", "stored"} => x.code \in Codes
  /\ x.proc = "stored" => /\ x.status \in {"running", "failed", "canceled"}
                          /\ x.result = x.code
                          /\ x.status = "running" => x.result = "zero"
  /\ x.proc = "done" => x.status = "completed" /\ x.ended /\ x.result \in Codes

\* A cancel is visible in the status until the goroutine writes the outcome.
CancelShape(e) == exec[e].proc = "alive" /\ ~exec[e].canceled => exec[e].status = "running"

\* The executions not made yet have not begun.
NotYetMade(e) == e > made => exec[e].proc = "none"

\* The service that started an execution keeps it on record as long as it says
\* "running": neither a new call nor the cleanup can take its place.
RunningIsRecorded(e) ==
  exec[e].status = "running" => record[exec[e].service][exec[e].task] = e

ExecShape ==
  \A e \in Execs : ProcShape(e) /\ CancelShape(e) /\ NotYetMade(e) /\ RunningIsRecorded(e)

Inv == TypeOK /\ ExecShape

-----------------------------------------------------------------------------
\* The execution objects the actions build are well typed.
LEMMA NewExecTyped == \A s \in Services, t \in Tasks : NewExec(s, t) \in ExecState
  BY DEF NewExec, ExecState, Statuses

LEMMA UnmadeTyped == Unmade \in ExecState /\ Unmade.proc = "none" /\ Unmade.status = "none"
  BY DEF Unmade, NewExec, ExecState, Statuses

LEMMA ViaTyped == \A k : Via(k) \in Services
  BY DEF Via, Services

\* A record is added or removed in one service only.
LEMMA RecordTyped ==
    ASSUME TypeOK, NEW s \in Services, NEW t \in Tasks, NEW v \in Execs \cup {None}
    PROVE  [record EXCEPT ![s][t] = v] \in [Services -> [Tasks -> Execs \cup {None}]]
  BY DEF TypeOK

LEMMA ExitedTyped ==
    ASSUME NEW x \in ExecState, NEW code \in Codes
    PROVE  [x EXCEPT !.proc = "exited", !.code = code] \in ExecState
  BY DEF ExecState

LEMMA ExpiredTyped == \A x \in ExecState : [x EXCEPT !.expired = TRUE] \in ExecState
  BY DEF ExecState

LEMMA StoredTyped ==
    ASSUME NEW x \in ExecState
    PROVE  Stored(x) \in ExecState
<1> DEFINE v == IF x.code = "nonzero" THEN "failed" ELSE x.status
<1>1. v \in Statuses \cup {"none"} /\ x.code \in Codes \cup {None}
  BY DEF ExecState, Statuses
<1>2. [x EXCEPT !.proc = "stored", !.result = x.code, !.status = v] \in ExecState
  <2> HIDE DEF v
  <2> QED  BY <1>1 DEF ExecState
<1> QED  BY <1>2 DEF Stored

LEMMA FinishedTyped ==
    ASSUME NEW x \in ExecState
    PROVE  [x EXCEPT !.proc = "done", !.status = "completed", !.ended = TRUE] \in ExecState
  BY DEF ExecState, Statuses

LEMMA CanceledTyped ==
    ASSUME NEW x \in ExecState
    PROVE  [x EXCEPT !.canceled = TRUE, !.status = "canceled", !.ended = TRUE] \in ExecState
  BY DEF ExecState, Statuses

\* A newly started agent is well typed and has executed nothing.
LEMMA ExecutorInit == Init => Inv
<1>1. Init => TypeOK
  BY UnmadeTyped, MaxExecsAssumption DEF Init, TypeOK, Free, CallerState
<1>2. Init => ExecShape
  BY UnmadeTyped DEF Init, ExecShape, ProcShape, CancelShape, NotYetMade, RunningIsRecorded
<1> QED  BY <1>1, <1>2 DEF Inv

\* Every step of the handlers, the goroutines and the restart keeps the types.
LEMMA ExecutorTyped == Inv /\ [Next]_vars => TypeOK'
<1> SUFFICES ASSUME TypeOK, ExecShape, [Next]_vars PROVE TypeOK'
  BY DEF Inv
<1> USE MaxExecsAssumption DEF TypeOK
<1>1. CASE UNCHANGED vars
  BY <1>1 DEF vars
<1>2. ASSUME NEW k \in Callers, NEW t \in Tasks, ExecuteTask(k, t) PROVE TypeOK'
  <2>1. CASE t \in Dangerous \/ Taken(Via(k), t)
    BY <1>2, <2>1 DEF ExecuteTask, Answered, CallerState
  <2>2. CASE ~(t \in Dangerous \/ Taken(Via(k), t))
    <3>1. made' \in 0..MaxExecs /\ made' \in Execs
      BY <1>2, <2>2 DEF ExecuteTask, Execs
    <3>2. record' \in [Services -> [Tasks -> Execs \cup {None}]]
      BY <1>2, <2>2, <3>1, RecordTyped, ViaTyped DEF ExecuteTask
    <3>3. exec' \in [Execs -> ExecState]
      <4>1. NewExec(Via(k), t) \in ExecState
        BY NewExecTyped, ViaTyped
      <4> QED  BY <1>2, <2>2, <4>1 DEF ExecuteTask
    <3>4. caller' \in [Callers -> CallerState]
      BY <1>2, <2>2, <3>1 DEF ExecuteTask, Waiting, CallerState
    <3> QED  BY <1>2, <2>2, <3>1, <3>2, <3>3, <3>4 DEF ExecuteTask
  <2> QED  BY <2>1, <2>2
<1>3. ASSUME NEW e \in Execs, Runs(e) PROVE TypeOK'
  <2>1. PICK code \in Codes : /\ exec' = [exec EXCEPT ![e].proc = "exited", ![e].code = code]
                              /\ UNCHANGED <<record, made, caller, up, orphans>>
    BY <1>3 DEF Runs, CommandExits, KilledExits, KillCode, Codes
  <2>2. exec' = [exec EXCEPT ![e] = [exec[e] EXCEPT !.proc = "exited", !.code = code]]
    BY <2>1
  <2>3. [exec[e] EXCEPT !.proc = "exited", !.code = code] \in ExecState
    BY ExitedTyped
  <2>4. exec' \in [Execs -> ExecState]
    BY <2>2, <2>3
  <2> QED  BY <2>1, <2>4
<1>4. ASSUME NEW e \in Execs, Deadline(e) PROVE TypeOK'
  <2>1. [exec[e] EXCEPT !.expired = TRUE] \in ExecState
    BY ExpiredTyped
  <2>2. exec' = [exec EXCEPT ![e] = [exec[e] EXCEPT !.expired = TRUE]]
    BY <1>4 DEF Deadline
  <2>3. exec' \in [Execs -> ExecState]
    BY <2>1, <2>2
  <2> QED  BY <1>4, <2>3 DEF Deadline
<1>5. ASSUME NEW e \in Execs, Records(e) PROVE TypeOK'
  <2>1. CASE StoreResult(e)
    BY <2>1, StoredTyped DEF StoreResult
  <2>2. CASE Finish(e)
    <3>1. exec' = [exec EXCEPT ![e] = [exec[e] EXCEPT !.proc = "done", !.status = "completed",
                                                     !.ended = TRUE]]
      BY <2>2 DEF Finish
    <3>2. [exec[e] EXCEPT !.proc = "done", !.status = "completed", !.ended = TRUE] \in ExecState
      BY FinishedTyped
    <3>3. exec' \in [Execs -> ExecState]
      BY <3>1, <3>2
    <3> QED  BY <2>2, <3>3 DEF Finish
  <2> QED  BY <1>5, <2>1, <2>2 DEF Records
<1>6. ASSUME NEW s \in Services, NEW t \in Tasks, CancelTask(s, t) PROVE TypeOK'
  <2> DEFINE e == record[s][t]
  <2>1. e \in Execs
    BY <1>6 DEF CancelTask
  <2>2. exec' = [exec EXCEPT ![e] = [exec[e] EXCEPT !.canceled = TRUE, !.status = "canceled",
                                                   !.ended = TRUE]]
    BY <1>6, <2>1 DEF CancelTask
  <2>3. [exec[e] EXCEPT !.canceled = TRUE, !.status = "canceled", !.ended = TRUE] \in ExecState
    BY <2>1, CanceledTyped
  <2>4. exec' \in [Execs -> ExecState]
    BY <2>1, <2>2, <2>3
  <2> QED  BY <1>6, <2>4 DEF CancelTask
<1>7. ASSUME NEW t \in Tasks, Cleanup(t) \/ OrphanExits(t) PROVE TypeOK'
  BY <1>7, RecordTyped DEF Cleanup, OrphanExits, Services
<1>8. ASSUME NEW k \in Callers, Handles(k) PROVE TypeOK'
  <2>1. caller[k].exec \in Execs \cup {None}
    BY DEF CallerState
  <2>2. \A e \in Execs : exec[e].result \in Codes \cup {None}
    BY DEF ExecState
  <2>3. CASE WaitCanceled(k)
    BY <2>1, <2>3 DEF WaitCanceled, Answered, CallerState
  <2>4. CASE WaitTimer(k)
    <3> DEFINE a == IF exec[caller[k].exec].result = None THEN "error" ELSE exec[caller[k].exec].result
    <3>1. Answered(caller[k].exec, a) \in CallerState
      BY <2>1, <2>2, <2>4 DEF WaitTimer, Answered, CallerState
    <3> QED  BY <2>4, <3>1 DEF WaitTimer
  <2>5. CASE HttpReplies(k)
    BY <2>5 DEF HttpReplies, Free, CallerState
  <2>6. CASE GrpcReplies(k)
    <3>0. caller' = caller \/ caller' = [caller EXCEPT ![k] = Free]
      BY <2>6 DEF GrpcReplies
    <3>1. caller' \in [Callers -> CallerState]
      BY <3>0 DEF Free, CallerState
    <3>2. up' \in BOOLEAN
      BY <2>6 DEF GrpcReplies
    <3> QED  BY <2>6, <3>1, <3>2 DEF GrpcReplies
  <2> QED  BY <1>8, <2>3, <2>4, <2>5, <2>6 DEF Handles
<1>9. CASE Restart
  <2>1. orphans' \subseteq Tasks
    BY <1>9 DEF Restart, ExecShape, ProcShape
  <2> QED  BY <1>9, <2>1, UnmadeTyped DEF Restart, Free, CallerState
<1> QED  BY <1>1, <1>2, <1>3, <1>4, <1>5, <1>6, <1>7, <1>8, <1>9 DEF Next

\* Every step keeps what is stored about an execution in line with its goroutine.
LEMMA ExecutorShape == Inv /\ [Next]_vars => ExecShape'
<1> SUFFICES ASSUME Inv, [Next]_vars, NEW d \in Execs
             PROVE  (ProcShape(d) /\ CancelShape(d) /\ NotYetMade(d) /\ RunningIsRecorded(d))'
  BY DEF ExecShape
<1> DEFINE Goal == (ProcShape(d) /\ CancelShape(d) /\ NotYetMade(d) /\ RunningIsRecorded(d))'
<1> USE MaxExecsAssumption DEF ProcShape, CancelShape, NotYetMade, RunningIsRecorded
<1>0. TypeOK /\ TypeOK' /\ ExecShape
  BY ExecutorTyped DEF Inv
<1>1. CASE UNCHANGED vars
  BY <1>0, <1>1 DEF vars, ExecShape
<1>2. ASSUME NEW k \in Callers, NEW t \in Tasks, ExecuteTask(k, t) PROVE Goal
  <2>1. CASE t \in Dangerous \/ Taken(Via(k), t)
    BY <1>0, <1>2, <2>1 DEF ExecuteTask, ExecShape
  <2>2. CASE ~(t \in Dangerous \/ Taken(Via(k), t))
    <3>1. /\ made' = made + 1 /\ made' \in Execs
          /\ exec' = [exec EXCEPT ![made'] = NewExec(Via(k), t)]
          /\ record' = [record EXCEPT ![Via(k)][t] = made']
          /\ Via(k) \in Services
      BY ViaTyped, <1>0, <1>2, <2>2 DEF ExecuteTask, TypeOK, Execs
    <3>2. CASE d = made'
      BY <1>0, <3>1, <3>2 DEF TypeOK, NewExec
    <3>3. CASE d # made'
      <4>1. exec'[d] = exec[d] /\ (d > made' => d > made)
        BY <1>0, <3>1, <3>3 DEF TypeOK, Execs
      \* The task of a running execution is taken, so it is not t.
      <4>2. exec[d].status = "running" => record'[exec[d].service][exec[d].task] = d
        BY <1>0, <2>2, <3>1, NoneAssumption DEF TypeOK, ExecShape, Taken
      <4> QED  BY <1>0, <4>1, <4>2 DEF ExecShape
    <3> QED  BY <3>2, <3>3
  <2> QED  BY <2>1, <2>2
<1>3. ASSUME NEW e \in Execs, Runs(e) \/ Deadline(e) \/ Records(e) PROVE Goal
  <2>1. UNCHANGED <<record, made>>
    BY <1>3 DEF Runs, CommandExits, KilledExits, Deadline, Records, StoreResult, Finish
  <2>2. CASE d # e
    <3>1. exec'[d] = exec[d]
      BY <1>0, <1>3, <2>2 DEF TypeOK, Runs, CommandExits, KilledExits, Deadline, Records, StoreResult, Finish
    <3> QED  BY <1>0, <2>1, <3>1 DEF ExecShape
  <2>3. CASE d = e
    <3>0. exec[e] \in ExecState
      BY <1>0 DEF TypeOK
    <3>1. CASE Runs(e)
      BY <1>0, <2>1, <2>3, <3>0, <3>1 DEF TypeOK, ExecShape, ExecState, Runs, CommandExits, KilledExits,
                                           KillCode, Codes
    <3>2. CASE Deadline(e)
      BY <1>0, <2>1, <2>3, <3>0, <3>2 DEF TypeOK, ExecShape, ExecState, Deadline
    <3>3. CASE StoreResult(e)
      <4>1. exec'[e] = Stored(exec[e]) /\ exec[e].proc = "exited"
        BY <1>0, <3>3 DEF TypeOK, StoreResult
      <4> QED  BY <1>0, <2>1, <2>3, <3>0, <4>1 DEF ExecShape, ExecState, Stored, Codes
    <3>4. CASE Finish(e)
      BY <1>0, <2>1, <2>3, <3>0, <3>4 DEF TypeOK, ExecShape, ExecState, Finish, Finishing
    <3> QED  BY <1>3, <3>1, <3>2, <3>3, <3>4 DEF Records
  <2> QED  BY <2>2, <2>3
<1>4. ASSUME NEW s \in Services, NEW t \in Tasks, CancelTask(s, t) PROVE Goal
  <2> DEFINE e == record[s][t]
  <2>1. /\ e \in Execs /\ exec[e].status = "running"
        /\ exec' = [exec EXCEPT ![e].canceled = TRUE, ![e].status = "canceled", ![e].ended = TRUE]
        /\ UNCHANGED <<record, made>>
    BY <1>0, <1>4 DEF CancelTask, TypeOK
  <2> HIDE DEF e
  <2> QED  BY <1>0, <2>1 DEF ExecShape, TypeOK
<1>5. ASSUME NEW t \in Tasks, Cleanup(t) \/ OrphanExits(t) PROVE Goal
  <2>1. exec' = exec /\ made' = made
    BY <1>5 DEF Cleanup, OrphanExits
  <2>2. exec[d].status = "running" => record'[exec[d].service][exec[d].task] = d
    BY <1>0, <1>5, NoneAssumption DEF Cleanup, OrphanExits, ExecShape, TypeOK, Services
  <2> QED  BY <1>0, <2>1, <2>2 DEF ExecShape
<1>6. ASSUME NEW k \in Callers, Handles(k) PROVE Goal
  BY <1>0, <1>6 DEF Handles, WaitCanceled, WaitTimer, HttpReplies, GrpcReplies, ExecShape
<1>7. CASE Restart
  BY <1>7 DEF Restart, Unmade, NewExec
<1> QED  BY <1>1, <1>2, <1>3, <1>4, <1>5, <1>6, <1>7 DEF Next

\* The invariant holds in every reachable state.
LEMMA ExecutorInv == Spec => []Inv
<1>1. Inv /\ [Next]_vars => Inv'
  BY ExecutorTyped, ExecutorShape DEF Inv
<1> QED  BY <1>1, ExecutorInit, PTL DEF Spec

\* Records, executions and callers are well typed in every reachable state, across
\* restarts of the agent.
THEOREM ExecutorTypeCorrect == Spec => []TypeOK
  BY ExecutorInv, PTL DEF Inv

\* The status of a record follows its goroutine through the two critical sections,
\* wherever CancelTask and the expiry of the context come in between.
THEOREM ExecutorStatus == Spec => []StatusFollowsProcess
<1>1. Inv => StatusFollowsProcess
  BY NoneAssumption DEF Inv, TypeOK, ExecState, ExecShape, ProcShape, StatusFollowsProcess, Codes
<1> QED  BY <1>1, ExecutorInv, PTL

\* ExecuteTask of a service never starts a second command of a task id beside one that
\* nobody canceled, also when records are cleaned up and the agent is restarted.
THEOREM ExecutorExclusion == Spec => []OneCommandPerService
<1>1. Inv => OneCommandPerService
  BY DEF Inv, TypeOK, ExecShape, ProcShape, CancelShape, RunningIsRecorded, OneCommandPerService
<1> QED  BY <1>1, ExecutorInv, PTL
=============================================================================
