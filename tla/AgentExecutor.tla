--------------------------- MODULE AgentExecutor ---------------------------
(***************************************************************************)
(* The agent's TaskService (agent/pkg/service/task_service.go): it runs    *)
(* one shell command per task id and keeps a record of each execution.     *)
(* Callers are the handlers of POST /task/execute and of the gRPC command  *)
(* stream; each blocks in ExecuteTask.  Each of the two controllers has    *)
(* made a TaskService of its own, with its own records.  The command runs  *)
(* on a goroutine that writes its outcome into the record in two critical  *)
(* sections, and CancelTask may run between any two of these steps.        *)
(*                                                                         *)
(* The gRPC handler is modelled although the shipped main serves a server  *)
(* object no service is registered on (agent/cmd/main.go): GrpcCallers are *)
(* the callers that would come that way.                                   *)
(***************************************************************************)
EXTENDS Naturals

CONSTANTS
  Tasks,       \* task ids
  Dangerous,   \* the ids whose command ValidateCommand refuses
  Callers,     \* handler goroutines
  MaxExecs,    \* executions started
  GrpcCallers, \* those that come over gRPC rather than HTTP
  UncalledOps, \* CancelTask and CleanupTasks over gRPC, which nobody calls
  None

Execs == 1..MaxExecs

\* The TaskService of each controller, and the one a handler calls.
Services == {"http", "grpc"}
Via(k) == IF k \in GrpcCallers THEN "grpc" ELSE "http"

ASSUME MaxExecsAssumption == MaxExecs \in Nat
ASSUME DangerousAssumption == Dangerous \subseteq Tasks
ASSUME SwitchesAssumption == GrpcCallers \subseteq Callers /\ UncalledOps \in BOOLEAN

VARIABLES
  record,  \* runningTasks of each service: the execution of each task id, or None
  exec,    \* the TaskExecution objects, with the process of each
  made,    \* executions made so far
  caller,  \* what each handler waits for or has to send
  up,      \* the agent process lives
  orphans  \* task ids whose command has outlived the agent that started it

vars == <<record, exec, made, caller, up, orphans>>

----------------------------------------------------------------------------
\* A TaskExecution.  proc is its goroutine: not begun, the command running, the
\* command over, its result stored, the deferred function done.
NewExec(s, t) ==
  [service |-> s, task |-> t, status |-> "running", ended |-> FALSE, result |-> None,
   canceled |-> FALSE, expired |-> FALSE, proc |-> "alive", code |-> None]

Unmade == [NewExec(None, None) EXCEPT !.status = "none", !.proc = "none"]

Codes == {"zero", "nonzero"}

ASSUME NoneAssumption == None \notin Execs /\ None \notin Codes

Statuses == {"running", "completed", "failed", "canceled"}

Waiting(e) == [exec |-> e, answer |-> None]
Free == [exec |-> None, answer |-> None]
Answered(e, a) == [exec |-> e, answer |-> a]

ExecState ==
  [service : Services \cup {None}, task : Tasks \cup {None}, status : Statuses \cup {"none"}, ended : BOOLEAN,
   result : Codes \cup {None}, canceled : BOOLEAN, expired : BOOLEAN,
   proc : {"none", "alive", "exited", "stored", "done"}, code : Codes \cup {None}]

CallerState == [exec : Execs \cup {None}, answer : Codes \cup {None, "error"}]

TypeOK ==
  /\ record \in [Services -> [Tasks -> Execs \cup {None}]]
  /\ made \in 0..MaxExecs
  /\ exec \in [Execs -> ExecState]
  /\ caller \in [Callers -> CallerState]
  /\ up \in BOOLEAN
  /\ orphans \subseteq Tasks

Init ==
  /\ record = [s \in Services |-> [t \in Tasks |-> None]]
  /\ exec = [e \in Execs |-> Unmade]
  /\ made = 0
  /\ caller = [k \in Callers |-> Free]
  /\ up = TRUE
  /\ orphans = {}

----------------------------------------------------------------------------
\* mutant: a task id is taken only once its command has ended.
TakenIfOver(s, t) == record[s][t] # None /\ exec[record[s][t]].status # "running"

\* "task is already running": a record of any status stands in the way, in the map of
\* the service that is called.
Taken(s, t) == record[s][t] # None

\* ExecuteTask up to its select.
ExecuteTask(k, t) ==
  /\ up /\ caller[k] = Free
  /\ IF t \in Dangerous \/ Taken(Via(k), t)
       THEN /\ caller' = [caller EXCEPT ![k] = Answered(None, "error")]
            /\ UNCHANGED <<record, exec, made>>
       ELSE /\ made < MaxExecs
            /\ made' = made + 1
            /\ exec' = [exec EXCEPT ![made'] = NewExec(Via(k), t)]
            /\ record' = [record EXCEPT ![Via(k)][t] = made']
            /\ caller' = [caller EXCEPT ![k] = Waiting(made')]
  /\ UNCHANGED <<up, orphans>>

\* ExecuteCommand: the command ends by itself ...
CommandExits(e, code) ==
  /\ up /\ exec[e].proc = "alive" /\ ~exec[e].expired
  /\ exec' = [exec EXCEPT ![e].proc = "exited", ![e].code = code]
  /\ UNCHANGED <<record, made, caller, up, orphans>>

\* ... or its context expires and the process is killed.  Run returns with an
\* error, at once or later: it waits for whoever else holds the output pipes.
Deadline(e) ==
  /\ up /\ exec[e].proc # "none" /\ ~exec[e].expired
  /\ exec' = [exec EXCEPT ![e].expired = TRUE]
  /\ UNCHANGED <<record, made, caller, up, orphans>>

\* ExitCode() of a killed process is -1.
KillCode == "nonzero"

KilledExits(e) ==
  /\ up /\ exec[e].proc = "alive" /\ exec[e].expired
  /\ exec' = [exec EXCEPT ![e].proc = "exited", ![e].code = KillCode]
  /\ UNCHANGED <<record, made, caller, up, orphans>>

\* The first critical section: the result, and "failed" for a bad exit code.
Stored(x) ==
  [x EXCEPT !.proc = "stored", !.result = x.code,
            !.status = IF x.code = "nonzero" THEN "failed" ELSE @]

StoreResult(e) ==
  /\ up /\ exec[e].proc = "exited"
  /\ exec' = [exec EXCEPT ![e] = Stored(@)]
  /\ UNCHANGED <<record, made, caller, up, orphans>>

\* mutant: the deferred function as it would run if it came before the result.
FinishedEarly(e) == exec[e].proc \in {"exited", "stored"}

\* The deferred function runs once the body is through.
Finishing(e) == exec[e].proc = "stored"

\* The second critical section: "completed", whatever the status was.
Finish(e) ==
  /\ up /\ Finishing(e)
  /\ exec' = [exec EXCEPT ![e].proc = "done", ![e].status = "completed", ![e].ended = TRUE]
  /\ UNCHANGED <<record, made, caller, up, orphans>>

\* CancelTask.  Only the waiting caller listens to the canceled context.
CancelTask(s, t) ==
  LET e == record[s][t] IN
  /\ s = "grpc" => UncalledOps
  /\ up /\ e # None
  /\ exec[e].status = "running"
  /\ exec' = [exec EXCEPT ![e].canceled = TRUE, ![e].status = "canceled", ![e].ended = TRUE]
  /\ UNCHANGED <<record, made, caller, up, orphans>>

\* CleanupCompletedTasks of the gRPC service, for a record old enough.
Cleanup(t) ==
  LET e == record["grpc"][t] IN
  /\ UncalledOps /\ up /\ e # None
  /\ exec[e].status # "running" /\ exec[e].ended
  /\ record' = [record EXCEPT !["grpc"][t] = None]
  /\ UNCHANGED <<exec, made, caller, up, orphans>>

----------------------------------------------------------------------------
\* The select at the end of ExecuteTask listens to the canceled context ...
WaitCanceled(k) ==
  LET e == caller[k].exec IN
  /\ up /\ e # None /\ caller[k].answer = None
  /\ exec[e].canceled
  /\ caller' = [caller EXCEPT ![k] = Answered(e, "error")]
  /\ UNCHANGED <<record, exec, made, up, orphans>>

\* mutant: a wait that ends when there is a result, and only then.
ResultStored(e) == exec[e].result # None

\* ... and to a timer of the timeout and one second more: not to the command.
TimerFired(e) == exec[e].expired

WaitTimer(k) ==
  LET e == caller[k].exec IN
  /\ up /\ e # None /\ caller[k].answer = None
  /\ TimerFired(e)
  /\ caller' = [caller EXCEPT ![k] = Answered(e, IF exec[e].result = None THEN "error"
                                                                       ELSE exec[e].result)]
  /\ UNCHANGED <<record, exec, made, up, orphans>>

\* POST /task/execute replies with the result, or with status 500 for an error.
HttpReplies(k) ==
  /\ k \notin GrpcCallers /\ up /\ caller[k].answer # None
  /\ caller' = [caller EXCEPT ![k] = Free]
  /\ UNCHANGED <<record, exec, made, up, orphans>>

\* handleCommand sends the result, or a result made of the error, returns if that
\* fails, and else logs result.ExitCode.  After an error result is nil: the panic ends
\* the process.
GrpcReplies(k) ==
  /\ k \in GrpcCallers /\ up /\ caller[k].answer # None
  /\ \/ /\ caller' = [caller EXCEPT ![k] = Free]    \* a result, or Send has failed
        /\ UNCHANGED up
     \/ /\ caller[k].answer = "error"
        /\ up' = FALSE
        /\ UNCHANGED caller
  /\ UNCHANGED <<record, exec, made, orphans>>

\* A new agent process with empty records.  The commands of the old one run on: they
\* are processes of their own, and the contexts that would kill them are gone.
Restart ==
  /\ ~up
  /\ up' = TRUE
  /\ orphans' = orphans \cup {exec[e].task : e \in {d \in Execs : exec[d].proc = "alive"}}
  /\ record' = [s \in Services |-> [t \in Tasks |-> None]]
  /\ exec' = [e \in Execs |-> Unmade]
  /\ made' = 0
  /\ caller' = [k \in Callers |-> Free]

OrphanExits(t) ==
  /\ orphans' = orphans \ {t}
  /\ UNCHANGED <<record, exec, made, caller, up>>

----------------------------------------------------------------------------
Runs(e) ==
  \/ \E code \in Codes : CommandExits(e, code)
  \/ KilledExits(e)

Records(e) == StoreResult(e) \/ Finish(e)

Handles(k) == WaitCanceled(k) \/ WaitTimer(k) \/ HttpReplies(k) \/ GrpcReplies(k)

Next ==
  \/ \E k \in Callers, t \in Tasks : ExecuteTask(k, t)
  \/ \E e \in Execs : Runs(e) \/ Deadline(e) \/ Records(e)
  \/ \E s \in Services, t \in Tasks : CancelTask(s, t)
  \/ \E t \in Tasks : Cleanup(t) \/ OrphanExits(t)
  \/ \E k \in Callers : Handles(k)
  \/ Restart

Spec == Init /\ [][Next]_vars

\* Goroutines run and deadlines pass.  A command need not end, even when killed.
FairSpec ==
  /\ Spec
  /\ \A e \in Execs : WF_vars(Records(e)) /\ WF_vars(Deadline(e))
  /\ \A k \in Callers : WF_vars(Handles(k))

\* Goroutines run, and deadlines are as far away as one likes.
PatientSpec ==
  /\ Spec
  /\ \A e \in Execs : WF_vars(Records(e))
  /\ \A k \in Callers : WF_vars(Handles(k))

----------------------------------------------------------------------------
\* Properties.

\* A record says "running" exactly as long as nobody has canceled it and the
\* goroutine has not begun to write the outcome, except that a good result is
\* stored one critical section before the status follows; and whatever is over
\* has an end time as soon as the goroutine is through.
StatusFollowsProcess ==
  \A e \in Execs :
    /\ exec[e].status = "running" => exec[e].proc \in {"alive", "exited"} \/ exec[e].result = "zero"
    /\ exec[e].status = "completed" => exec[e].result # None /\ exec[e].ended
    /\ exec[e].proc = "done" => exec[e].ended

\* Two commands of one task id run side by side, with nobody having canceled either,
\* only if they came over different protocols or one is of an agent that is gone: the
\* record of the first keeps a second one out, across cancels, cleanups and restarts.
\* (Cancel does not stop a command, so a canceled one may have a successor beside it.)
OneCommandPerService ==
  \A d, e \in Execs :
    /\ d # e /\ exec[d].task = exec[e].task
    /\ exec[d].proc = "alive" /\ exec[e].proc = "alive"
    => \/ exec[d].canceled \/ exec[e].canceled
       \/ exec[d].service # exec[e].service

\* Every call of ExecuteTask is answered, also when the command hangs on after
\* it has been killed.
CallsAreAnswered == \A k \in Callers : caller[k] # Free ~> caller[k] = Free \/ ~up

----------------------------------------------------------------------------
(***************************************************************************)
(* What the documents say and the code does not do.  TLC refutes each of   *)
(* these; the README says with which constants.                            *)
(***************************************************************************)

\* "task is already running": a host has one command of a task id at a time.
OneCommandPerTask ==
  /\ \A d, e \in Execs :
       /\ d # e /\ exec[d].task = exec[e].task
       /\ exec[d].proc = "alive" /\ exec[e].proc = "alive"
       => exec[d].canceled \/ exec[e].canceled
  /\ up => \A e \in Execs : exec[e].proc = "alive" => exec[e].task \notin orphans

\* A command that ended badly is recorded as failed.
BadExitIsFailure ==
  \A e \in Execs : exec[e].proc = "done" /\ exec[e].result = "nonzero" => exec[e].status = "failed"

\* A canceled task stays canceled.
CanceledStays ==
  [][\A e \in Execs : exec[e].status = "canceled" /\ up' /\ up => exec'[e].status = "canceled"]_vars

\* Refusing a command does not end the agent.
RefusalIsHarmless == up

\* ExecuteTask answers when the command is over, not only when its time is up.
AnsweredWhenDone ==
  \A k \in Callers : \A e \in Execs :
    caller[k] = Waiting(e) /\ exec[e].proc = "done" ~> caller[k] # Waiting(e)

=============================================================================
