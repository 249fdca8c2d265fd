---------------------------- MODULE TaskProgress ----------------------------
(***************************************************************************)
(* The rules by which the task service derives statuses: the status of a   *)
(* task from the counts of its hosts (updateTaskProgressInTransaction and  *)
(* GetTaskStatus in task_service.go), and the statuses of a command from   *)
(* the result an agent sends (HandleCommandResult).                        *)
(***************************************************************************)
EXTENDS Integers

\* The statuses the progress computation counts as failed hosts.
FailKinds == {"Failed", "ExecFailed", "Timeout"}

\* Task.IsCompleted
Completed(s) == s \in {"completed", "failed", "canceled"}

\* mutant: canceled hosts are not counted as ended
FinishedWithoutCanceled(total, completed, failed, canceled) == completed + failed = total
AllFinishedBy(total, completed, failed, canceled) == completed + failed + canceled = total

\* mutant: an unfinished task without a running host counts as not started
PendingIfIdle(old, total, completed, failed, running, canceled) ==
    IF AllFinishedBy(total, completed, failed, canceled)
    THEN IF canceled > 0 THEN "canceled"
         ELSE IF failed = 0 THEN "completed" ELSE "failed"
    ELSE IF running > 0 \/ completed > 0 THEN "running" ELSE "pending"
\* mutant: the last branch asks whether any host completed, not whether one failed
CompletedIfAny(old, total, completed, failed, running, canceled) ==
    IF AllFinishedBy(total, completed, failed, canceled)
    THEN IF canceled > 0 THEN "canceled"
         ELSE IF completed > 0 THEN "completed" ELSE "failed"
    ELSE IF running > 0 \/ completed > 0 THEN "running" ELSE old
ProgressStatus(old, total, completed, failed, running, canceled) ==
    IF AllFinishedBy(total, completed, failed, canceled)
    THEN IF canceled > 0 THEN "canceled"
         ELSE IF failed = 0 THEN "completed" ELSE "failed"
    ELSE IF running > 0 \/ completed > 0 THEN "running" ELSE old

\* What a result says of the two rows: finished_at set (exit code zero or not),
\* only started_at set, or neither.
\* mutant: the exit code is tested the wrong way round
ExitCodeInverted(k, old) ==
    CASE k = "ok" -> "ExecFailed" [] k = "error" -> "Completed"
      [] k = "started" -> "Running" [] OTHER -> old
ResultHostStatus(k, old) ==
    CASE k = "ok" -> "Completed" [] k = "error" -> "ExecFailed"
      [] k = "started" -> "Running" [] OTHER -> old
ResultCommandStatus(k, old) ==
    CASE k = "ok" -> "completed" [] k = "error" -> "failed"
      [] k = "started" -> "running" [] OTHER -> old

\* The Command and the CommandHost say the same thing of a host's execution.
Agrees(cs, hs) ==
    <<cs, hs>> \in
        {<<"absent", "absent">>, <<"pending", "Pending">>, <<"running", "Running">>,
         <<"completed", "Completed">>, <<"failed", "Failed">>, <<"failed", "ExecFailed">>,
         <<"timeout", "Timeout">>, <<"canceled", "Canceled">>}

\* The stage of its life a task's status stands for.
Stage(s) == CASE s = "running" -> "active" [] Completed(s) -> "over" [] OTHER -> s
=============================================================================
