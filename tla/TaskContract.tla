---------------------------- MODULE TaskContract ----------------------------
(***************************************************************************)
(* What the task service promises to somebody who watches a task, whatever *)
(* rows, goroutines and agents are behind it (task_service.go, the states  *)
(* of models/task.go).  A task is created once, begins at most once, ends, *)
(* may be reopened when a command of it runs again (a retry, a late        *)
(* result), and may be deleted from any state.  It never becomes pending   *)
(* again, a deletion is final, and a start time, once set, stays.          *)
(***************************************************************************)
CONSTANTS
    Tasks,
    Unasked         \* may commands run although StartTask did not succeed?

VARIABLES
    phase,          \* absent, pending, active, over or deleted
    begun           \* has the task a start time?

Init ==
    /\ phase = [t \in Tasks |-> "absent"]
    /\ begun = [t \in Tasks |-> FALSE]

Moves(t, from, to) == phase[t] \in from /\ phase'[t] = to

Create(t) == Moves(t, {"absent"}, "pending") /\ begun'[t] = begun[t]

\* The task runs: it has a start time from now on.
Begin(t) == Moves(t, {"pending", "active"}, "active") /\ begun'[t]

\* Cancelled, stopped, or all hosts ended; also before it began.
End(t) == Moves(t, {"pending", "active", "over"}, "over") /\ begun'[t] = begun[t]

\* A task that is over runs again.  One that never began does so only if
\* commands may be sent that nobody asked for.
Reopen(t) == Moves(t, {"over"}, "active") /\ begun'[t] /\ (begun[t] \/ Unasked)

Delete(t) == Moves(t, {"pending", "active", "over"}, "deleted") /\ begun'[t] = begun[t]

Rest(t) == phase'[t] = phase[t] /\ begun'[t] = begun[t]

\* One transaction may move several tasks (HandleAgentDisconnection, a cleanup).
Next == \A t \in Tasks : Create(t) \/ Begin(t) \/ End(t) \/ Reopen(t) \/ Delete(t) \/ Rest(t)

Spec == Init /\ [][Next]_<<phase, begun>>
=============================================================================
