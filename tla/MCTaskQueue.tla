----------------------------- MODULE MCTaskQueue -----------------------------
\* TaskQueue for TLC: which hosts each task names.
EXTENDS TaskQueue, TLC

CONSTANTS t1, t2, t3, h1, h2
\* Three tasks of which two share a host.
SharedHosts == (t1 :> <<h1>>) @@ (t2 :> <<h1, h2>>) @@ (t3 :> <<h2>>)
TwoTasks == (t1 :> <<h1>>) @@ (t2 :> <<h1, h2>>)
=============================================================================
