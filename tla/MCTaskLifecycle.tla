--------------------------- MODULE MCTaskLifecycle ---------------------------
\* TaskLifecycle for TLC: commands, hosts and requests are interchangeable.
EXTENDS TaskLifecycle, TLC

Symmetric == Permutations(Commands) \cup Permutations(Hosts) \cup Permutations(Requests)
=============================================================================
