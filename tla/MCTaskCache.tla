---------------------------- MODULE MCTaskCache ----------------------------
\* TaskCache for TLC: the two families of which one is computed from the other,
\* and one that CreateTask deletes too; every kind of write.
EXTENDS TaskCache, TLC

SomeKinds == {"status", "progress", "stats"}
AllOps == AllWrites
=============================================================================
