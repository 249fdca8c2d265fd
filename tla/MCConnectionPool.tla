-------------------------- MODULE MCConnectionPool --------------------------
\* ConnectionPool for TLC.  No symmetry: the run checks liveness, and one of the
\* agents may be the one without an id.
EXTENDS ConnectionPool, TLC

CONSTANT Named
WithEmptyId == Named \cup {EmptyId}
=============================================================================
