--------------------------- MODULE MCBatchUpdates ---------------------------
\* BatchUpdates for TLC.
EXTENDS BatchUpdates
=============================================================================
