------------------------ MODULE MCProgressIsolation ------------------------
\* ProgressIsolation for TLC: a task with two commands.
EXTENDS ProgressIsolation

CONSTANTS c1, c2

TwoCommands == <<c1, c2>>
=============================================================================
