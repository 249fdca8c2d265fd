-------------------------- MODULE MCHostAdmission --------------------------
\* HostAdmission for TLC: what the administrator may do.
EXTENDS HostAdmission, TLC

AllOps == Operations
NoReject == {"approve", "delete"}
=============================================================================
