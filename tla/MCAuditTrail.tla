---------------------------- MODULE MCAuditTrail ----------------------------
\* AuditTrail for TLC: days of three hours, with the night's work in the second one.
EXTENDS AuditTrail
=============================================================================
