---------------------------- MODULE MCAuditVerify ---------------------------
(* Instances of AuditVerify for TLC. *)
EXTENDS AuditVerify

CONSTANTS ws1, ws2
=============================================================================
