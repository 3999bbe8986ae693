---------------------------- MODULE MCAuditTrail ----------------------------
(***************************************************************************)
(* A small deployment of the audit trail for TLC.                          *)
(***************************************************************************)
EXTENDS MCAuthApi, AuditTrailSafety

\* Guesses, a conflicting registration, and the demotion of the auditor.
TrailCalls == {Login(annMail, fresh), Register(annMail), SetRole(root, "user")}

\* GET /audit/logs?status=failure
TrailFilters == {[NoFilter EXCEPT !.status = "failure"]}

RootSession == {Session(root)}
RootToken == Session(root)
=============================================================================
