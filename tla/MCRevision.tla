----------------------------- MODULE MCRevision -----------------------------
(* The instance TLC checks: a command of the Owner beside the service.    *)
EXTENDS RevisionProperties
=============================================================================
