------------------------------ MODULE MCHealth ------------------------------
(* The health check on manifests of up to MaxDocs documents.               *)
EXTENDS ReleaseHealth
=============================================================================
