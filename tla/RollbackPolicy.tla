--------------------------- MODULE RollbackPolicy ---------------------------
(***************************************************************************)
(* What the operator promises about automatic rollbacks, without the       *)
(* machinery: the comment on handleUnhealthy (internal/controller/         *)
(* health.go) says "at most one rollback per spec generation --            *)
(* LastFailedRevision is reset only when the spec/values change".          *)
(*                                                                         *)
(* A desired state is recorded when an install or upgrade of it has been   *)
(* written to the status.  It may then be fenced, once, and only a fenced  *)
(* desired state may be rolled back, once.  Only another desired state     *)
(* lifts the fence.                                                        *)
(***************************************************************************)
EXTENDS Naturals

VARIABLES
    recorded,   \* the desired state the status vouches for
    fenced,     \* has a revision of it been recorded as failed?
    rolledBack  \* has Helm been told to roll it back?

policyVars == <<recorded, fenced, rolledBack>>

PolicyInit ==
    /\ fenced = FALSE
    /\ rolledBack = 0

Record ==
    /\ recorded' # recorded
    /\ fenced' = FALSE
    /\ rolledBack' = 0

Fence ==
    /\ ~fenced
    /\ fenced' = TRUE
    /\ UNCHANGED <<recorded, rolledBack>>

RollBack ==
    /\ fenced
    /\ rolledBack = 0
    /\ rolledBack' = 1
    /\ UNCHANGED <<recorded, fenced>>

PolicyNext == Record \/ Fence \/ RollBack

PolicySpec == PolicyInit /\ [][PolicyNext]_policyVars
=============================================================================
