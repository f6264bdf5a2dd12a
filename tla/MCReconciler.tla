---------------------------- MODULE MCReconciler ----------------------------
(***************************************************************************)
(* The reconciler of one Application on small instances.  The instances    *)
(* differ only in the constants their configurations give.  The properties *)
(* below put statements of the repository's documentation to the model;    *)
(* each has a run of its own, in which TLC refutes it.                     *)
(***************************************************************************)
EXTENDS ApplicationReconciler

(* application_controller.go, the second case of reconcileHealth: "we      *)
(* rolled back for this spec [...] so we intentionally stay Degraded (set  *)
(* by handleUnhealthy) until the spec/values change".                      *)
StaysDegraded ==
    AlreadyRolledBack(app.status)
      => app.status.phase \in {"RollingBack", "Degraded", "Failed"}

(* README.md: "automatically rolling back to the last good revision when a *)
(* release goes unhealthy": if any earlier stored revision has a working   *)
(* chart, the rollback runs one.                                           *)
RollsBackToGoodRevision ==
    [][BeginHelmRollback
         /\ (\E r \in history : r.rev < LastRev(history) /\ r.chart \notin BadCharts)
       => Get(history').chart \notin BadCharts]_vars

ReadyAndSettled ==
    /\ pc = "idle" /\ lag = <<>> /\ ~app.deleting /\ history # {}
    /\ app.status.ready = "True"
    /\ ~needsApply(app, resolveValues(app))

(* application_types.go: lastAppliedValuesHash is "a hash of the values    *)
(* last applied"; application_controller.go: "a change to the values       *)
(* Secret must re-apply the release".  So once a release is Ready and      *)
(* nothing is left to do, it runs the values the Secret holds.             *)
ReadyRunsValues ==
    ReadyAndSettled => Get(history).values = resolveValues(app)
=============================================================================
