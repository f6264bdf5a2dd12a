------------------------------ MODULE MCWiring ------------------------------
(***************************************************************************)
(* The wiring of the controller on a small instance: Applications in one   *)
(* namespace that share one values Secret.                                 *)
(***************************************************************************)
EXTENDS ControllerWiring

CONSTANTS m, n, s

MCHome == [a \in Apps |-> "home"]

Make(version, namespace, ref) == [version |-> version, namespace |-> namespace, ref |-> ref]

(* One that names the Secret; one that names none, whose version is not    *)
(* semver and whose namespace the instance makes a label or not; and one   *)
(* that the schema turns down.                                             *)
MCSpecs ==
    {Make("semver", m, s), Make("other", n, NoRef), Make("semver", m, EmptyName)}

(* application_webhook.go, on ValidateDelete: "deletion is always allowed  *)
(* and cleanup runs via finalizer".                                        *)
DeletionAlwaysCompletes == \A a \in Apps : apps[a].deleting ~> ~apps[a].deleting
=============================================================================
