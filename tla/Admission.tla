----------------------------- MODULE Admission -----------------------------
(***************************************************************************)
(* What stands between a write of an Application and the API server's      *)
(* store: the schema of the CRD (the markers of                            *)
(* api/v1alpha1/application_types.go) and, where it is installed, the      *)
(* validating webhook (internal/webhook/v1alpha1).  The webhook is served  *)
(* by the operator's own process, is called for creates and updates, the   *)
(* operator's own updates included, and not for writes to the status or    *)
(* for deletions; its failurePolicy is Fail.                               *)
(***************************************************************************)
EXTENDS Integers

CONSTANTS
    Targets,       \* values of spec.namespace
    Labels,        \* those of them that are DNS-1123 labels
    SecretNames,   \* names of values Secrets
    NoRef,         \* spec.valuesSecretRef is not set
    EmptyName      \* it is set, with an empty name

ASSUME AdmissionAssumption ==
    /\ Labels \subseteq Targets /\ Targets # {}
    /\ NoRef \notin SecretNames /\ EmptyName \notin SecretNames
    /\ NoRef # EmptyName

(* Is the ValidatingWebhookConfiguration installed, and does the operator's *)
(* webhook server answer?                                                  *)
VARIABLE webhook    \* "absent", "refusing" (no answer) or "answering"

(* A version that is not semver may be a range, which Helm resolves, or    *)
(* nonsense, which it does not.                                            *)
ApplicationSpec ==
    [version: {"semver", "other"}, namespace: Targets,
     ref: SecretNames \cup {NoRef, EmptyName}]

SchemaAccepts(spec) == spec.ref # EmptyName

(* The fields it complains about, all of them at once.                     *)
validateApplication(spec) ==
    {f \in {"version", "namespace", "valuesSecretRef"} :
       \/ f = "version" /\ spec.version # "semver"
       \/ f = "namespace" /\ spec.namespace \notin Labels
       \/ f = "valuesSecretRef" /\ spec.ref = EmptyName}

(* The validator: the old object counts for nothing, and a deletion is     *)
(* never turned down (nor is it asked about).                              *)
ValidateCreate(new) == validateApplication(new) = {}

(* Mutant: only creation is validated.                                     *)
ValidateUpdateNever(new) == TRUE

ValidateUpdate(new) == validateApplication(new) = {}

(* With failurePolicy Fail a webhook that does not answer refuses.         *)
AdmitsCreate(new) ==
    /\ SchemaAccepts(new)
    /\ webhook # "refusing"
    /\ webhook = "answering" => ValidateCreate(new)

AdmitsUpdate(new) ==
    /\ SchemaAccepts(new)
    /\ webhook # "refusing"
    /\ webhook = "answering" => ValidateUpdate(new)
=============================================================================
