--------------------------- MODULE ReleaseHealth ---------------------------
(***************************************************************************)
(* releaseHealth of internal/controller/health.go: the health of a release *)
(* from the kstatus of its workloads, read one after the other from the    *)
(* API server while the workloads change.                                  *)
(*                                                                         *)
(* A manifest is a function from document positions to what the document   *)
(* is: a workload (Deployment, StatefulSet, DaemonSet, Job) or anything    *)
(* else, an empty document included.  live gives the kstatus Compute would *)
(* give of each live object, or NotFound.  The detail text is left out.    *)
(***************************************************************************)
EXTENDS Integers

CONSTANT MaxDocs   \* bound: documents in a manifest

ASSUME MaxDocsAssumption == MaxDocs \in Nat

VARIABLES
    manifest,   \* the release's newest manifest, as documents
    live,       \* the kstatus of each document's object right now
    todo,       \* workloads the running check has not read yet
    aggregate,  \* its aggregate so far
    verdict,    \* "Running", or what the last check returned
    changed,    \* auxiliary: has any object changed since the check began?
    regressed   \* auxiliary: the workloads it read as Current and no longer are

vars == <<manifest, live, todo, aggregate, verdict, changed, regressed>>
checkVars == <<todo, aggregate, verdict>>

Docs == 1 .. MaxDocs
DocKinds == {"workload", "other"}
KStatus == {"NotFound", "InProgress", "Terminating", "Unknown", "Failed", "Current"}
Verdicts == {"None", "Running", "Error", "Failed", "InProgress", "Current"}

(* workloadsFromManifest keeps the documents of the four workload kinds.   *)
workloadsFromManifest(m) == {d \in Docs : m[d] = "workload"}

First(S) == CHOOSE d \in S : \A e \in S : d <= e

Init ==
    /\ manifest \in [Docs -> DocKinds] /\ live \in [Docs -> KStatus]
    /\ todo = {} /\ aggregate = "Current" /\ verdict = "None"
    /\ changed = FALSE /\ regressed = {}

(* Mutant: every document is looked at, workload or not.                   *)
BeginCheckOfAll ==
    /\ verdict # "Running"
    /\ todo' = Docs /\ aggregate' = "Current" /\ verdict' = "Running"
    /\ changed' = FALSE /\ regressed' = {}
    /\ UNCHANGED <<manifest, live>>

(* Parse the manifest and start to look; without workloads there is        *)
(* nothing to look at, and a manifest that does not parse is an error.     *)
BeginCheck ==
    /\ verdict # "Running"
    /\ \/ verdict' = "Error" /\ UNCHANGED <<todo, aggregate>>
       \/ /\ workloadsFromManifest(manifest) = {}
          /\ verdict' = "Current" /\ UNCHANGED <<todo, aggregate>>
       \/ /\ workloadsFromManifest(manifest) # {}
          /\ todo' = workloadsFromManifest(manifest)
          /\ aggregate' = "Current" /\ verdict' = "Running"
    /\ changed' = FALSE /\ regressed' = {}
    /\ UNCHANGED <<manifest, live>>

(* Mutant: an object that does not exist yet is passed over.               *)
ReadWorkloadSkippingMissing ==
    /\ verdict = "Running" /\ todo # {}
    /\ LET w == First(todo)
       IN  \/ live[w] = "Failed" /\ verdict' = "Failed" /\ todo' = {} /\ UNCHANGED aggregate
           \/ /\ live[w] \in {"Current", "NotFound"}
              /\ todo' = todo \ {w} /\ UNCHANGED <<verdict, aggregate>>
           \/ /\ live[w] \notin {"Failed", "Current", "NotFound"}
              /\ aggregate' = "InProgress" /\ todo' = todo \ {w} /\ UNCHANGED verdict
    /\ UNCHANGED <<manifest, live, changed, regressed>>

(* Mutant: the aggregate follows the workload read last.                   *)
ReadWorkloadLastWins ==
    /\ verdict = "Running" /\ todo # {}
    /\ LET w == First(todo)
       IN  \/ live[w] = "Failed" /\ verdict' = "Failed" /\ todo' = {} /\ UNCHANGED aggregate
           \/ /\ live[w] # "Failed"
              /\ aggregate' = IF live[w] = "Current" THEN "Current" ELSE "InProgress"
              /\ todo' = todo \ {w} /\ UNCHANGED verdict
    /\ UNCHANGED <<manifest, live, changed, regressed>>

(* Mutant: the loop goes on after a failed workload.                       *)
ReadWorkloadFailingLate ==
    /\ verdict = "Running" /\ todo # {}
    /\ LET w == First(todo)
       IN  /\ aggregate' = IF live[w] = "Failed" THEN "Failed"
                           ELSE IF live[w] = "Current" \/ aggregate = "Failed" THEN aggregate
                           ELSE "InProgress"
           /\ todo' = todo \ {w}
    /\ UNCHANGED <<manifest, live, verdict, changed, regressed>>

(* One turn of the loop: a failed workload ends it, and so does an error   *)
(* of the Get or of Compute; NotFound counts as not yet Current.           *)
ReadWorkload ==
    /\ verdict = "Running" /\ todo # {}
    /\ LET w == First(todo)
       IN  \/ verdict' = "Error" /\ todo' = {} /\ UNCHANGED aggregate
           \/ live[w] = "Failed" /\ verdict' = "Failed" /\ todo' = {} /\ UNCHANGED aggregate
           \/ live[w] = "Current" /\ todo' = todo \ {w} /\ UNCHANGED <<verdict, aggregate>>
           \/ /\ live[w] \notin {"Failed", "Current"}
              /\ aggregate' = "InProgress" /\ todo' = todo \ {w} /\ UNCHANGED verdict
    /\ UNCHANGED <<manifest, live, changed, regressed>>

ReturnAggregate ==
    /\ verdict = "Running" /\ todo = {}
    /\ verdict' = aggregate
    /\ UNCHANGED <<manifest, live, todo, aggregate, changed, regressed>>

(* The workloads the running check has read.                               *)
Seen == workloadsFromManifest(manifest) \ todo

(* A live object moves on, also between two reads of one check.            *)
WorkloadChanges ==
    /\ \E d \in Docs, s \in KStatus :
         /\ s # live[d]
         /\ live' = [live EXCEPT ![d] = s]
         /\ regressed' = IF verdict = "Running" /\ d \in Seen /\ live[d] = "Current"
                         THEN regressed \cup {d} ELSE regressed
    /\ changed' = TRUE
    /\ UNCHANGED <<manifest, checkVars>>

(* Another revision: never during a check, the single worker does both.    *)
NewRevision ==
    /\ verdict # "Running"
    /\ manifest' \in [Docs -> DocKinds]
    /\ verdict' = "None"
    /\ UNCHANGED <<live, todo, aggregate, changed, regressed>>

Next ==
    \/ BeginCheck \/ ReadWorkload \/ ReturnAggregate
    \/ WorkloadChanges \/ NewRevision

Spec == Init /\ [][Next]_vars
----------------------------------------------------------------------------
(* Every variable keeps its type; only workloads are ever looked at.       *)
TypeOK ==
    /\ manifest \in [Docs -> DocKinds] /\ live \in [Docs -> KStatus]
    /\ todo \in SUBSET workloadsFromManifest(manifest)
    /\ aggregate \in {"Current", "InProgress"} /\ verdict \in Verdicts
    /\ changed \in BOOLEAN /\ regressed \in SUBSET Docs

(* The aggregation rule of the comment on releaseHealth: "any Failed       *)
(* workload makes the whole release Failed; otherwise any not-yet-Current  *)
(* workload makes it InProgress; only when every workload is Current is    *)
(* the release Current".                                                   *)
Rule(m, l) ==
    LET W == workloadsFromManifest(m)
    IN  IF \E w \in W : l[w] = "Failed" THEN "Failed"
        ELSE IF \E w \in W : l[w] # "Current" THEN "InProgress"
        ELSE "Current"

(* A check that no change interrupts computes the rule, whatever the order *)
(* of the workloads.                                                       *)
SteadyVerdictIsRule ==
    verdict \in {"Failed", "InProgress", "Current"} /\ ~changed
      => verdict = Rule(manifest, live)

(* A check that workloads do interrupt is never too kind: when it says     *)
(* Current every workload is, except those that went bad again after they  *)
(* had been read.  What goes bad before its turn is still seen, as the     *)
(* reads are made one by one and not from one listing.                     *)
CurrentUnlessRegressed ==
    [][verdict' = "Current" /\ verdict # "Current"
         => \A w \in workloadsFromManifest(manifest') \ regressed' :
              live'[w] = "Current"]_vars

(* It is never too harsh either: Failed is said at a moment when the       *)
(* release is Failed by the rule, so no rollback starts from two halves of *)
(* a picture.                                                              *)
FailedIsWitnessed ==
    [][verdict' = "Failed" /\ verdict # "Failed"
         => Rule(manifest', live') = "Failed"]_vars
=============================================================================
