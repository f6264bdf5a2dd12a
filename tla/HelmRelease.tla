---------------------------- MODULE HelmRelease ----------------------------
(***************************************************************************)
(* The Helm side of HelmWarden: the stored history of one release and what *)
(* the methods of helm.Manager (internal/helm/release.go) do to it.        *)
(*                                                                         *)
(* A history is a set of revision records.  The release name and namespace *)
(* are fixed (one Application), the chart and the values are opaque, and   *)
(* the rendered manifest is determined by the two.  What the Helm SDK does *)
(* with a history is external to the repository and modelled from the      *)
(* options the Manager sets (MaxHistory on upgrades only, Version = 0 on   *)
(* rollbacks, no KeepHistory on uninstalls).  An operation that writes a   *)
(* revision is split in two, Begin and Finish or Fail, because Helm stores *)
(* the new revision as pending before it applies the manifest.             *)
(***************************************************************************)
EXTENDS Integers, FiniteSets

CONSTANTS
    Charts,      \* chart name, repository and version, as one token
    Values,      \* contents of the values document, by their hash
    NoValues,    \* the empty hash: no values Secret is referenced
    MaxHistory   \* defaultMaxHistory

(* Helm keeps the last deployed revision whatever its age, so fewer than   *)
(* three would let an upgrade prune the very revision a rollback needs.    *)
ASSUME MaxHistoryAssumption == MaxHistory \in Nat /\ MaxHistory >= 3

PendingStatus == {"pending-install", "pending-upgrade", "pending-rollback"}

ReleaseStatus ==
    PendingStatus \cup {"deployed", "superseded", "failed", "uninstalling"}

Release ==
    [rev: Nat \ {0}, chart: Charts, values: Values \cup {NoValues},
     st: ReleaseStatus]

----------------------------------------------------------------------------
Revisions(h) == {r.rev : r \in h}

LastRev(h) == IF h = {} THEN 0
              ELSE CHOOSE n \in Revisions(h) : \A m \in Revisions(h) : m <= n

(* Manager.Get: the newest revision, whatever its status.                  *)
Get(h) == CHOOSE r \in h : r.rev = LastRev(h)

(* releaseExists: does the release have any stored history?                *)
releaseExists(h) == h # {}

Deployed(h) == {r \in h : r.st = "deployed"}

SetStatus(h, S, st) == {IF r \in S THEN [r EXCEPT !.st = st] ELSE r : r \in h}

(* An upgrade refuses to run over an operation that has not finished.      *)
OperationPending(h) == h # {} /\ Get(h).st \in PendingStatus

(* Helm's storage makes room for one more revision: the oldest go first,   *)
(* except the last deployed one.                                           *)
RemoveLeastRecent(h, max) ==
    LET kept    == {r \in Deployed(h) : \A d \in Deployed(h) : d.rev <= r.rev}
        victims == h \ kept
        Older(r) == {v \in victims : v.rev < r.rev}
    IN  h \ {r \in victims : Cardinality(Older(r)) < Cardinality(h) - max}

(* Mutant: one revision fewer is kept.                                     *)
BeginApplyKeepingTooFew(h, chart, values) ==
    IF ~releaseExists(h)
    THEN {[rev |-> 1, chart |-> chart, values |-> values, st |-> "pending-install"]}
    ELSE RemoveLeastRecent(h, MaxHistory - 2)
           \cup {[rev |-> LastRev(h) + 1, chart |-> chart, values |-> values,
                  st |-> "pending-upgrade"]}

(* Mutant: no limit is given, which to Helm means none.                    *)
BeginApplyUnlimited(h, chart, values) ==
    {[rev |-> LastRev(h) + 1, chart |-> chart, values |-> values,
      st |-> IF releaseExists(h) THEN "pending-upgrade" ELSE "pending-install"]} \cup h

(* InstallOrUpgrade up to the moment the manifest is applied.              *)
BeginApply(h, chart, values) ==
    IF ~releaseExists(h)
    THEN {[rev |-> 1, chart |-> chart, values |-> values, st |-> "pending-install"]}
    ELSE RemoveLeastRecent(h, MaxHistory - 1)
           \cup {[rev |-> LastRev(h) + 1, chart |-> chart, values |-> values,
                  st |-> "pending-upgrade"]}

(* The release an upgrade replaces: the deployed one, or, when there is    *)
(* none, the revision just before the new one.                             *)
Replaced(h) ==
    IF Deployed(h) # {} THEN Deployed(h)
    ELSE {r \in h : r.rev = LastRev(h) - 1}

FinishApply(h) ==
    SetStatus(SetStatus(h, Replaced(h), "superseded"), {Get(h)}, "deployed")

FailApply(h) == SetStatus(h, {Get(h)}, "failed")

(* Rollback with Version = 0 aims at the revision just before the newest.  *)
RollbackTarget(h) == {r \in h : r.rev = LastRev(h) - 1}

CanRollback(h) == releaseExists(h) /\ RollbackTarget(h) # {}

BeginRollback(h) ==
    h \cup {[t EXCEPT !.rev = LastRev(h) + 1, !.st = "pending-rollback"] :
              t \in RollbackTarget(h)}

FinishRollback(h) ==
    SetStatus(SetStatus(h, Deployed(h), "superseded"), {Get(h)}, "deployed")

(* A rollback that fails half way marks its new revision failed and the    *)
(* one that was current when it began, just before it, superseded.         *)
FailRollback(h) ==
    SetStatus(SetStatus(h, {r \in h : r.rev = LastRev(h) - 1}, "superseded"),
              {Get(h)}, "failed")

(* An uninstall that stops half way leaves its mark on the newest revision;*)
(* one that completes purges the history.                                  *)
FailUninstall(h) == SetStatus(h, {Get(h)}, "uninstalling")

FinishUninstall(h) == {}

----------------------------------------------------------------------------
(* Every revision number is stored once.                                   *)
WellNumbered(h) == \A r, s \in h : r.rev = s.rev => r = s

(* A release past its first revision still has the one before the newest,  *)
(* the one Rollback with Version = 0 needs.                                *)
TargetRetained(h) == LastRev(h) > 1 => RollbackTarget(h) # {}
=============================================================================
