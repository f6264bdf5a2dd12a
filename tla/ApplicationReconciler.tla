----------------------- MODULE ApplicationReconciler -----------------------
(***************************************************************************)
(* The reconcile loop of internal/controller (application_controller.go    *)
(* and health.go) for one Application, against the API server, the         *)
(* informer cache, the work queue and the stored Helm history.             *)
(*                                                                         *)
(* The reconciler reads the Application from a cache that trails the API   *)
(* server (lag holds the watch events on their way) and writes it back     *)
(* with optimistic locking: a write succeeds only if the object has not    *)
(* changed since the version that was read, which fresh records.  There    *)
(* is a single worker, so one reconcile (pc, local, fresh, want) runs at a *)
(* time; users, the clock, the workloads and crashes interleave with it    *)
(* between any two of its API calls.                                       *)
(*                                                                         *)
(* Left to other modules: the target namespace (here ensureNamespace and   *)
(* maybeDeleteNamespace only succeed or fail), admission, and the way the  *)
(* kstatus of several workloads is folded into one health value.           *)
(* Messages are left out: where only a message can differ, the write may   *)
(* or may not happen.                                                      *)
(***************************************************************************)
EXTENDS HelmRelease, Sequences

CONSTANTS
    BadCharts,        \* charts whose workloads never become Current
    RefChoices,       \* may spec.valuesSecretRef be set, unset, or either
    Broken,           \* values Secret missing, without the key, or unparsable
    MaxUid,           \* bound: how often the Application is (re)created
    MaxGen,           \* bound: spec edits stop at this generation
    Disturbances,     \* the kinds of disturbance a run includes
    MaxDisturbances   \* bound: disturbances in one behaviour

ASSUME ReconcilerAssumption ==
    /\ Charts # {}
    /\ BadCharts \subseteq Charts
    /\ RefChoices \subseteq BOOLEAN
    /\ Broken \notin Values \cup {NoValues}
    /\ NoValues \notin Values
    /\ MaxUid \in Nat /\ MaxGen \in Nat /\ MaxDisturbances \in Nat
    /\ Disturbances \subseteq
         {"stale", "touch", "secret", "api", "helm", "crash", "drift"}

VARIABLES
    app,        \* the Application as the API server stores it
    cache,      \* the informer's copy
    lag,        \* versions on their way to the cache, oldest first
    queued,     \* the work queue (or its delay heap) holds the request
    pc,         \* where the running reconcile is
    local,      \* the copy the reconcile works on
    fresh,      \* is local still the stored version?
    want,       \* the status the reconcile is about to write
    history,    \* stored Helm revisions of the release
    secret,     \* the values Secret, as the informer shows it
    rollbacks,  \* auxiliary: Helm rollbacks since desired state was recorded
    counted,    \* deployment_success_total since the phase left Deployed, up to 2
    disturbed   \* auxiliary: disturbances so far

apiVars == <<app, lag>>
jobVars == <<pc, local, fresh, want>>
vars == <<app, cache, lag, queued, pc, local, fresh, want, history, secret,
          rollbacks, counted, disturbed>>

----------------------------------------------------------------------------
(* The Application object.                                                 *)

Phases == {"", "Pending", "Deploying", "Deployed", "Degraded", "RollingBack", "Failed"}
ConditionStatus == {"Absent", "True", "False"}
Hashes == Values \cup {NoValues}

(* ApplicationStatus.  readyGen is the generation stamped on the Ready     *)
(* condition; start abstracts LastDeployStartTime to whether the progress  *)
(* deadline has passed since.                                              *)
Status ==
    [phase: Phases, released: ConditionStatus, healthy: ConditionStatus,
     ready: ConditionStatus, readyGen: Nat, obsGen: Nat, rev: Nat,
     hash: Hashes, lfr: Nat, start: {"none", "recent", "expired"}]

EmptyStatus ==
    [phase |-> "", released |-> "Absent", healthy |-> "Absent",
     ready |-> "Absent", readyGen |-> 0, obsGen |-> 0, rev |-> 0,
     hash |-> NoValues, lfr |-> 0, start |-> "none"]

Application ==
    [exists: BOOLEAN, uid: Nat, gen: Nat, deleting: BOOLEAN,
     finalizer: BOOLEAN, chart: Charts, ref: BOOLEAN, status: Status]

SomeChart == CHOOSE c \in Charts : TRUE

Absent(uid) ==
    [exists |-> FALSE, uid |-> uid, gen |-> 0, deleting |-> FALSE,
     finalizer |-> FALSE, chart |-> SomeChart, ref |-> FALSE,
     status |-> EmptyStatus]

Created(uid, chart, ref) ==
    [Absent(uid) EXCEPT !.exists = TRUE, !.gen = 1, !.chart = chart, !.ref = ref]

----------------------------------------------------------------------------
(* The statuses the handlers compute from the one they read.               *)

(* After a successful install or upgrade, except the revision and the      *)
(* start time, which are known when Helm returns.                          *)
Applied(a, hash) ==
    [a.status EXCEPT !.obsGen = a.gen, !.hash = hash, !.lfr = 0,
                     !.phase = "Deploying", !.released = "True",
                     !.ready = "False", !.readyGen = a.gen]

(* Mutant: a phase the CRD's enum does not have.                           *)
failOutsideEnum(a) ==
    [a.status EXCEPT !.phase = "Error", !.released = "False",
                     !.ready = "False", !.readyGen = a.gen]

fail(a) ==
    [a.status EXCEPT !.phase = "Failed", !.released = "False",
                     !.ready = "False", !.readyGen = a.gen]

Healthy(a) ==
    [a.status EXCEPT !.phase = "Deployed", !.healthy = "True",
                     !.ready = "True", !.readyGen = a.gen]

Progressing(a) ==
    [a.status EXCEPT !.phase = "Deploying", !.healthy = "False",
                     !.ready = "False", !.readyGen = a.gen]

(* Mutant: the failed revision is not recorded.                            *)
RollingBackUnfenced(a) ==
    [a.status EXCEPT !.phase = "RollingBack", !.healthy = "False",
                     !.ready = "False", !.readyGen = a.gen]

RollingBack(a) ==
    [a.status EXCEPT !.phase = "RollingBack", !.lfr = a.status.rev,
                     !.healthy = "False", !.ready = "False", !.readyGen = a.gen]

(* Mutant: the roll-up condition is forgotten.                             *)
setDegradedStillReady(a, rev) ==
    [a.status EXCEPT !.phase = "Degraded", !.rev = rev, !.healthy = "False"]

setDegraded(a, rev) ==
    [a.status EXCEPT !.phase = "Degraded", !.rev = rev, !.healthy = "False",
                     !.ready = "False", !.readyGen = a.gen]

(* Mutant: the Secret is read although the spec names none.                *)
resolveValuesAlways(a) == secret

(* resolveValues: the hash of the values, or Broken for its three errors.  *)
resolveValues(a) == IF a.ref THEN secret ELSE NoValues

needsApply(a, hash) == a.status.obsGen # a.gen \/ a.status.hash # hash

(* Mutant: the comparison is the wrong way round.                          *)
deadlineExceededReversed(s) == s.start = "recent"

deadlineExceeded(s) == s.start = "expired"

(* Mutant: the memory of the rollback is ignored.                          *)
NeverRolledBack(s) == FALSE

(* LastFailedRevision marks a desired state that had its one rollback.     *)
AlreadyRolledBack(s) == s.lfr # 0

(* What releaseHealth may return for the manifest of a chart.              *)
HealthOf(chart) ==
    {"InProgress", "Failed"} \cup (IF chart \in BadCharts THEN {} ELSE {"Current"})

----------------------------------------------------------------------------
Init ==
    /\ app = Absent(0)
    /\ cache = Absent(0)
    /\ lag = <<>>
    /\ queued = FALSE
    /\ pc = "idle" /\ local = Absent(0) /\ fresh = FALSE /\ want = EmptyStatus
    /\ history = {}
    /\ secret \in Values \cup {Broken}
    /\ rollbacks = 0 /\ counted = 0 /\ disturbed = 0

(* A disturbance of kind k: enabled by the run, and within its bound.      *)
Disturb(k) ==
    /\ k \in Disturbances
    /\ disturbed < MaxDisturbances
    /\ disturbed' = disturbed + 1

(* The API server stores a new version and its watch event sets out.       *)
Store(obj) ==
    /\ app' = obj
    /\ lag' = Append(lag, obj)

(* A write of the reconciler is accepted.                                  *)
Commit(obj) == fresh /\ Store(obj)

CommitStatus(s) ==
    /\ Commit([local EXCEPT !.status = s])
    /\ counted' = IF s.phase = "Deployed" THEN counted ELSE 0

(* It is refused (conflict, object gone), or fails on the way.             *)
Refuse ==
    /\ \/ ~fresh /\ UNCHANGED disturbed
       \/ fresh /\ Disturb("api")
    /\ UNCHANGED apiVars

(* Reconcile returns: with an error or a RequeueAfter, or with neither.    *)
Return ==
    /\ pc' = "idle" /\ local' = Absent(0) /\ fresh' = FALSE /\ want' = EmptyStatus

(* Mutant: the request is not put back.                                    *)
RequeueForgotten == Return /\ UNCHANGED queued

Requeue == Return /\ queued' = TRUE
Finish  == Return /\ UNCHANGED queued

----------------------------------------------------------------------------
(* Reconcile, up to its first write: read the cached object and dispatch.  *)

Dequeue ==
    /\ pc = "idle" /\ queued
    /\ \/ lag = <<>> /\ UNCHANGED disturbed
       \/ lag # <<>> /\ Disturb("stale")
    /\ queued' = FALSE
    /\ UNCHANGED <<app, cache, lag, history, secret, rollbacks, counted>>

Load(next, status) ==
    /\ Dequeue
    /\ pc' = next /\ local' = cache /\ fresh' = (lag = <<>>) /\ want' = status

(* Not found, or being deleted without our finalizer.                      *)
NothingToDo(a) == ~a.exists \/ (a.deleting /\ ~a.finalizer)

Reconcile ==
    \/ NothingToDo(cache) /\ Dequeue /\ UNCHANGED jobVars
    \/ /\ ~NothingToDo(cache)
       /\ \/ cache.deleting /\ Load("uninstall", EmptyStatus)
          \/ /\ ~cache.deleting /\ ~cache.finalizer
             /\ Load("addFinalizer", EmptyStatus)
          \/ /\ ~cache.deleting /\ cache.finalizer
             /\ LET hash == resolveValues(cache)
                IN  \/ hash = Broken /\ Load("status", fail(cache))
                    \/ /\ hash # Broken /\ needsApply(cache, hash)
                       /\ Load("apply", Applied(cache, hash))
                    \/ /\ hash # Broken /\ ~needsApply(cache, hash)
                       /\ Load("health", EmptyStatus)

(* AddFinalizer and its Update: no requeue, the watch event re-triggers.   *)
AddFinalizer ==
    /\ pc = "addFinalizer"
    /\ \/ /\ Commit([local EXCEPT !.finalizer = TRUE])
          /\ \/ Finish /\ UNCHANGED disturbed
             \/ Requeue /\ Disturb("api")
       \/ Refuse /\ Requeue
    /\ UNCHANGED <<cache, history, secret, rollbacks, counted>>

(* ensureNamespace and InstallOrUpgrade up to the pending revision.        *)
BeginInstallOrUpgrade ==
    /\ pc = "apply"
    /\ ~OperationPending(history)
    /\ history' = BeginApply(history, local.chart, want.hash)
    /\ pc' = "applying"
    /\ UNCHANGED <<app, cache, lag, queued, local, fresh, want, secret,
                   rollbacks, counted, disturbed>>

(* NamespaceError, or a HelmError before a revision is stored: no chart,   *)
(* no connection, or an earlier operation left pending.                    *)
RefuseInstallOrUpgrade ==
    /\ pc = "apply"
    /\ \/ OperationPending(history) /\ UNCHANGED disturbed
       \/ ~OperationPending(history) /\ Disturb("helm")
    /\ pc' = "status" /\ want' = fail(local)
    /\ UNCHANGED <<app, cache, lag, queued, local, fresh, history, secret,
                   rollbacks, counted>>

FinishInstallOrUpgrade ==
    /\ pc = "applying"
    /\ history' = FinishApply(history)
    /\ pc' = "applied"
    /\ want' = [want EXCEPT !.rev = LastRev(history), !.start = "recent"]
    /\ UNCHANGED <<app, cache, lag, queued, local, fresh, secret, rollbacks,
                   counted, disturbed>>

(* Mutant: an error of Helm after it stored the revision is passed over.   *)
FailInstallOrUpgradeUnnoticed ==
    /\ pc = "applying"
    /\ Disturb("helm")
    /\ history' = FailApply(history)
    /\ pc' = "applied"
    /\ want' = [want EXCEPT !.rev = LastRev(history), !.start = "recent"]
    /\ UNCHANGED <<app, cache, lag, queued, local, fresh, secret, rollbacks, counted>>

FailInstallOrUpgrade ==
    /\ pc = "applying"
    /\ Disturb("helm")
    /\ history' = FailApply(history)
    /\ pc' = "status" /\ want' = fail(local)
    /\ UNCHANGED <<app, cache, lag, queued, local, fresh, secret, rollbacks, counted>>

(* The status write that closes an install or upgrade.                     *)
RecordApplied ==
    /\ pc = "applied"
    /\ \/ CommitStatus(want) /\ rollbacks' = 0 /\ UNCHANGED disturbed
       \/ Refuse /\ UNCHANGED <<rollbacks, counted>>
    /\ Requeue
    /\ UNCHANGED <<cache, history, secret>>

----------------------------------------------------------------------------
(* reconcileHealth.                                                        *)

(* Helm.Get or releaseHealth fails; Get always does without a history.     *)
HealthError ==
    /\ pc = "health"
    /\ \/ history = {} /\ UNCHANGED disturbed
       \/ history # {} /\ Disturb("api")
    /\ Requeue
    /\ UNCHANGED <<app, cache, lag, history, secret, rollbacks, counted>>

(* Write s if it differs from the status read; skip the write if not,      *)
(* unless the message may differ.                                          *)
WriteIfChanged(s, messageVaries) ==
    \/ /\ s # local.status \/ messageVaries
       /\ pc' = "status" /\ want' = s /\ UNCHANGED <<local, fresh, queued>>
    \/ s = local.status /\ Requeue

(* Mutant: only the way from Deploying to Deployed counts.                 *)
CountSuccessOfRollout(s) ==
    IF s.phase = "Deploying" /\ counted < 2 THEN counted + 1 ELSE counted

(* deploymentSuccessTotal is incremented before the status is written.     *)
CountSuccess(s) ==
    IF s.phase # "Deployed" /\ counted < 2 THEN counted + 1 ELSE counted

Unhealthy(h) == h = "Failed" \/ (h # "Current" /\ deadlineExceeded(local.status))

reconcileHealth(h) ==
    /\ pc = "health" /\ history # {} /\ h \in HealthOf(Get(history).chart)
    /\ ~Unhealthy(h)
    /\ \/ /\ h = "Current" /\ ~AlreadyRolledBack(local.status)
          /\ counted' = CountSuccess(local.status)
          /\ WriteIfChanged(Healthy(local), FALSE)
       \/ /\ h = "Current" /\ AlreadyRolledBack(local.status)
          /\ Requeue /\ UNCHANGED counted
       \/ /\ h = "InProgress"
          /\ WriteIfChanged(Progressing(local), TRUE) /\ UNCHANGED counted
    /\ UNCHANGED <<app, cache, lag, history, secret, rollbacks, disturbed>>

(* Mutant: a first revision counts as one to go back from.                 *)
handleUnhealthyFromFirst(h) ==
    /\ pc = "health" /\ history # {} /\ h \in HealthOf(Get(history).chart)
    /\ Unhealthy(h)
    /\ \/ /\ AlreadyRolledBack(local.status) \/ local.status.rev < 1
          /\ WriteIfChanged(setDegraded(local, local.status.rev), TRUE)
       \/ /\ ~AlreadyRolledBack(local.status) /\ local.status.rev >= 1
          /\ pc' = "fence" /\ want' = RollingBack(local)
          /\ UNCHANGED <<local, fresh, queued>>
    /\ UNCHANGED <<app, cache, lag, history, secret, rollbacks, counted, disturbed>>

(* handleUnhealthy: give up, or record the failed revision and roll back.  *)
handleUnhealthy(h) ==
    /\ pc = "health" /\ history # {} /\ h \in HealthOf(Get(history).chart)
    /\ Unhealthy(h)
    /\ \/ /\ AlreadyRolledBack(local.status) \/ local.status.rev <= 1
          /\ WriteIfChanged(setDegraded(local, local.status.rev), TRUE)
       \/ /\ ~AlreadyRolledBack(local.status) /\ local.status.rev > 1
          /\ pc' = "fence" /\ want' = RollingBack(local)
          /\ UNCHANGED <<local, fresh, queued>>
    /\ UNCHANGED <<app, cache, lag, history, secret, rollbacks, counted, disturbed>>

(* Mutant: Helm is called although the write failed.                       *)
RecordFailedRevisionIgnoringErrors ==
    /\ pc = "fence"
    /\ \/ CommitStatus(want) /\ local' = app' /\ UNCHANGED disturbed
       \/ Refuse /\ UNCHANGED <<local, counted>>
    /\ pc' = "rollback"
    /\ UNCHANGED <<cache, fresh, want, queued, history, secret, rollbacks>>

(* The write that records lastFailedRevision, before Helm is called.  Its  *)
(* reply may be lost, in which case the reconcile ends without rolling back.*)
RecordFailedRevision ==
    /\ pc = "fence"
    /\ \/ /\ CommitStatus(want)
          /\ pc' = "rollback" /\ local' = app'
          /\ UNCHANGED <<fresh, want, queued, disturbed>>
       \/ CommitStatus(want) /\ Disturb("api") /\ Requeue
       \/ Refuse /\ Requeue /\ UNCHANGED counted
    /\ UNCHANGED <<cache, history, secret, rollbacks>>

BeginHelmRollback ==
    /\ pc = "rollback"
    /\ CanRollback(history)
    /\ history' = BeginRollback(history)
    /\ rollbacks' = rollbacks + 1
    /\ pc' = "rollingBack"
    /\ UNCHANGED <<app, cache, lag, queued, local, fresh, want, secret, counted, disturbed>>

(* Rollback fails before it stores a revision.                             *)
RefuseHelmRollback ==
    /\ pc = "rollback"
    /\ \/ ~CanRollback(history) /\ UNCHANGED disturbed
       \/ CanRollback(history) /\ Disturb("helm")
    /\ rollbacks' = rollbacks + 1
    /\ pc' = "status" /\ want' = setDegraded(local, local.status.rev)
    /\ UNCHANGED <<app, cache, lag, queued, local, fresh, history, secret, counted>>

(* Rollback succeeds; the Get that follows may fail, and is then ignored.  *)
FinishHelmRollback ==
    /\ pc = "rollingBack"
    /\ history' = FinishRollback(history)
    /\ \/ want' = setDegraded(local, LastRev(history)) /\ UNCHANGED disturbed
       \/ want' = setDegraded(local, local.status.rev) /\ Disturb("api")
    /\ pc' = "status"
    /\ UNCHANGED <<app, cache, lag, queued, local, fresh, secret, rollbacks, counted>>

FailHelmRollback ==
    /\ pc = "rollingBack"
    /\ Disturb("helm")
    /\ history' = FailRollback(history)
    /\ pc' = "status" /\ want' = setDegraded(local, local.status.rev)
    /\ UNCHANGED <<app, cache, lag, queued, local, fresh, secret, rollbacks, counted>>

(* The last status write of fail, reconcileHealth and setDegraded.  The    *)
(* API server stores no new version when nothing differs.                  *)
WriteStatus ==
    /\ pc = "status"
    /\ \/ CommitStatus(want) /\ UNCHANGED disturbed
       \/ /\ fresh /\ want = local.status
          /\ UNCHANGED <<app, lag, counted, disturbed>>
       \/ Refuse /\ UNCHANGED counted
    /\ Requeue
    /\ UNCHANGED <<cache, history, secret, rollbacks>>

----------------------------------------------------------------------------
(* reconcileDelete: uninstall, clean the namespace up, drop the finalizer. *)

(* Mutant: the finalizer goes even if the uninstall failed.                *)
UninstallIgnoringErrors ==
    /\ pc = "uninstall"
    /\ \/ history' = FinishUninstall(history) /\ UNCHANGED disturbed
       \/ /\ Disturb("helm")
          /\ history' \in {history, FailUninstall(history), FinishUninstall(history)}
    /\ pc' = "removeFinalizer"
    /\ UNCHANGED <<app, cache, lag, local, fresh, want, queued, secret, rollbacks, counted>>

(* Mutant: an uninstall of a release that is gone is an error.             *)
UninstallRequiringRelease ==
    /\ pc = "uninstall"
    /\ \/ /\ history # {} /\ history' = FinishUninstall(history)
          /\ pc' = "removeFinalizer"
          /\ UNCHANGED <<local, fresh, want, queued>>
       \/ history = {} /\ Requeue /\ UNCHANGED history
    /\ UNCHANGED <<app, cache, lag, secret, rollbacks, counted, disturbed>>

Uninstall ==
    /\ pc = "uninstall"
    /\ \/ /\ history' = FinishUninstall(history)
          /\ pc' = "removeFinalizer"
          /\ UNCHANGED <<local, fresh, want, queued, disturbed>>
       \/ \* the uninstall fails, or it succeeds and maybeDeleteNamespace fails
          /\ Disturb("helm") /\ Requeue
          /\ history' \in {history, FailUninstall(history), FinishUninstall(history)}
    /\ UNCHANGED <<app, cache, lag, secret, rollbacks, counted>>

(* Without its finalizer the object is gone.                               *)
RemoveFinalizer ==
    /\ pc = "removeFinalizer"
    /\ \/ /\ Commit(Absent(app.uid)) /\ rollbacks' = 0 /\ counted' = 0
          /\ \/ Finish /\ UNCHANGED disturbed
             \/ Requeue /\ Disturb("api")
       \/ Refuse /\ Requeue /\ UNCHANGED <<rollbacks, counted>>
    /\ UNCHANGED <<cache, history, secret>>

----------------------------------------------------------------------------
(* The environment: users, watches, time, crashes.                         *)

(* A user's write lands and outdates whatever copy a reconcile holds.      *)
UserWrite(obj) ==
    /\ Store(obj) /\ fresh' = FALSE
    /\ UNCHANGED <<cache, queued, pc, local, want, history, secret, rollbacks, counted>>

CreateApplication ==
    /\ ~app.exists /\ app.uid < MaxUid
    /\ \E c \in Charts, r \in RefChoices : UserWrite(Created(app.uid + 1, c, r))
    /\ UNCHANGED disturbed

(* Any edit of the spec is a new generation, also one that keeps the chart *)
(* and the reference (progressDeadlineSeconds).                            *)
EditSpec ==
    /\ app.exists /\ ~app.deleting /\ app.gen < MaxGen
    /\ \E c \in Charts, r \in RefChoices :
         UserWrite([app EXCEPT !.gen = @ + 1, !.chart = c, !.ref = r])
    /\ UNCHANGED disturbed

(* Labels, annotations: a new version of the same generation.              *)
TouchMetadata ==
    /\ app.exists /\ Disturb("touch")
    /\ UserWrite(app)

(* With the finalizer the object stays, marked; without, it goes at once.  *)
DeleteApplication ==
    /\ app.exists /\ ~app.deleting
    /\ UserWrite(IF app.finalizer THEN [app EXCEPT !.deleting = TRUE, !.gen = @ + 1]
                 ELSE Absent(app.uid))
    /\ UNCHANGED disturbed

(* The Secret changes and applicationsForSecret maps it to the cached      *)
(* Applications that reference it.                                         *)
EditSecret ==
    /\ Disturb("secret")
    /\ \E s \in (Values \cup {Broken}) \ {secret} : secret' = s
    /\ queued' = (queued \/ (cache.exists /\ cache.ref))
    /\ UNCHANGED <<app, cache, lag, jobVars, history, rollbacks, counted>>

(* A watch event reaches the cache and enqueues the request.               *)
DeliverEvent ==
    /\ lag # <<>>
    /\ cache' = Head(lag) /\ lag' = Tail(lag)
    /\ queued' = TRUE
    /\ UNCHANGED <<app, jobVars, history, secret, rollbacks, counted, disturbed>>

Expire(s) == IF s.start = "recent" THEN [s EXCEPT !.start = "expired"] ELSE s

(* progressDeadlineSeconds go by: every start time taken so far is late.   *)
DeadlinePasses ==
    /\ \E s \in {app.status, cache.status, local.status, want} : s.start = "recent"
    /\ LET Late(a) == [a EXCEPT !.status = Expire(@)]
       IN  /\ app' = Late(app) /\ cache' = Late(cache) /\ local' = Late(local)
           /\ lag' = [i \in 1 .. Len(lag) |-> Late(lag[i])]
    /\ want' = Expire(want)
    /\ UNCHANGED <<queued, pc, fresh, history, secret, rollbacks, counted, disturbed>>

(* The release disappears behind the operator's back (helm uninstall, or   *)
(* its namespace deleted), not in the middle of an operation on it.        *)
LoseRelease ==
    /\ history # {} /\ pc \notin {"applying", "rollingBack"}
    /\ Disturb("drift")
    /\ history' = {}
    /\ UNCHANGED <<app, cache, lag, queued, jobVars, secret, rollbacks, counted>>

(* The operator dies wherever it is.  The new process lists the stored     *)
(* objects into its cache and enqueues each; its counters start at zero.   *)
Crash ==
    /\ Disturb("crash")
    /\ Return
    /\ cache' = app /\ lag' = <<>> /\ queued' = app.exists
    /\ counted' = 0
    /\ UNCHANGED <<app, history, secret, rollbacks>>

----------------------------------------------------------------------------
Controller ==
    \/ Reconcile
    \/ AddFinalizer
    \/ BeginInstallOrUpgrade \/ RefuseInstallOrUpgrade
    \/ FinishInstallOrUpgrade \/ FailInstallOrUpgrade
    \/ RecordApplied
    \/ HealthError
    \/ \E h \in {"Current", "InProgress", "Failed"} :
         reconcileHealth(h) \/ handleUnhealthy(h)
    \/ RecordFailedRevision
    \/ BeginHelmRollback \/ RefuseHelmRollback
    \/ FinishHelmRollback \/ FailHelmRollback
    \/ WriteStatus
    \/ Uninstall \/ RemoveFinalizer

Environment ==
    \/ CreateApplication \/ EditSpec \/ TouchMetadata \/ DeleteApplication
    \/ EditSecret \/ LoseRelease \/ Crash

Next == Controller \/ DeliverEvent \/ DeadlinePasses \/ Environment

(* The worker keeps working, watches deliver and time passes; users and    *)
(* faults owe nothing.                                                     *)
Fairness ==
    /\ WF_vars(Controller)
    /\ WF_vars(DeliverEvent)
    /\ WF_vars(DeadlinePasses)

Spec == Init /\ [][Next]_vars

FairSpec == Spec /\ Fairness
----------------------------------------------------------------------------
(* Properties.                                                             *)

PCs == {"idle", "addFinalizer", "apply", "applying", "applied", "health",
        "fence", "rollback", "rollingBack", "status", "uninstall",
        "removeFinalizer"}

(* Every variable keeps its type.                                          *)
TypeOK ==
    /\ app \in Application /\ cache \in Application /\ local \in Application
    /\ lag \in Seq(Application)
    /\ queued \in BOOLEAN /\ fresh \in BOOLEAN
    /\ pc \in PCs
    /\ want \in Status
    /\ history \in SUBSET Release
    /\ secret \in Values \cup {Broken}
    /\ rollbacks \in Nat /\ counted \in 0 .. 2 /\ disturbed \in Nat

(* For one recorded desired state Helm is told to roll back at most once,  *)
(* whatever is stale, lost or crashes in between (health.go, the comment   *)
(* on handleUnhealthy).                                                    *)
AtMostOneRollback == rollbacks <= 1

(* The reconciler implements the rollback promise: lastFailedRevision is   *)
(* lifted only by recording another generation or other values, and a      *)
(* rollback is preceded by a stored lastFailedRevision.                    *)
Policy == INSTANCE RollbackPolicy WITH
    recorded   <- <<app.exists, app.status.obsGen, app.status.hash>>,
    fenced     <- app.status.lfr # 0,
    rolledBack <- rollbacks

ImplementsRollbackPolicy == Policy!PolicySpec

(* No release without an owner: while Helm stores any revision, the        *)
(* Application exists and carries the finalizer that will uninstall it     *)
(* (application_controller.go: "Register the finalizer before creating any *)
(* external state").                                                       *)
FinalizerGuardsRelease == history # {} => app.exists /\ app.finalizer

(* No lost wake-up: an existing Application is queued, being reconciled,   *)
(* or about to be enqueued by a watch event, although AddFinalizer returns *)
(* without a requeue.                                                      *)
NeverForgotten == app.exists => queued \/ pc # "idle" \/ lag # <<>>

(* Ready and Deployed are one claim, never made for a rolled back state,   *)
(* and stamped with the generation that was applied.                       *)
ReadyIsHonest ==
    LET s == app.status
    IN  /\ (s.ready = "True") <=> (s.phase = "Deployed")
        /\ s.ready = "True" =>
             s.lfr = 0 /\ s.healthy = "True" /\ s.readyGen = s.obsGen

(* deployment_success_total misses no deployment: whenever the stored phase *)
(* turns Deployed, this process has counted it (metrics.go: "counts        *)
(* transitions into the Deployed (healthy) phase").                        *)
DeployedIsCounted ==
    [][app'.status.phase = "Deployed" /\ app.status.phase # "Deployed"
         => counted' >= 1]_vars

(* Ready for the current generation means the newest revision runs the     *)
(* chart of the current spec, and values exactly if that names a Secret,   *)
(* also after conflicts, stale reads and rollbacks of earlier generations. *)
ReadyRunsSpec ==
    app.status.ready = "True" /\ app.status.readyGen = app.gen /\ history # {}
      => /\ Get(history).chart = app.chart
         /\ Get(history).values = NoValues <=> ~app.ref

(* Upgrades prune the history, yet never the revision a rollback of the    *)
(* newest one aims at.                                                     *)
RollbackTargetKept == WellNumbered(history) /\ TargetRetained(history)

(* Rollbacks store a revision each and prune none, yet the history stays   *)
(* within one of the limit that upgrades keep (release.go,                 *)
(* defaultMaxHistory): between two rollbacks lies an upgrade.              *)
HistoryBounded == Cardinality(history) <= MaxHistory + 1

(* The one rollback of a desired state is not spent in vain: when Helm is  *)
(* called there is a revision to go back to, unless the release has been   *)
(* removed since the revision it had was recorded (health.go, the          *)
(* condition HelmRevision <= 1).                                           *)
RollbackIsPossible ==
    pc = "rollback" => CanRollback(history) \/ LastRev(history) < local.status.rev

(* What needs no further install or upgrade: the spec and the values are   *)
(* the ones recorded, or they cannot be resolved, or deletion is under way.*)
Converged ==
    \/ ~app.exists \/ app.deleting
    \/ resolveValues(app) = Broken
    \/ ~needsApply(app, resolveValues(app))

(* Once users and faults leave it alone, the operator records the desired  *)
(* state and keeps it recorded (README.md: "a controller that continuously *)
(* drives toward desired state").  It is the record that converges: the    *)
(* operator never looks whether what it recorded is still installed.       *)
EventuallyConverges == <>[]Converged

BadReleaseInstalled ==
    /\ app.exists /\ ~app.deleting /\ history # {}
    /\ Get(history).chart \in BadCharts

(* A release whose workloads never become Current does not stay Deploying: *)
(* once left alone it is rolled back, Degraded or Failed                   *)
(* (application_types.go: progressDeadlineSeconds bounds the wait).        *)
BadReleaseSurfaces ==
    <>[](BadReleaseInstalled => app.status.phase \in {"Degraded", "Failed"})

(* An edit that finds nothing installed, and no install finished that is   *)
(* about to be recorded for it.                                            *)
AwaitsInstall ==
    /\ app.exists /\ ~app.deleting /\ history = {}
    /\ app.status.obsGen # app.gen
    /\ ~(pc = "applied" /\ fresh)

RunsSpec ==
    history # {} /\ Get(history).st = "deployed" /\ Get(history).chart = app.chart

(* A release that somebody uninstalled is not missed while generation and  *)
(* hash match the record, although README.md speaks of a controller that   *)
(* "continuously drives toward desired state"; the next edit brings it     *)
(* back (release.go: "installs the release if it has no history"): it is   *)
(* not only recorded, as EventuallyConverges asks, but stored by Helm as   *)
(* deployed, with the chart of the spec.  A loss between an install and    *)
(* the write that records it is excepted, since nothing ever notices it.   *)
EditReinstalls ==
    AwaitsInstall ~> (RunsSpec \/ ~app.exists \/ app.deleting
                        \/ resolveValues(app) = Broken)

(* A deletion that was accepted completes: release gone, object gone.      *)
DeletionCompletes == app.deleting ~> (~app.deleting /\ history = {})
=============================================================================
