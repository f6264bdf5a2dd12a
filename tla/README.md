# A verification of HelmWarden

HelmWarden is a Kubernetes operator. A user declares an `Application` (chart,
version, target namespace, optional values Secret); the operator installs or
upgrades the Helm release, polls the health of its workloads, rolls a bad
rollout back once, and cleans up behind a finalizer on deletion.

This directory holds TLA+ models of the operator, TLC configurations that check
them on small instances, and TLAPS proofs of the results that matter most for
instances of every size.

    tlc -workers 2 -config Lifecycle.cfg MCReconciler   # a run
    tlapm RollbackProofs.tla                            # a proof

## The system

| Part | State it keeps | Operations | Code |
|---|---|---|---|
| reconcile loop | none of its own: the `Application` (finalizer, status), read from the informer's cache, written with optimistic locking | `Reconcile`, `reconcileHealth`, `reconcileDelete`, `fail` | `internal/controller/application_controller.go` |
| rollback policy | `status.lastFailedRevision`, `lastDeployStartTime` | `handleUnhealthy`, `setDegraded`, `deadlineExceeded` | `internal/controller/health.go` |
| release health | none; reads the live workloads | `workloadsFromManifest`, `releaseHealth` | `internal/controller/health.go` |
| Helm manager | the release history, Secrets in the target namespace, kept by the Helm SDK | `InstallOrUpgrade`, `Rollback`, `Get`, `Uninstall` | `internal/helm/release.go`, `manager.go` |
| namespace ownership | the managed-by annotation on namespaces | `ensureNamespace`, `maybeDeleteNamespace`, `otherApplicationsInNamespace` | `application_controller.go` |
| values and their watch | the values Secret (user's), `status.lastAppliedValuesHash` | `resolveValues`, `applicationsForSecret` | `application_controller.go` |
| webhook | none | `validateApplication` on create and update | `internal/webhook/v1alpha1/application_webhook.go` |
| metrics | one counter, one gauge, one histogram | `refreshActiveGauge`, increments | `internal/controller/metrics.go` |
| API types, start-up, manifests, tests | - | - | `api/`, `cmd/`, `config/`, `test/` |

How they interact. One worker takes requests from the work queue (a watch event
of an Application, a mapped Secret event, a retry, or a poll), reads the
Application from the cache, and calls the API server and Helm in sequence. The
only memory between two reconciles is what was written to the Application's
status and what Helm stored. Everything else moves meanwhile: users edit and
delete, the cache lags, workloads change, calls fail or lose their reply, and
the process may die between any two calls.

What is hard, then, is what a reconcile does with a picture that is out of date,
and what the next one makes of a predecessor that got half way. `PROJECT.json`
lists the hazards, each at its line.

What makes each part correct:

- reconcile loop: no release without an owner that will uninstall it; no
  Application forgotten; a status that tells the truth; convergence; deletions
  that complete;
- rollback policy: at most one rollback for a desired state, decided and stored
  before it happens; bad rollouts surfaced after the deadline;
- release health: the verdict is the documented rule, also when the workloads
  change while it is computed;
- Helm manager: the revision a rollback needs is still there;
- namespaces: nobody loses a release to somebody else's deletion; nobody waits
  for ever for a namespace that is being collected;
- values, watches and queue: no change waits for a poll, whoever shares the
  Secret and whichever cache is behind;
- webhook: what it rejects never reaches the reconciler, and it never keeps the
  operator from finishing a deletion;
- metrics: no deployment uncounted, a gauge that agrees with the cluster.

## The modules

`HelmRelease` - the stored history of one release, a set of revision records,
and the operators that `Manager`'s methods are: `BeginApply`, `FinishApply`,
`FailApply`, `BeginRollback`, ... An operation is two operators, because Helm
stores the new revision as pending before it applies anything, and a crash can
come in between. The Manager's own decisions (install or upgrade, `MaxHistory`
on upgrades only, `Version = 0` on rollbacks, no history kept on uninstall) are
translated; what the SDK does with them is external and marked so.

`ApplicationReconciler` - the core. `app` is the stored object, `cache` the
informer's copy, `lag` the versions between them. A reconcile is `pc`, the copy
it works on (`local`), whether that copy is still the stored version (`fresh`),
and the status it is about to write (`want`). One action per API or Helm call;
`Reconcile` reads the cache and dispatches exactly as the function's early
returns do. A write succeeds only if `fresh`; it may fail anyway, and a write
that succeeds may lose its reply. The environment creates, edits, touches and
deletes the Application, changes the Secret, removes the release, lets the
deadline pass and crashes the operator. Chart, repository and version are one
token; a start time is `recent` or `expired`; messages are left out, and where
only a message can differ the write may or may not happen.

`RollbackPolicy` - the promise about rollbacks without the machinery: a desired
state is recorded, may be fenced once, and rolled back once if fenced.
`ApplicationReconciler` implements it under the mapping that reads the recorded
state off the stored status, the fence off `lastFailedRevision` and the
rollbacks off the calls to Helm.

`ReleaseHealth` - `releaseHealth`, one read of a live object per step, with
objects that change between the reads. `regressed` collects the workloads the
running check has read as Current and that have changed since: the one thing a
check that reads them one by one cannot know. In the reconciler the health of a
release is any value `HealthOf` allows for its chart.

`NamespaceOwnership` - several Applications, the namespaces they target, the
releases stored in them, and one worker with two lagging caches. Every call is
a step of its own, the reads of a cache included, so that watches deliver between
the Get, the List and the Delete of `maybeDeleteNamespace`, and between the Get
and the Create of `ensureNamespace`. A crash may cut a Helm operation short, and
the release is then in `interrupted`: its newest revision is pending and no
upgrade is possible; an uninstall, a rollback or the end of the namespace takes
it out again. `overtaken` notes that the cache has shown the namespace gone after
the running reconcile read it. Of an Application only what decides about
namespaces is kept: of the test for an upgrade the generations, while values that
changed or cannot be resolved are a fault that may come at any reconcile; and of
the status whether `fail` has written it.

`Admission` - what stands between a write of an Application and the store: the
CRD's schema and the validating webhook, which is absent, installed but not
answering, or answering. Creates and updates pass it, the operator's own among
them; status writes and deletions do not. It has one variable and no actions;
`ControllerWiring` extends it.

`ControllerWiring` - what makes the reconciler run and what others see of it:
several Applications that share values Secrets, an informer cache each for
Applications and for Secrets, the mapping from Secrets to Applications, the work
queue, one worker, the webhook its updates must pass, and the gauge refreshed as
each reconcile returns. A reconcile reads the Application first and the Secret
some time later, and is reduced to what decides about the next one: what was
read, what is recorded as applied, and whether it ends in an error (`Retry`) or
not (`Done`). Helm is a call that succeeds or fails, or that a crash cuts short
(`interrupted`, as in `NamespaceOwnership`); its history and the
rollback are `ApplicationReconciler`'s, which in turn has one Application, sees
the Secret without delay, and knows no webhook. A reconcile that ends well leaves
the next turn to an event or to `Poll`, which may come at any time, is granted no
fairness, and stands for `RequeueAfter` and the informers' resync. (In
`ApplicationReconciler`, which needs the polls to make progress, such a return
puts the request back.)

`MCReconciler`, `MCHealth`, `MCNamespaces`, `MCWiring` - the modules the runs
use; the first, the third and the last also state the claims of the documentation
that TLC refutes.

`HelmReleaseProofs`, `ReconcilerTypeProofs`, `OwnershipProofs`,
`RollbackProofs`, `HealthProofs`, `NamespaceProofs`, `WiringProofs`,
`WakeupProofs` - the proofs.

Definitions named as mutants are deliberate bugs. None of them is used by a
specification; each replaces one definition to show that a property notices.

## The runs

| Run | Shows |
|---|---|
| `Lifecycle` | An Application created twice, three generations of charts that work and charts that do not, with a values Secret that changes or breaks, and two disturbances of any kind (stale read, metadata write, Secret edit, failed or lost API call, failed Helm operation, crash, release removed by somebody) at any point. No release without an owner (`FinalizerGuardsRelease`); no Application the queue forgets (`NeverForgotten`); Helm is told to roll back at most once per desired state (`AtMostOneRollback`), and as `RollbackPolicy` says (`ImplementsRollbackPolicy`); the revision it aims at is never pruned (`RollbackTargetKept`) and exists, unless somebody removed the release (`RollbackIsPossible`); the history stays within one of its limit, although rollbacks prune nothing (`HistoryBounded`); Ready claims nothing else than Deployed (`ReadyIsHonest`), and for the current generation that its chart is what runs, with values if it names a Secret (`ReadyRunsSpec`); no deployment is missing from the counter (`DeployedIsCounted`); `TypeOK`. |
| `ReconcilerLiveness` | Under fairness, with one disturbance that is not a crash: `EventuallyConverges`, `BadReleaseSurfaces`, `DeletionCompletes`, and `EditReinstalls`: once an Application whose release somebody removed is edited, its spec runs again. `EventuallyConverges` is about the record, and would be content with a release that is recorded and gone. Specs with and without a Secret follow each other here, so `ReadyRunsSpec` is checked in both directions. |
| `Wiring` | Two Applications that share a Secret and the worker, or name none, created, edited and deleted, with a Secret that changes or breaks, failing calls, a crash, and a webhook that is absent, installed at any time, or not answering yet. Once watches and queue are drained, everything is applied (`NothingMissed`) and the gauge is right (`GaugeCurrent`); the webhook keeps invalid specs out for good (`AdmissionHolds`); under fairness deletions complete, except of a spec the webhook was installed over and rejects (`DeletionsComplete`), and every Application left alone with a valid spec is applied, whatever happens to the other, unless a crash has left its release pending (`EveryoneConverges`). |
| `NamespaceSharing` | Two Applications move between two namespaces with one fault: `AppliedReleaseKept`; and `DeletesForeignOnlyByReuse`, the part of the statement `ForeignNamespace` refutes that does hold: whoever has a namespace the operator did not make loses it only as the successor of one that has gone, when the cache does not show that yet or has shown it only since the running reconcile read it. A namespace that was there before the operator, or whose name it never used, is safe. |
| `NamespaceLiveness` | Two Applications are created, deleted and created again around one namespace, with one fault, a crash included: `EveryoneIsApplied`, unless the crash has left the release pending. |
| `ReleaseHealth` | All manifests of three documents, all workload statuses, changes at any time: `SteadyVerdictIsRule`, `CurrentUnlessRegressed`, `FailedIsWitnessed`, `TypeOK`. |

Six runs end in a violation, and show where a statement of the repository and
its code part:

| Run | Statement refuted |
|---|---|
| `StaysDegraded` | "we intentionally stay Degraded ... until the spec/values change" (application_controller.go:198). The default branch of `reconcileHealth` sets Deploying whenever a workload of the restored revision is in progress, and once it is Current nothing sets Degraded again. |
| `RollsBackToGood` | "rolling back to the last good revision" (README.md:5). `Version = 0` is the previous revision, good or bad. |
| `ReadyRunsValues` | "a change to the values Secret must re-apply the release" (application_controller.go:110). It does not if the write that recorded the previous change was lost and the Secret is put back. |
| `CrashDuringUpgrade` | "continuously drives toward desired state" (README.md:11). A crash during an upgrade leaves a pending revision, and Helm refuses every later upgrade. It is the reason why `ReconcilerLiveness` leaves crashes out, and why `EveryoneIsApplied` and `EveryoneConverges` except the releases a crash has interrupted: those, and no others that met a crash. |
| `ForeignNamespace` | "deletes the target namespace only if the operator created it" (application_controller.go:265). The annotation is read from the cache, which may be behind or go on before the Delete, and the Delete carries no precondition. |
| `DeletionBlocked` | "deletion is always allowed and cleanup runs via finalizer" (application_webhook.go:64). Dropping the finalizer is an update, and the webhook validates updates in full: an Application that was stored before the webhook was installed, with a spec it rejects, is never finalized. |

### Bounds

`MaxUid` and `MaxGen` bound how often users create and edit; `MaxDisturbances`
and `MaxFaults` how often something goes wrong; `MaxDocs` the length of a
manifest. Nothing else is cut: a reconcile may be repeated for ever, and the
history is bounded by the model's own `MaxHistory`. Three generations are what
pruning with `MaxHistory = 3` and a bad chart upon a bad chart need (the code
keeps ten; the assumption that any run and proof needs is three, see the comment
on `MaxHistoryAssumption`); the second creation gives a new UID under the old
name. Two disturbances let one fault meet the recovery from another. Two
Applications are enough for one to delete what the other uses. In
`ApplicationReconciler` a read is stale only as a disturbance, because a cache
that lags at every read multiplies the states and shows nothing a few stale reads
do not; `NamespaceOwnership` and `ControllerWiring` have no such limit.

In `Wiring` `MaxEvents = 2` is shared by what users do, calls that fail and
crashes, which is little. It is enough because the operator does not only start
over an empty cluster: each Application is initially absent or settled, with or
without a Secret, and the Secret holds a value or is broken, so the two events
fall on every combination of what is already there. Waiting for the webhook
server, refused writes and stale reads are no events. The specs are one that
names the Secret, one that does not and has a version which is not semver, and
one the schema rejects. In `Wiring` the second one's namespace is a label, so
that only its version offends; in `DeletionBlocked` it is not, so that it can
neither be applied nor, once the webhook is there, finalized. What two events
cannot reach, the proofs of `NothingMissed`, `GaugeCurrent` and `AdmissionHolds`
cover.

Deadlock checking is off where the system may really stop: no Application is
left and users owe nothing more.

### Fairness

The worker keeps working (`WF` of the controller's steps): controller-runtime
retries a failed request for ever, and every other path of the code asks for a
requeue, apart from the two that wait for a watch event. Watch events arrive and
time passes. Nothing is asked of users or of faults, whose number is bounded, so
weak fairness is enough. In `NamespaceOwnership` the queue is left out, and
strong fairness of each Application's `Reconcile` stands for its turn in it: the
worker is busy with others again and again, and comes back. Nothing is asked of
its `reconcileHealth`: no rollback has to come to an interrupted release's aid.
That an Application
is always in the queue is `NeverForgotten`. `ControllerWiring` has the queue, and
strong fairness of each Application's `Reconcile` says that a queued request gets
its turn; the worker's steps, the watches and the start of the webhook server are
weakly fair, and a poll is owed nothing. Retries wait for no back-off in either
model; the code's back-off is finite.

## The proofs

The theorems hold for all sets of charts and values and for all bounds,
`MaxHistory` at least three and the assumptions named in the modules.

- `HelmReleaseProofs`: lemmas about the operations on a history. All of them
  keep it sound: a finite set of releases, each number once, with a newest
  revision and the one before it. The crux is pruning: it drops the oldest
  revisions that are not the last deployed one until `MaxHistory - 1` are left,
  so with a limit of three at least two stay, and the newest is among them; the
  new revision then has its predecessor. Further, which chart is newest after
  each operation, and how large the history may be: `RoomIsMade` counts what
  pruning leaves, by way of the oldest revision it spares (there is one by
  `LeastNumber`, from the library's well-foundedness of the naturals).
  (`HasNewest` is carried as an invariant, so that no induction over finite sets
  is needed.)
- `ReconcilerTypeProofs`: `TypeIsKept`, one lemma per handler, and
  `RollbackTargetIsKept`, since every step changes the history by one of those
  operations or not at all.
- `OwnershipProofs`: `ReleaseIsOwned`, `ApplicationIsRemembered`. Neither is
  inductive. That no release lacks an owner rests on what stale copies can be:
  `OwnerInv` says that an Application which some copy shows alive and with its
  finalizer has not been finalized; that a copy called fresh is the stored one;
  that the last version on its way is the stored one, so a cache that has caught
  up is right; and which step of a reconcile may assume which of these.
  `RecordedRevisionIsStored`, under the hypothesis that nobody else removes the
  release ("drift" is no disturbance; Helm starts to count anew otherwise):
  `helmRevision` of a live Application never runs ahead of Helm. `RecordedInv`
  says so of every copy that may still be read or written from, and `DeletedInv`
  that after a version that is being deleted, no live one follows that records a
  revision: an uninstall cannot take away what a later copy still counts on.
- `RollbackProofs`, six results on one argument: optimistic locking makes the
  status that was read and the status that is replaced the same.
  - `RollbackAtMostOnce`, `ReconcilerImplementsPolicy`. `FenceInv` ties the stored
    `lastFailedRevision` to the number of rollbacks, `CarryInv` says what a
    reconcile carries between its read and its write: a fence only for a state
    that has none, a lifted fence only for a new desired state, and no other
    change to either. Every committed write is then a step of the policy.
  - `ReadyIsKeptHonest`, `NoDeploymentIsMissed`. `ReportInv`: the stored status
    and every status about to be written are honest, health is looked at only
    when the generation read is the one applied, and a status that says Deployed
    either replaces one that did or has been counted.
  - `ReadyRunsTheSpec`. `AgreeInv`: from the moment the current generation is
    recorded until the next edit, every copy of the Application has its spec,
    because the write that recorded it needed a cache with nothing on its way.
    `RunsInv`: what Helm has just installed is of the spec the reconcile holds,
    so once the write is accepted the newest revision is of the stored spec; only
    a rollback changes that, and it comes with a fence, which Ready excludes.
    The same invariant relates the installed values to the spec that named them.
  - `HistoryIsBounded`. Upgrades keep the history within `MaxHistory`; a rollback
    adds one revision and prunes none. `BoundInv` counts against the rollbacks of
    the recorded state, of which there is at most one, and a new state is recorded
    only by a reconcile that has just upgraded, or installed, within the limit.
  - `RollbackHasTarget`, `RollbackAlwaysHasTarget`. `TargetInv`: whoever is about
    to roll back has read a `helmRevision` greater than one. A sound history whose
    newest number is that large has the one before it, by `RollbackTargetIsKept`;
    that the number is that large is `RecordedRevisionIsStored`, or else the
    release has been removed.
- `HealthProofs`: `HealthTypes`, `SteadyVerdict`, `CurrentVerdict`, `FailedVerdict`, for
  manifests of any length. `CheckInv` says what a running check knows of the
  workloads it has seen: while the aggregate is Current, each of them is Current
  still or in `regressed`, whatever else in the cluster has changed.
- `NamespaceProofs`: `AppliedReleaseIsKept`, for any number of Applications and
  namespaces. `NamespaceInv` orders the copies of an Application by age (the
  copy a reconcile holds, the cached one, those on their way, the stored one)
  and says that all copies of an applied Application show it alive and in its
  namespace. That becomes true when `RecordApplied` is accepted: the reconcile
  read the copy it writes from the same cache, so nothing older is left in it.
  From then on the cached list of `otherApplicationsInNamespace` cannot miss
  the Application. And where the list was read before, with the Delete still to
  come: with one worker no status write is accepted in between, so that whoever
  is applied by the time of the Delete was applied when the list was read. The
  argument needs one cache for both reads, the optimistic lock on the status
  write, and the single worker. `ForeignIsDeletedOnlyByReuse`: `VersionInv`
  orders the copies of a namespace in the same way; from a version with the
  annotation to a later one without, the namespace was gone in between, since
  `ensureNamespace` never takes the annotation off and a collected namespace must
  be created anew. `ReadInv` carries what the Get has read to the Delete: the
  cache still shows the annotation or `overtaken` has noted that it does not.
- `WiringProofs`: `WiringTypeIsKept` (for this module the types are proved and
  not run), and `AdmissionIsKept`: a write takes its spec from a user the
  webhook has admitted or from a copy that is already valid.
- `WakeupProofs`: `NothingIsMissed`. `WiringInv` says of every Application that it
  is served, or being worked on, or that something will have it reconciled: a
  request in the queue, an event of its own on the way, or one of its Secret.
  While it is worked on, `JobKnows` relates what the reconcile has read to what
  both caches show by now: where they differ, a request is already queued. This
  is where the two watches could miss a change between them. From it
  `GaugeIsCurrent`: `GaugeDue` says that where the gauge differs from the cached
  list, a refresh is still to come.

The inductive invariants were checked with TLC on the instances of the runs
before they were proved.

Only model-checked: liveness (the prover has no rule for fairness). Every
invariant and action property of the passing runs is proved.

## Not modelled

- A scrape of the metrics between the gauge's `Reset` and its `Set`s; the latency
  histogram.
- What Helm renders and applies, and kstatus on a single object: external.
- `loadChart`, `newActionConfig`: one step that may fail. The REST client getter
  and the writable Helm directories: adapters without lasting state.
- Two operators at once: leader election is a library's, and the deployment
  runs one replica.
- Two Applications of the same name in different namespaces with one target
  namespace share a release name; every model gives a release one Application.
- Flags, TLS and leader-election options of `main` (what a new process starts
  from is modelled); generated code, manifests, tests.
- The composition of `ControllerWiring` with the Helm history of
  `ApplicationReconciler`: together they are out of TLC's reach, and what one
  leaves to the other is only which values and generation are recorded.

Observed, without a run: the `Released` condition stays False after a
`ValuesError` that heals without an upgrade; `helmRevision` may lag behind
`helm history` (it is not updated when the Get after a rollback fails);
`lastDeployStartTime` is taken after the upgrade, not before; a Deployed release
older than its deadline is rolled back at the first InProgress workload;
`Pending` is never set; the success counter may count a deployment twice.
Two more fall short of what the documents lead one to expect, though none is
specific enough to be refuted. A release that somebody uninstalls is not
installed again before the next edit, since generation and hash still match and
`Helm.Get` fails at every poll; README.md:11 has HelmWarden close the gap that
"nothing reconciles drift". The same happens to a release that is lost between
the install and the write that records it. And an edit of `spec.namespace` leaves
the old release behind for good: the finalizer, which is there "to clean up
resources" (BUILD_PLAN.md:34), uninstalls from the present namespace only.

## Plan

1. `HelmRelease`, `ApplicationReconciler`, `RollbackPolicy` and their runs; done.
2. Types, ownership, rollback policy proved; done.
3. `ReleaseHealth` and `NamespaceOwnership`, with their runs and their proofs; done.
4. `Admission` and `ControllerWiring`: the webhook, the Secret watch, the queue
   and the gauge, with their runs and their proofs; done.
5. The release that disappears behind the operator's back; done, in `Lifecycle`
   and `ReconcilerLiveness`.
6. Proofs of the remaining invariants of the core: `ReadyIsHonest`,
   `ReadyRunsSpec`, `RollbackTargetKept`, `DeployedIsCounted`; done.
7. How large the history grows, whether a rollback has a target, what the
   recorded revision and the annotation on a namespace are worth: stated, checked
   and proved.
8. Left: the namespace that is never collected because the cache had not seen it
   yet (the behaviour is in `NamespaceOwnership`, without a property), and the
   release an edit of `spec.namespace` leaves behind.
