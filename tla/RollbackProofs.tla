--------------------------- MODULE RollbackProofs ---------------------------
(***************************************************************************)
(* At most one rollback per recorded desired state, the refinement of      *)
(* RollbackPolicy, the honesty of the Ready condition, what runs when it   *)
(* is claimed for the current generation, how long a history rollbacks     *)
(* make, and that a rollback has a revision to go back to.                 *)
(*                                                                         *)
(* The argument: LastFailedRevision is a fence.  It is written, against    *)
(* the stored version, before Helm is called, so a desired state whose     *)
(* fence is down has not been rolled back, and a reconcile that is about   *)
(* to roll back has just put the fence up itself.  Every later write       *)
(* copies the fence from the version it replaces, except the one that      *)
(* records another desired state.  That one needs a cache that had caught  *)
(* up, so from then on every copy has the recorded spec, and what Helm     *)
(* installs is of that spec.                                               *)
(*                                                                         *)
(* The fence also bounds the history: only a rollback adds a revision      *)
(* without pruning, and before the next one an upgrade prunes.             *)
(***************************************************************************)
EXTENDS OwnershipProofs

FenceInv ==
    /\ AtMostOneRollback
    /\ ~AlreadyRolledBack(app.status) => rollbacks = 0

(* What the reconcile carries from one step to the next.                   *)
CarryInv ==
    /\ pc \in {"apply", "applying", "applied"} =>
         want.lfr = 0 /\ want.obsGen = local.gen /\ needsApply(local, want.hash)
    /\ pc = "fence" =>
         /\ ~AlreadyRolledBack(local.status) /\ AlreadyRolledBack(want)
         /\ want.obsGen = local.status.obsGen /\ want.hash = local.status.hash
    /\ pc = "rollback" => AlreadyRolledBack(app.status) /\ rollbacks = 0
    /\ pc = "status" =>
         /\ want.lfr = local.status.lfr
         /\ want.obsGen = local.status.obsGen /\ want.hash = local.status.hash

RollbackInv == FenceInv /\ CarryInv

----------------------------------------------------------------------------
(* What the handlers' statuses keep of the status they start from.         *)
LEMMA KeptFields ==
    ASSUME NEW a \in Application, NEW n
    PROVE  \A s \in {fail(a), Healthy(a), Progressing(a), setDegraded(a, n)} :
             s.lfr = a.status.lfr /\ s.obsGen = a.status.obsGen
               /\ s.hash = a.status.hash
BY DEF Application, Status, fail, Healthy, Progressing, setDegraded

LEMMA AppliedFields ==
    ASSUME NEW a \in Application, NEW hash
    PROVE  /\ Applied(a, hash).lfr = 0 /\ Applied(a, hash).obsGen = a.gen
           /\ Applied(a, hash).hash = hash
BY DEF Application, Status, Applied

LEMMA RollingBackFields ==
    ASSUME NEW a \in Application
    PROVE  /\ RollingBack(a).lfr = a.status.rev
           /\ RollingBack(a).obsGen = a.status.obsGen
           /\ RollingBack(a).hash = a.status.hash
BY DEF Application, Status, RollingBack

LEMMA RollbackInit == Init => RollbackInv
<1> SUFFICES ASSUME Init PROVE RollbackInv
  OBVIOUS
<1>1. pc = "idle" /\ rollbacks = 0
  BY DEF Init
<1>2. QED
  BY <1>1 DEF RollbackInv, FenceInv, CarryInv, AtMostOneRollback

(* Reconcile picks a path.                                                 *)
LEMMA RollbackReconcile ==
    ASSUME TypeInv, OwnerInv, RollbackInv, Reconcile
    PROVE  RollbackInv'
<1> USE DEF RollbackInv
<1>1. pc = "idle" /\ UNCHANGED <<app, rollbacks>> /\ cache \in Application
  BY DEF Reconcile, Load, Dequeue, TypeInv, TypeOK
<1>2. FenceInv'
  BY <1>1 DEF FenceInv, AtMostOneRollback, AlreadyRolledBack
<1>3. CASE UNCHANGED jobVars
  BY <1>1, <1>2, <1>3 DEF CarryInv, jobVars
<1>4. CASE Load("uninstall", EmptyStatus) \/ Load("addFinalizer", EmptyStatus)
             \/ Load("health", EmptyStatus)
  BY <1>2, <1>4 DEF CarryInv, Load
<1>5. CASE Load("status", fail(cache))
  BY <1>1, <1>2, <1>5, KeptFields DEF CarryInv, Load
<1>6. ASSUME NEW hash, needsApply(cache, hash), Load("apply", Applied(cache, hash))
      PROVE  RollbackInv'
  <2>1. pc' = "apply" /\ local' = cache /\ want' = Applied(cache, hash)
    BY <1>6 DEF Load
  <2>2. want'.lfr = 0 /\ want'.obsGen = local'.gen /\ want'.hash = hash
    BY <1>1, <2>1, AppliedFields
  <2>3. needsApply(local', want'.hash)
    BY <1>6, <2>1, <2>2 DEF needsApply
  <2>4. QED
    BY <1>2, <2>1, <2>2, <2>3 DEF CarryInv, needsApply
<1>7. QED
  BY <1>3, <1>4, <1>5, <1>6 DEF Reconcile

(* Steps of a reconcile that write nothing to the API server.              *)
LEMMA RollbackQuietWork ==
    ASSUME TypeInv, OwnerInv, RollbackInv, NEW h,
           \/ BeginInstallOrUpgrade \/ RefuseInstallOrUpgrade
           \/ FinishInstallOrUpgrade \/ FailInstallOrUpgrade
           \/ HealthError \/ reconcileHealth(h) \/ handleUnhealthy(h)
           \/ FinishHelmRollback \/ FailHelmRollback \/ Uninstall
    PROVE  RollbackInv'
<1> USE DEF RollbackInv
<1>1. UNCHANGED <<app, rollbacks>> /\ local \in Application
  BY DEF BeginInstallOrUpgrade, RefuseInstallOrUpgrade, FinishInstallOrUpgrade,
         FailInstallOrUpgrade, HealthError, reconcileHealth, handleUnhealthy,
         FinishHelmRollback, FailHelmRollback, Uninstall, TypeInv, TypeOK
<1>2. FenceInv'
  BY <1>1 DEF FenceInv, AtMostOneRollback, AlreadyRolledBack
<1>3. ASSUME NEW a, pc' = "status", UNCHANGED local,
             want' \in {fail(local), Healthy(local), Progressing(local),
                        setDegraded(local, a)}
      PROVE  RollbackInv'
  <2>1. /\ want'.lfr = local'.status.lfr /\ want'.obsGen = local'.status.obsGen
        /\ want'.hash = local'.status.hash
    BY <1>1, <1>3, KeptFields
  <2>2. QED
    BY <1>2, <1>3, <2>1 DEF CarryInv
<1>4. CASE pc' \in {"idle", "rollingBack", "removeFinalizer"}
  BY <1>2, <1>4 DEF CarryInv
<1>5. CASE BeginInstallOrUpgrade
  BY <1>2, <1>5 DEF BeginInstallOrUpgrade, CarryInv, needsApply
<1>6. CASE RefuseInstallOrUpgrade
  BY <1>3, <1>6 DEF RefuseInstallOrUpgrade
<1>7. CASE FinishInstallOrUpgrade
  <2>1. /\ pc = "applying" /\ pc' = "applied" /\ UNCHANGED local
        /\ want' = [want EXCEPT !.rev = LastRev(history), !.start = "recent"]
        /\ want \in Status
    BY <1>7 DEF FinishInstallOrUpgrade, TypeInv, TypeOK
  <2>2. want'.lfr = want.lfr /\ want'.obsGen = want.obsGen /\ want'.hash = want.hash
    BY <2>1 DEF Status
  <2>3. QED
    BY <1>2, <2>1, <2>2 DEF CarryInv, needsApply
<1>8. CASE FailInstallOrUpgrade
  BY <1>3, <1>8 DEF FailInstallOrUpgrade
<1>9. CASE HealthError
  BY <1>4, <1>9 DEF HealthError, Requeue, Return
<1>10. CASE reconcileHealth(h)
  <2>1. \/ Requeue
        \/ /\ pc' = "status" /\ UNCHANGED local
           /\ want' \in {Healthy(local), Progressing(local)}
    BY <1>10 DEF reconcileHealth, WriteIfChanged
  <2>2. QED
    BY <1>3, <1>4, <2>1 DEF Requeue, Return
<1>11. CASE handleUnhealthy(h)
  <2>1. CASE Requeue
    BY <1>4, <2>1 DEF Requeue, Return
  <2>2. CASE /\ pc' = "status" /\ UNCHANGED local
             /\ want' = setDegraded(local, local.status.rev)
    BY <1>3, <2>2
  <2>3. CASE /\ ~AlreadyRolledBack(local.status) /\ local.status.rev > 1
             /\ pc' = "fence" /\ want' = RollingBack(local) /\ UNCHANGED local
    <3>1. local.status.rev \in Nat
      BY <1>1, ApplicationFields, StatusFields
    <3>2. /\ AlreadyRolledBack(want') /\ want'.obsGen = local.status.obsGen
          /\ want'.hash = local.status.hash
      BY <1>1, <2>3, <3>1, RollingBackFields DEF AlreadyRolledBack
    <3>3. QED
      BY <1>2, <2>3, <3>2 DEF CarryInv, AlreadyRolledBack
  <2>4. QED
    BY <1>11, <2>1, <2>2, <2>3 DEF handleUnhealthy, WriteIfChanged
<1>12. CASE FinishHelmRollback
  BY <1>3, <1>12 DEF FinishHelmRollback
<1>13. CASE FailHelmRollback
  BY <1>3, <1>13 DEF FailHelmRollback
<1>14. CASE Uninstall
  BY <1>4, <1>14 DEF Uninstall, Requeue, Return
<1>15. QED
  BY <1>5, <1>6, <1>7, <1>8, <1>9, <1>10, <1>11, <1>12, <1>13, <1>14

(* A status write replaces the very version the reconcile read.            *)
LEMMA CommittedStatus ==
    ASSUME TypeInv, OwnerInv, NEW s, CommitStatus(s)
    PROVE  local = app /\ app'.status = s /\ app'.exists = app.exists
<1>1. fresh /\ app' = [local EXCEPT !.status = s]
  BY DEF CommitStatus, Commit, Store
<1>2. local = app /\ local \in Application
  BY <1>1 DEF OwnerInv, CopiesInv, TypeInv, TypeOK
<1>3. QED
  BY <1>1, <1>2, WithStatusFields

LEMMA RollbackWrite ==
    ASSUME TypeInv, OwnerInv, RollbackInv,
           \/ AddFinalizer \/ RecordApplied \/ RecordFailedRevision
           \/ WriteStatus \/ RemoveFinalizer
    PROVE  RollbackInv'
<1> USE DEF RollbackInv
(* Refused, or nothing to write: only the reconcile ends.                  *)
<1>1. ASSUME pc' = "idle", UNCHANGED <<app, rollbacks>>
      PROVE  RollbackInv'
  BY <1>1 DEF FenceInv, CarryInv, AtMostOneRollback, AlreadyRolledBack
<1>2. ASSUME Refuse, Requeue, UNCHANGED rollbacks
      PROVE  RollbackInv'
  BY <1>1, <1>2 DEF Refuse, apiVars, Requeue, Return
<1>3. CASE AddFinalizer
  <2>1. CASE Commit([local EXCEPT !.finalizer = TRUE])
    <3>1. /\ fresh /\ app' = [local EXCEPT !.finalizer = TRUE] /\ pc' = "idle"
          /\ UNCHANGED rollbacks
      BY <1>3, <2>1 DEF AddFinalizer, Commit, Store, Finish, Requeue, Return
    <3>2. local = app /\ local \in Application
      BY <3>1 DEF OwnerInv, CopiesInv, TypeInv, TypeOK
    <3>3. app'.status = app.status
      BY <3>1, <3>2 DEF Application
    <3>4. QED
      BY <3>1, <3>3 DEF FenceInv, CarryInv, AtMostOneRollback, AlreadyRolledBack
  <2>2. QED
    BY <1>2, <1>3, <2>1 DEF AddFinalizer
<1>4. CASE RecordApplied
  <2>1. CASE CommitStatus(want) /\ rollbacks' = 0
    BY <1>4, <2>1
       DEF RecordApplied, Requeue, Return, FenceInv, CarryInv, AtMostOneRollback
  <2>2. QED
    BY <1>2, <1>4, <2>1 DEF RecordApplied
<1>5. CASE RecordFailedRevision
  <2>1. pc = "fence" /\ UNCHANGED rollbacks
    BY <1>5 DEF RecordFailedRevision
  <2>2. CASE CommitStatus(want)
    <3>1. app'.status = want /\ local = app
      BY <2>2, CommittedStatus
    <3>2. rollbacks = 0 /\ AlreadyRolledBack(want)
      BY <2>1, <3>1 DEF CarryInv, FenceInv
    <3>3. pc' \in {"rollback", "idle"}
      BY <1>5 DEF RecordFailedRevision, Requeue, Return
    <3>4. AlreadyRolledBack(app'.status) /\ rollbacks' = 0
      BY <2>1, <3>1, <3>2
    <3>5. QED
      BY <3>3, <3>4 DEF FenceInv, CarryInv, AtMostOneRollback, AlreadyRolledBack
  <2>3. QED
    BY <1>2, <1>5, <2>1, <2>2 DEF RecordFailedRevision
<1>6. CASE WriteStatus
  <2>1. pc = "status" /\ pc' = "idle" /\ UNCHANGED rollbacks
    BY <1>6 DEF WriteStatus, Requeue, Return
  <2>2. CASE CommitStatus(want)
    <3>1. app'.status = want /\ want.lfr = app.status.lfr
      BY <2>1, <2>2, CommittedStatus DEF CarryInv
    <3>2. QED
      BY <2>1, <3>1 DEF FenceInv, CarryInv, AtMostOneRollback, AlreadyRolledBack
  <2>3. QED
    BY <1>1, <1>6, <2>1, <2>2 DEF WriteStatus, Refuse, apiVars
<1>7. CASE RemoveFinalizer
  <2>1. CASE rollbacks' = 0 /\ Return
    BY <2>1 DEF Return, FenceInv, CarryInv, AtMostOneRollback
  <2>2. QED
    BY <1>2, <1>7, <2>1 DEF RemoveFinalizer, Finish, Requeue
<1>8. QED
  BY <1>3, <1>4, <1>5, <1>6, <1>7

(* Helm is told to roll back, by a reconcile that has just put the fence   *)
(* up: this is the first rollback of the desired state.                    *)
LEMMA RollbackHelm ==
    ASSUME TypeInv, OwnerInv, RollbackInv,
           BeginHelmRollback \/ RefuseHelmRollback
    PROVE  RollbackInv'
<1> USE DEF RollbackInv
<1>1. pc = "rollback" /\ rollbacks' = rollbacks + 1 /\ UNCHANGED <<app, local>>
  BY DEF BeginHelmRollback, RefuseHelmRollback
<1>2. rollbacks' = 1 /\ AlreadyRolledBack(app.status)
  BY <1>1 DEF CarryInv
<1>3. FenceInv'
  BY <1>1, <1>2 DEF FenceInv, AtMostOneRollback, AlreadyRolledBack
<1>4. CASE pc' = "rollingBack"
  BY <1>3, <1>4 DEF CarryInv
<1>5. CASE pc' = "status" /\ want' = setDegraded(local, local.status.rev)
  <2>1. /\ want'.lfr = local'.status.lfr /\ want'.obsGen = local'.status.obsGen
        /\ want'.hash = local'.status.hash
    BY <1>1, <1>5, KeptFields DEF TypeInv, TypeOK
  <2>2. QED
    BY <1>3, <1>5, <2>1 DEF CarryInv
<1>6. QED
  BY <1>4, <1>5 DEF BeginHelmRollback, RefuseHelmRollback

LEMMA RollbackUser ==
    ASSUME TypeInv, OwnerInv, RollbackInv,
           \/ CreateApplication \/ EditSpec \/ TouchMetadata \/ DeleteApplication
    PROVE  RollbackInv'
<1> USE DEF RollbackInv
<1>1. UNCHANGED <<pc, local, want, rollbacks>> /\ app \in Application
  BY DEF CreateApplication, EditSpec, TouchMetadata, DeleteApplication, UserWrite,
         TypeInv, TypeOK
<1>2. ASSUME app'.status.lfr = app.status.lfr
      PROVE  RollbackInv'
  BY <1>1, <1>2
     DEF FenceInv, CarryInv, AtMostOneRollback, AlreadyRolledBack, needsApply
<1>3. ASSUME ~Managed
      PROVE  RollbackInv'
  <2>1. ~AlreadyRolledBack(app.status) /\ pc # "rollback"
    BY <1>3 DEF OwnerInv, AppInv, JobInv, Managed, WorkPCs
  <2>2. rollbacks' = 0
    BY <1>1, <2>1 DEF FenceInv
  <2>3. QED
    BY <1>1, <2>1, <2>2
       DEF FenceInv, CarryInv, AtMostOneRollback, AlreadyRolledBack, needsApply
<1>4. CASE CreateApplication
  BY <1>3, <1>4 DEF CreateApplication, Managed
<1>5. CASE EditSpec
  <2>1. PICK c \in Charts, r \in RefChoices :
          app' = [app EXCEPT !.gen = @ + 1, !.chart = c, !.ref = r]
    BY <1>5 DEF EditSpec, UserWrite, Store
  <2>2. app'.status = app.status
    BY <1>1, <2>1 DEF Application
  <2>3. QED
    BY <1>2, <2>2
<1>6. CASE TouchMetadata
  BY <1>2, <1>6 DEF TouchMetadata, UserWrite, Store
<1>7. CASE DeleteApplication
  <2>1. CASE app.finalizer
    <3>1. app' = [app EXCEPT !.deleting = TRUE, !.gen = @ + 1]
      BY <1>7, <2>1 DEF DeleteApplication, UserWrite, Store
    <3>2. app'.status = app.status
      BY <1>1, <3>1 DEF Application
    <3>3. QED
      BY <1>2, <3>2
  <2>2. CASE ~app.finalizer
    BY <1>3, <2>2 DEF Managed
  <2>3. QED
    BY <2>1, <2>2
<1>8. QED
  BY <1>4, <1>5, <1>6, <1>7

LEMMA RollbackOther ==
    ASSUME TypeInv, OwnerInv, RollbackInv,
           \/ DeliverEvent \/ DeadlinePasses \/ EditSecret \/ LoseRelease
           \/ Crash \/ UNCHANGED vars
    PROVE  RollbackInv'
<1> USE DEF RollbackInv
<1>1. CASE DeliverEvent \/ EditSecret \/ LoseRelease \/ UNCHANGED vars
  <2>1. UNCHANGED <<app, pc, local, want, rollbacks>>
    BY <1>1 DEF DeliverEvent, EditSecret, LoseRelease, vars, jobVars
  <2>2. QED
    BY <2>1
       DEF FenceInv, CarryInv, AtMostOneRollback, AlreadyRolledBack, needsApply
<1>2. CASE Crash
  BY <1>2
     DEF Crash, Return, FenceInv, CarryInv, AtMostOneRollback, AlreadyRolledBack
<1>3. CASE DeadlinePasses
  <2>1. /\ app' = [app EXCEPT !.status = Expire(@)]
        /\ local' = [local EXCEPT !.status = Expire(@)]
        /\ want' = Expire(want) /\ UNCHANGED <<pc, rollbacks>>
    BY <1>3 DEF DeadlinePasses
  <2>2. app \in Application /\ local \in Application /\ want \in Status
    BY DEF TypeInv, TypeOK
  <2>3. /\ app'.status = Expire(app.status) /\ local'.status = Expire(local.status)
        /\ local'.gen = local.gen /\ app.status \in Status /\ local.status \in Status
    BY <2>1, <2>2, LateFields, ApplicationFields
  <2>4. /\ app'.status.lfr = app.status.lfr
        /\ local'.status.lfr = local.status.lfr
        /\ local'.status.obsGen = local.status.obsGen
        /\ local'.status.hash = local.status.hash
        /\ want'.lfr = want.lfr /\ want'.obsGen = want.obsGen
        /\ want'.hash = want.hash
    BY <2>1, <2>2, <2>3, ExpireFields
  <2>5. FenceInv'
    BY <2>1, <2>4 DEF FenceInv, AtMostOneRollback, AlreadyRolledBack
  <2>6. CarryInv'
    BY <2>1, <2>3, <2>4 DEF CarryInv, AlreadyRolledBack, needsApply
  <2>7. QED
    BY <2>5, <2>6
<1>4. QED
  BY <1>1, <1>2, <1>3

LEMMA RollbackNext ==
    ASSUME TypeInv, OwnerInv, RollbackInv, [Next]_vars
    PROVE  RollbackInv'
BY RollbackReconcile, RollbackQuietWork, RollbackWrite, RollbackHelm,
   RollbackUser, RollbackOther
   DEF Next, Controller, Environment

(* The inductive invariant: what is stored and what is carried agree with  *)
(* the number of rollbacks so far.                                         *)
THEOREM RollbackInvariant == Spec => []RollbackInv
<1>1. TypeInv /\ OwnerInv /\ RollbackInv /\ [Next]_vars => RollbackInv'
  BY RollbackNext
<1>2. QED
  BY <1>1, TypeCorrect, OwnerInvariant, RollbackInit, PTL DEF Spec

(* For one recorded desired state Helm is told to roll back at most once,  *)
(* under stale reads, conflicts, lost replies, failing Helm operations and *)
(* crashes, however many.                                                  *)
THEOREM RollbackAtMostOnce == Spec => []AtMostOneRollback
<1>1. RollbackInv => AtMostOneRollback
  BY DEF RollbackInv, FenceInv
<1>2. QED
  BY <1>1, RollbackInvariant, PTL

----------------------------------------------------------------------------
(* The refinement: every step of the reconciler and its environment is a   *)
(* step of the policy, or leaves what the policy speaks of alone.          *)

LEMMA PolicyStutter ==
    ASSUME app'.exists = app.exists, app'.status.obsGen = app.status.obsGen,
           app'.status.hash = app.status.hash, app'.status.lfr = app.status.lfr,
           UNCHANGED rollbacks
    PROVE  UNCHANGED Policy!policyVars
BY DEF Policy!policyVars

(* An object that appears or disappears starts from a clean slate.         *)
LEMMA PolicyReset ==
    ASSUME app'.exists # app.exists, app'.status = EmptyStatus, rollbacks' = 0
    PROVE  Policy!Record
<1>1. <<app'.exists, app'.status.obsGen, app'.status.hash>>
        # <<app.exists, app.status.obsGen, app.status.hash>>
  OBVIOUS
<1>e. EmptyStatus.lfr = 0
  BY DEF EmptyStatus
<1>2. app'.status.lfr = 0
  BY <1>e
<1>3. QED
  BY <1>1, <1>2 DEF Policy!Record

LEMMA PolicyWrite ==
    ASSUME TypeInv, OwnerInv, RollbackInv,
           \/ AddFinalizer \/ RecordApplied \/ RecordFailedRevision
           \/ WriteStatus \/ RemoveFinalizer
    PROVE  [Policy!PolicyNext]_(Policy!policyVars)
<1> USE DEF RollbackInv
<1>1. ASSUME UNCHANGED <<app, rollbacks>>
      PROVE  UNCHANGED Policy!policyVars
  BY <1>1, PolicyStutter
<1>2. ASSUME Refuse, UNCHANGED rollbacks
      PROVE  UNCHANGED Policy!policyVars
  BY <1>1, <1>2 DEF Refuse, apiVars
<1>3. CASE AddFinalizer
  <2>1. CASE Commit([local EXCEPT !.finalizer = TRUE])
    <3>1. fresh /\ app' = [local EXCEPT !.finalizer = TRUE] /\ UNCHANGED rollbacks
      BY <1>3, <2>1 DEF AddFinalizer, Commit, Store
    <3>2. local = app /\ local \in Application
      BY <3>1 DEF OwnerInv, CopiesInv, TypeInv, TypeOK
    <3>3. app'.status = app.status /\ app'.exists = app.exists
      BY <3>1, <3>2 DEF Application
    <3>4. QED
      BY <3>1, <3>3, PolicyStutter
  <2>2. QED
    BY <1>2, <1>3, <2>1 DEF AddFinalizer
<1>4. CASE RecordApplied
  <2>1. CASE CommitStatus(want) /\ rollbacks' = 0
    <3>1. app'.status = want /\ local = app
      BY <2>1, CommittedStatus
    <3>2. /\ want.lfr = 0 /\ want.obsGen = app.gen /\ needsApply(app, want.hash)
      BY <1>4, <3>1 DEF RecordApplied, CarryInv
    <3>3. Policy!Record
      BY <2>1, <3>1, <3>2 DEF Policy!Record, needsApply
    <3>4. QED
      BY <3>3 DEF Policy!PolicyNext
  <2>2. QED
    BY <1>2, <1>4, <2>1 DEF RecordApplied
<1>5. CASE RecordFailedRevision
  <2>1. pc = "fence" /\ UNCHANGED rollbacks
    BY <1>5 DEF RecordFailedRevision
  <2>2. CASE CommitStatus(want)
    <3>1. app'.status = want /\ local = app /\ app'.exists = app.exists
      BY <2>2, CommittedStatus
    <3>2. /\ app.status.lfr = 0 /\ want.lfr # 0
          /\ want.obsGen = app.status.obsGen /\ want.hash = app.status.hash
      BY <2>1, <3>1 DEF CarryInv, AlreadyRolledBack
    <3>3. Policy!Fence
      BY <2>1, <3>1, <3>2 DEF Policy!Fence
    <3>4. QED
      BY <3>3 DEF Policy!PolicyNext
  <2>3. QED
    BY <1>2, <1>5, <2>1, <2>2 DEF RecordFailedRevision
<1>6. CASE WriteStatus
  <2>1. pc = "status" /\ UNCHANGED rollbacks
    BY <1>6 DEF WriteStatus
  <2>2. CASE CommitStatus(want)
    <3>1. app'.status = want /\ local = app /\ app'.exists = app.exists
      BY <2>2, CommittedStatus
    <3>2. /\ want.lfr = app.status.lfr
          /\ want.obsGen = app.status.obsGen /\ want.hash = app.status.hash
      BY <2>1, <3>1 DEF CarryInv
    <3>3. QED
      BY <2>1, <3>1, <3>2, PolicyStutter
  <2>3. QED
    BY <1>1, <1>6, <2>1, <2>2 DEF WriteStatus, Refuse, apiVars
<1>7. CASE RemoveFinalizer
  <2>1. CASE Commit(Absent(app.uid)) /\ rollbacks' = 0
    <3>1. fresh /\ app' = Absent(app.uid) /\ pc = "removeFinalizer"
      BY <1>7, <2>1 DEF RemoveFinalizer, Commit, Store
    <3>2. local = app /\ local.deleting
      BY <3>1 DEF OwnerInv, CopiesInv, JobInv
    <3>3. app.exists = TRUE
      BY <3>2, ApplicationFields DEF OwnerInv, AppInv, Managed, TypeInv, TypeOK
    <3>4. app'.exists = FALSE /\ app'.status = EmptyStatus
      BY <3>1, AbsentFields
    <3>5. QED
      BY <2>1, <3>3, <3>4, PolicyReset DEF Policy!PolicyNext
  <2>2. QED
    BY <1>2, <1>7, <2>1 DEF RemoveFinalizer
<1>8. QED
  BY <1>3, <1>4, <1>5, <1>6, <1>7

LEMMA PolicyHelm ==
    ASSUME RollbackInv, BeginHelmRollback \/ RefuseHelmRollback
    PROVE  Policy!RollBack
<1>1. pc = "rollback" /\ rollbacks' = rollbacks + 1 /\ UNCHANGED app
  BY DEF BeginHelmRollback, RefuseHelmRollback
<1>2. app.status.lfr # 0 /\ rollbacks = 0
  BY <1>1 DEF RollbackInv, CarryInv, AlreadyRolledBack
<1>3. QED
  BY <1>1, <1>2 DEF Policy!RollBack

LEMMA PolicyUser ==
    ASSUME TypeInv, OwnerInv, RollbackInv,
           \/ CreateApplication \/ EditSpec \/ TouchMetadata \/ DeleteApplication
    PROVE  [Policy!PolicyNext]_(Policy!policyVars)
<1>1. UNCHANGED rollbacks /\ app \in Application
  BY DEF CreateApplication, EditSpec, TouchMetadata, DeleteApplication, UserWrite,
         TypeInv, TypeOK
<1>2. ~Managed => rollbacks = 0
  BY DEF OwnerInv, AppInv, Managed, RollbackInv, FenceInv
<1>3. app.exists \in BOOLEAN
  BY <1>1, ApplicationFields
<1>4. CASE CreateApplication
  <2>1. PICK c \in Charts, r \in RefChoices : app' = Created(app.uid + 1, c, r)
    BY <1>4 DEF CreateApplication, UserWrite, Store
  <2>2. app.exists = FALSE /\ ~Managed
    BY <1>3, <1>4 DEF CreateApplication, Managed
  <2>b. /\ Created(app.uid + 1, c, r).exists = TRUE
        /\ Created(app.uid + 1, c, r).status = EmptyStatus
    BY DEF Created, Absent
  <2>3. app'.exists = TRUE /\ app'.status = EmptyStatus
    BY <2>1, <2>b
  <2>4. QED
    BY <1>1, <1>2, <2>2, <2>3, PolicyReset DEF Policy!PolicyNext
<1>5. CASE EditSpec
  <2>1. PICK c \in Charts, r \in RefChoices :
          app' = [app EXCEPT !.gen = @ + 1, !.chart = c, !.ref = r]
    BY <1>5 DEF EditSpec, UserWrite, Store
  <2>2. app'.status = app.status /\ app'.exists = app.exists
    BY <1>1, <2>1 DEF Application
  <2>3. QED
    BY <1>1, <2>2, PolicyStutter
<1>6. CASE TouchMetadata
  BY <1>1, <1>6, PolicyStutter DEF TouchMetadata, UserWrite, Store
<1>7. CASE DeleteApplication
  <2>1. CASE app.finalizer
    <3>1. app' = [app EXCEPT !.deleting = TRUE, !.gen = @ + 1]
      BY <1>7, <2>1 DEF DeleteApplication, UserWrite, Store
    <3>2. app'.status = app.status /\ app'.exists = app.exists
      BY <1>1, <3>1 DEF Application
    <3>3. QED
      BY <1>1, <3>2, PolicyStutter
  <2>2. CASE ~app.finalizer
    <3>1. app' = Absent(app.uid) /\ app.exists = TRUE /\ ~Managed
      BY <1>3, <1>7, <2>2 DEF DeleteApplication, UserWrite, Store, Managed
    <3>2. app'.exists = FALSE /\ app'.status = EmptyStatus
      BY <3>1, AbsentFields
    <3>3. QED
      BY <1>1, <1>2, <3>1, <3>2, PolicyReset DEF Policy!PolicyNext
  <2>3. QED
    BY <2>1, <2>2
<1>8. QED
  BY <1>4, <1>5, <1>6, <1>7

LEMMA PolicyQuiet ==
    ASSUME TypeInv, NEW h,
           \/ Reconcile \/ BeginInstallOrUpgrade \/ RefuseInstallOrUpgrade
           \/ FinishInstallOrUpgrade \/ FailInstallOrUpgrade
           \/ HealthError \/ reconcileHealth(h) \/ handleUnhealthy(h)
           \/ FinishHelmRollback \/ FailHelmRollback \/ Uninstall
           \/ DeliverEvent \/ EditSecret \/ LoseRelease \/ Crash
           \/ DeadlinePasses \/ UNCHANGED vars
    PROVE  UNCHANGED Policy!policyVars
<1>1. CASE UNCHANGED <<app, rollbacks>>
  BY <1>1, PolicyStutter
<1>2. CASE DeadlinePasses
  <2>1. app' = [app EXCEPT !.status = Expire(@)] /\ UNCHANGED rollbacks
    BY <1>2 DEF DeadlinePasses
  <2>2. /\ app'.status = Expire(app.status) /\ app'.exists = app.exists
        /\ app.status \in Status
    BY <2>1, LateFields, ApplicationFields DEF TypeInv, TypeOK
  <2>3. QED
    BY <2>1, <2>2, ExpireFields, PolicyStutter
<1>3. QED
  BY <1>1, <1>2
     DEF Reconcile, Load, Dequeue, BeginInstallOrUpgrade, RefuseInstallOrUpgrade,
         FinishInstallOrUpgrade, FailInstallOrUpgrade, HealthError,
         reconcileHealth, handleUnhealthy, FinishHelmRollback, FailHelmRollback,
         Uninstall, DeliverEvent, EditSecret, LoseRelease, Crash, vars

LEMMA PolicyStep ==
    ASSUME TypeInv, OwnerInv, RollbackInv, [Next]_vars
    PROVE  [Policy!PolicyNext]_(Policy!policyVars)
<1>1. ASSUME Policy!RollBack
      PROVE  Policy!PolicyNext
  BY <1>1 DEF Policy!PolicyNext
<1>2. QED
  BY <1>1, PolicyWrite, PolicyHelm, PolicyUser, PolicyQuiet
     DEF Next, Controller, Environment

LEMMA PolicyStart == Init => Policy!PolicyInit
BY AbsentFields DEF Init, Policy!PolicyInit, AlreadyRolledBack

(* The reconciler implements RollbackPolicy: the fence is lifted only with *)
(* the desired state it belongs to, and no rollback happens before it is   *)
(* stored.                                                                 *)
THEOREM ReconcilerImplementsPolicy == Spec => ImplementsRollbackPolicy
<1>1. TypeInv /\ OwnerInv /\ RollbackInv /\ [Next]_vars
        => [Policy!PolicyNext]_(Policy!policyVars)
  BY PolicyStep
<1>2. QED
  BY <1>1, PolicyStart, TypeCorrect, OwnerInvariant, RollbackInvariant, PTL
     DEF Spec, ImplementsRollbackPolicy, Policy!PolicySpec

----------------------------------------------------------------------------
(* The Ready condition and the success counter.                            *)

(* What ReadyIsHonest says of the stored status.                           *)
Honest(s) ==
    /\ (s.ready = "True") <=> (s.phase = "Deployed")
    /\ s.ready = "True" =>
         s.lfr = 0 /\ s.healthy = "True" /\ s.readyGen = s.obsGen

(* The status a reconcile is about to write is as honest, because health   *)
(* is looked at only when the generation read is the one applied; and a    *)
(* deployment it is about to report has been counted.                      *)
ReportInv ==
    /\ Honest(app.status)
    /\ pc = "health" => local.status.obsGen = local.gen
    /\ pc \in {"apply", "applying", "applied", "fence"} =>
         Honest(want) /\ want.phase # "Deployed"
    /\ pc = "status" =>
         /\ Honest(want)
         /\ want.phase = "Deployed" => local.status.phase = "Deployed" \/ counted >= 1

(* Every status but Healthy denies both claims.                            *)
LEMMA UnreadyStatuses ==
    ASSUME NEW a \in Application, NEW n, NEW hash
    PROVE  \A s \in {fail(a), Progressing(a), setDegraded(a, n), RollingBack(a),
                     Applied(a, hash)} :
             Honest(s) /\ s.phase # "Deployed"
BY DEF Application, Status, fail, Progressing, setDegraded, RollingBack, Applied, Honest

LEMMA HealthyStatus ==
    ASSUME NEW a \in Application, ~AlreadyRolledBack(a.status), a.status.obsGen = a.gen
    PROVE  Honest(Healthy(a))
BY DEF Application, Status, Healthy, Honest, AlreadyRolledBack

LEMMA EmptyHonest == Honest(EmptyStatus)
BY DEF EmptyStatus, Honest

LEMMA ReportInit == Init => ReportInv
BY AbsentFields, EmptyHonest DEF Init, ReportInv

LEMMA ReportReconcile ==
    ASSUME TypeInv, ReportInv, Reconcile PROVE ReportInv'
<1>1. pc = "idle" /\ UNCHANGED <<app, counted>> /\ cache \in Application
  BY DEF Reconcile, Load, Dequeue, TypeInv, TypeOK
<1>2. CASE UNCHANGED jobVars
  BY <1>1, <1>2 DEF ReportInv, jobVars
<1>3. CASE Load("uninstall", EmptyStatus) \/ Load("addFinalizer", EmptyStatus)
  BY <1>1, <1>3 DEF ReportInv, Load
<1>4. CASE Load("status", fail(cache))
  BY <1>1, <1>4, UnreadyStatuses DEF ReportInv, Load
<1>5. ASSUME NEW hash, Load("apply", Applied(cache, hash)) PROVE ReportInv'
  BY <1>1, <1>5, UnreadyStatuses DEF ReportInv, Load
<1>6. ASSUME NEW hash, ~needsApply(cache, hash), Load("health", EmptyStatus)
      PROVE  ReportInv'
  BY <1>1, <1>6 DEF ReportInv, Load, needsApply
<1> QED  BY <1>2, <1>3, <1>4, <1>5, <1>6 DEF Reconcile

LEMMA ReportWork ==
    ASSUME TypeInv, ReportInv, NEW h,
           \/ BeginInstallOrUpgrade \/ RefuseInstallOrUpgrade
           \/ FinishInstallOrUpgrade \/ FailInstallOrUpgrade
           \/ HealthError \/ reconcileHealth(h) \/ handleUnhealthy(h)
           \/ BeginHelmRollback \/ RefuseHelmRollback
           \/ FinishHelmRollback \/ FailHelmRollback \/ Uninstall
    PROVE  ReportInv'
<1>1. UNCHANGED app /\ local \in Application
  BY DEF BeginInstallOrUpgrade, RefuseInstallOrUpgrade, FinishInstallOrUpgrade,
         FailInstallOrUpgrade, HealthError, reconcileHealth, handleUnhealthy,
         BeginHelmRollback, RefuseHelmRollback, FinishHelmRollback,
         FailHelmRollback, Uninstall, TypeInv, TypeOK
<1>2. ASSUME NEW n, pc' = "status" \/ pc' = "fence",
             want' \in {fail(local), Progressing(local), setDegraded(local, n),
                        RollingBack(local)}
      PROVE  ReportInv'
  BY <1>1, <1>2, UnreadyStatuses DEF ReportInv
<1>3. CASE pc' \in {"idle", "rollingBack", "removeFinalizer"}
  BY <1>1, <1>3 DEF ReportInv
<1>4. CASE BeginInstallOrUpgrade
  BY <1>4 DEF BeginInstallOrUpgrade, ReportInv
<1>5. CASE FinishInstallOrUpgrade
  <2>1. /\ pc = "applying" /\ pc' = "applied"
        /\ want' = [want EXCEPT !.rev = LastRev(history), !.start = "recent"]
        /\ want \in Status
    BY <1>5 DEF FinishInstallOrUpgrade, TypeInv, TypeOK
  <2>2. /\ want'.ready = want.ready /\ want'.phase = want.phase /\ want'.lfr = want.lfr
        /\ want'.healthy = want.healthy /\ want'.readyGen = want.readyGen
        /\ want'.obsGen = want.obsGen
    BY <2>1 DEF Status
  <2> QED  BY <1>1, <2>1, <2>2 DEF ReportInv, Honest
<1>6. CASE RefuseInstallOrUpgrade \/ FailInstallOrUpgrade
  BY <1>2, <1>6 DEF RefuseInstallOrUpgrade, FailInstallOrUpgrade
<1>7. CASE reconcileHealth(h)
  <2>1. CASE Requeue
    BY <1>3, <2>1 DEF Requeue, Return
  <2>2. CASE pc' = "status" /\ want' = Progressing(local)
    BY <1>2, <2>2
  <2>3. CASE /\ ~AlreadyRolledBack(local.status) /\ UNCHANGED local
             /\ pc' = "status" /\ want' = Healthy(local)
             /\ counted' = CountSuccess(local.status)
    <3>1. Honest(Healthy(local))
      BY <1>1, <1>7, <2>3, HealthyStatus DEF reconcileHealth, ReportInv
    <3>2. local.status.phase = "Deployed" \/ counted' >= 1
      BY <2>3 DEF CountSuccess, TypeInv, TypeOK
    <3> QED  BY <1>1, <2>3, <3>1, <3>2 DEF ReportInv
  <2> QED  BY <1>7, <2>1, <2>2, <2>3 DEF reconcileHealth, WriteIfChanged
<1>8. CASE handleUnhealthy(h)
  <2>1. CASE Requeue
    BY <1>3, <2>1 DEF Requeue, Return
  <2>2. CASE pc' = "status" /\ want' = setDegraded(local, local.status.rev)
    BY <1>2, <2>2
  <2>3. CASE pc' = "fence" /\ want' = RollingBack(local)
    BY <1>2, <2>3
  <2> QED  BY <1>8, <2>1, <2>2, <2>3 DEF handleUnhealthy, WriteIfChanged
<1>9. CASE RefuseHelmRollback \/ FinishHelmRollback \/ FailHelmRollback
  BY <1>2, <1>9 DEF RefuseHelmRollback, FinishHelmRollback, FailHelmRollback
<1>10. CASE BeginHelmRollback \/ HealthError \/ Uninstall
  BY <1>3, <1>10 DEF BeginHelmRollback, HealthError, Uninstall, Requeue, Return
<1> QED  BY <1>4, <1>5, <1>6, <1>7, <1>8, <1>9, <1>10

LEMMA ReportWrite ==
    ASSUME TypeInv, OwnerInv, ReportInv,
           \/ AddFinalizer \/ RecordApplied \/ RecordFailedRevision
           \/ WriteStatus \/ RemoveFinalizer
    PROVE  ReportInv'
<1>1. pc' \in {"idle", "rollback"}
  BY DEF AddFinalizer, RecordApplied, RecordFailedRevision, WriteStatus, RemoveFinalizer,
         Requeue, Finish, Return
<1>2. ASSUME Honest(app'.status) PROVE ReportInv'
  BY <1>1, <1>2 DEF ReportInv
<1>3. CASE UNCHANGED app
  BY <1>2, <1>3 DEF ReportInv
<1>4. CASE AddFinalizer
  <2>1. CASE Commit([local EXCEPT !.finalizer = TRUE])
    <3>1. local = app /\ local \in Application /\ app' = [local EXCEPT !.finalizer = TRUE]
      BY <2>1 DEF Commit, Store, OwnerInv, CopiesInv, TypeInv, TypeOK
    <3>2. app'.status = app.status
      BY <3>1 DEF Application
    <3> QED  BY <1>2, <3>2 DEF ReportInv
  <2> QED  BY <1>3, <1>4, <2>1 DEF AddFinalizer, Refuse, apiVars
<1>5. CASE RecordApplied \/ RecordFailedRevision \/ WriteStatus
  <2>1. CASE CommitStatus(want)
    BY <1>2, <1>5, <2>1, CommittedStatus
       DEF RecordApplied, RecordFailedRevision, WriteStatus, ReportInv
  <2> QED  BY <1>3, <1>5, <2>1
           DEF RecordApplied, RecordFailedRevision, WriteStatus, Refuse, apiVars
<1>6. CASE RemoveFinalizer
  <2>1. app' = Absent(app.uid) \/ UNCHANGED app
    BY <1>6 DEF RemoveFinalizer, Commit, Store, Refuse, apiVars
  <2> QED  BY <1>2, <1>3, <2>1, AbsentFields, EmptyHonest
<1> QED  BY <1>4, <1>5, <1>6

LEMMA ReportUser ==
    ASSUME TypeInv, ReportInv,
           \/ CreateApplication \/ EditSpec \/ TouchMetadata \/ DeleteApplication
    PROVE  ReportInv'
<1>1. UNCHANGED <<pc, local, want, counted>> /\ app \in Application
  BY DEF CreateApplication, EditSpec, TouchMetadata, DeleteApplication, UserWrite,
         TypeInv, TypeOK
<1>2. ASSUME app'.status \in {app.status, EmptyStatus} PROVE ReportInv'
  BY <1>1, <1>2, EmptyHonest DEF ReportInv
<1>3. CASE CreateApplication
  <2>1. PICK c \in Charts, r \in RefChoices : app' = Created(app.uid + 1, c, r)
    BY <1>3 DEF CreateApplication, UserWrite, Store
  <2>2. Created(app.uid + 1, c, r).status = EmptyStatus
    BY DEF Created, Absent
  <2> QED  BY <1>2, <2>1, <2>2
<1>4. CASE EditSpec
  <2>1. PICK c \in Charts, r \in RefChoices :
          app' = [app EXCEPT !.gen = @ + 1, !.chart = c, !.ref = r]
    BY <1>4 DEF EditSpec, UserWrite, Store
  <2>2. app'.status = app.status
    BY <1>1, <2>1 DEF Application
  <2> QED  BY <1>2, <2>2
<1>5. CASE TouchMetadata
  BY <1>2, <1>5 DEF TouchMetadata, UserWrite, Store
<1>6. CASE DeleteApplication
  <2>1. app' = [app EXCEPT !.deleting = TRUE, !.gen = @ + 1] \/ app' = Absent(app.uid)
    BY <1>6 DEF DeleteApplication, UserWrite, Store
  <2>2. app'.status \in {app.status, EmptyStatus}
    BY <1>1, <2>1, AbsentFields DEF Application
  <2> QED  BY <1>2, <2>2
<1> QED  BY <1>3, <1>4, <1>5, <1>6

LEMMA ReportOther ==
    ASSUME TypeInv, ReportInv,
           \/ DeliverEvent \/ DeadlinePasses \/ EditSecret \/ LoseRelease
           \/ Crash \/ UNCHANGED vars
    PROVE  ReportInv'
<1>1. CASE DeliverEvent \/ EditSecret \/ LoseRelease \/ UNCHANGED vars
  <2>1. UNCHANGED <<app, pc, local, want, counted>>
    BY <1>1 DEF DeliverEvent, EditSecret, LoseRelease, vars, jobVars
  <2> QED  BY <2>1 DEF ReportInv
<1>2. CASE Crash
  BY <1>2 DEF Crash, Return, ReportInv
<1>3. CASE DeadlinePasses
  <2>1. /\ app' = [app EXCEPT !.status = Expire(@)]
        /\ local' = [local EXCEPT !.status = Expire(@)]
        /\ want' = Expire(want) /\ UNCHANGED <<pc, counted>>
    BY <1>3 DEF DeadlinePasses
  <2>2. app \in Application /\ local \in Application /\ want \in Status
    BY DEF TypeInv, TypeOK
  <2>3. /\ app'.status = Expire(app.status) /\ local'.status = Expire(local.status)
        /\ local'.gen = local.gen /\ app.status \in Status /\ local.status \in Status
    BY <2>1, <2>2, LateFields, ApplicationFields
  <2>4. ASSUME NEW st \in Status, Honest(st) PROVE Honest(Expire(st))
    BY <2>4, ExpireFields DEF Honest
  <2>5. Honest(app'.status) /\ (Honest(want) => Honest(want'))
    BY <2>1, <2>2, <2>3, <2>4 DEF ReportInv
  <2>6. /\ want'.phase = want.phase /\ local'.status.phase = local.status.phase
        /\ local'.status.obsGen = local.status.obsGen
    BY <2>1, <2>2, <2>3, ExpireFields
  <2> QED  BY <2>1, <2>3, <2>5, <2>6 DEF ReportInv
<1> QED  BY <1>1, <1>2, <1>3

LEMMA ReportNext ==
    ASSUME TypeInv, OwnerInv, ReportInv, [Next]_vars PROVE ReportInv'
BY ReportReconcile, ReportWork, ReportWrite, ReportUser, ReportOther
   DEF Next, Controller, Environment

THEOREM ReportInvariant == Spec => []ReportInv
<1>1. TypeInv /\ OwnerInv /\ ReportInv /\ [Next]_vars => ReportInv'
  BY ReportNext
<1> QED  BY <1>1, TypeCorrect, OwnerInvariant, ReportInit, PTL DEF Spec

(* Ready and Deployed are one claim, never made for a rolled back state,   *)
(* and stamped with the generation that was applied (health.go and         *)
(* reconcileHealth, which set phase and condition together).               *)
THEOREM ReadyIsKeptHonest == Spec => []ReadyIsHonest
<1>1. ReportInv => ReadyIsHonest
  BY DEF ReportInv, Honest, ReadyIsHonest
<1> QED  BY <1>1, ReportInvariant, PTL

(* Only the write that ends a reconcile turns the stored phase Deployed.   *)
LEMMA DeployedStep ==
    ASSUME TypeInv, OwnerInv, ReportInv, [Next]_vars,
           app'.status.phase = "Deployed", app.status.phase # "Deployed"
    PROVE  counted' >= 1
<1>a. app \in Application /\ local \in Application
  BY DEF TypeInv, TypeOK
<1>b. EmptyStatus.phase # "Deployed"
  BY DEF EmptyStatus
<1>c. app'.status # app.status /\ app'.status # EmptyStatus
  BY <1>b
<1>1. CASE CommitStatus(want) /\ (RecordApplied \/ RecordFailedRevision \/ WriteStatus)
  <2>1. app'.status = want /\ local = app
    BY <1>1, CommittedStatus
  <2>2. pc = "status" /\ counted >= 1
    BY <1>1, <2>1 DEF RecordApplied, RecordFailedRevision, WriteStatus, ReportInv
  <2> QED  BY <1>1, <2>1, <2>2 DEF CommitStatus
<1>2. CASE AddFinalizer /\ Commit([local EXCEPT !.finalizer = TRUE])
  <2>1. local = app /\ app' = [local EXCEPT !.finalizer = TRUE]
    BY <1>2 DEF Commit, Store, OwnerInv, CopiesInv
  <2> QED  BY <1>a, <1>c, <2>1 DEF Application
<1>3. CASE app' = Absent(app.uid)
  BY <1>c, <1>3, AbsentFields
<1>4. CASE CreateApplication
  <2>1. PICK c \in Charts, r \in RefChoices : app' = Created(app.uid + 1, c, r)
    BY <1>4 DEF CreateApplication, UserWrite, Store
  <2>2. Created(app.uid + 1, c, r).status = EmptyStatus
    BY DEF Created, Absent
  <2> QED  BY <1>c, <2>1, <2>2
<1>5. CASE EditSpec \/ TouchMetadata \/ DeleteApplication
  <2>1. CASE EditSpec
    BY <1>a, <1>c, <2>1 DEF EditSpec, UserWrite, Store, Application
  <2>2. CASE TouchMetadata
    BY <1>c, <2>2 DEF TouchMetadata, UserWrite, Store
  <2>3. CASE DeleteApplication
    BY <1>a, <1>c, <1>3, <2>3 DEF DeleteApplication, UserWrite, Store, Application
  <2> QED  BY <1>5, <2>1, <2>2, <2>3
<1>6. CASE DeadlinePasses
  BY <1>a, <1>6, LateFields, ExpireFields, ApplicationFields DEF DeadlinePasses
<1>7. CASE UNCHANGED app
  BY <1>c, <1>7
<1>8. CASE AddFinalizer \/ RecordApplied \/ RecordFailedRevision \/ WriteStatus
             \/ RemoveFinalizer
  BY <1>1, <1>2, <1>3, <1>7, <1>8
     DEF AddFinalizer, RecordApplied, RecordFailedRevision, WriteStatus, RemoveFinalizer,
         Commit, Store, Refuse, apiVars
<1>9. ASSUME NEW h,
             \/ Reconcile \/ BeginInstallOrUpgrade \/ RefuseInstallOrUpgrade
             \/ FinishInstallOrUpgrade \/ FailInstallOrUpgrade
             \/ HealthError \/ reconcileHealth(h) \/ handleUnhealthy(h)
             \/ BeginHelmRollback \/ RefuseHelmRollback
             \/ FinishHelmRollback \/ FailHelmRollback \/ Uninstall
             \/ DeliverEvent \/ EditSecret \/ LoseRelease \/ Crash \/ UNCHANGED vars
      PROVE  UNCHANGED app
  BY <1>9
     DEF Reconcile, Load, Dequeue, BeginInstallOrUpgrade, RefuseInstallOrUpgrade,
         FinishInstallOrUpgrade, FailInstallOrUpgrade, HealthError, reconcileHealth,
         handleUnhealthy, BeginHelmRollback, RefuseHelmRollback, FinishHelmRollback,
         FailHelmRollback, Uninstall, DeliverEvent, EditSecret, LoseRelease, Crash, vars
<1> QED  BY <1>4, <1>5, <1>6, <1>7, <1>8, <1>9 DEF Next, Controller, Environment

(* The success counter misses no deployment (metrics.go: it "counts        *)
(* transitions into the Deployed (healthy) phase"): whenever the stored    *)
(* phase turns Deployed, this process has counted it.                      *)
THEOREM NoDeploymentIsMissed == Spec => DeployedIsCounted
<1>1. TypeInv /\ OwnerInv /\ ReportInv /\ [Next]_vars
        => [app'.status.phase = "Deployed" /\ app.status.phase # "Deployed"
              => counted' >= 1]_vars
  BY DeployedStep
<1> QED  BY <1>1, TypeCorrect, OwnerInvariant, ReportInvariant, PTL
         DEF Spec, DeployedIsCounted

----------------------------------------------------------------------------
(* Ready for the current generation, and the release that runs.            *)

(* The current generation is the one recorded as applied.                  *)
Recorded == app.exists /\ app.status.obsGen = app.gen

SameSpec(a, b) == a.gen = b.gen /\ a.chart = b.chart /\ a.ref = b.ref

(* A generation can be recorded only from a version the cache had caught   *)
(* up with: from then on until the next edit, every copy has its spec.     *)
AgreeInv ==
    /\ app.status.obsGen <= app.gen
    /\ Recorded \/ fresh => SameSpec(cache, app) /\ \A i \in 1 .. Len(lag) : SameSpec(lag[i], app)
    /\ Recorded /\ pc # "idle" => SameSpec(local, app)

(* The revision runs the chart of the spec, and values exactly if that     *)
(* names a Secret.                                                         *)
Runs(r, a) == r.chart = a.chart /\ (r.values = NoValues <=> ~a.ref)

(* What is about to be installed, or just has been, is the spec at hand;   *)
(* and the newest revision is of the recorded spec, except after a rollback.*)
RunsInv ==
    /\ pc = "apply" => (want.hash = NoValues <=> ~local.ref)
    /\ pc \in {"applying", "applied"} /\ history # {} => Runs(Get(history), local)
    /\ Recorded /\ ~AlreadyRolledBack(app.status) /\ history # {} =>
         Runs(Get(history), app)

LEMMA AgreeInit == Init => AgreeInv /\ RunsInv
<1> SUFFICES ASSUME Init PROVE AgreeInv /\ RunsInv
  OBVIOUS
<1>1. /\ app.exists = FALSE /\ fresh = FALSE /\ history = {} /\ pc = "idle"
      /\ app.status.obsGen = 0 /\ app.gen = 0
  BY DEF Init, Absent, EmptyStatus
<1> QED  BY <1>1 DEF AgreeInv, RunsInv, Recorded

(* A step that writes nothing and carries nothing new.                     *)
LEMMA AgreeQuiet ==
    ASSUME AgreeInv, UNCHANGED <<app, cache, lag>>, fresh' => fresh,
           pc' = "idle" \/ (pc # "idle" /\ local' = local)
    PROVE  AgreeInv'
BY DEF AgreeInv, Recorded, SameSpec

(* A write after which the current generation is not the recorded one.     *)
LEMMA AgreeUnrecorded ==
    ASSUME app'.status.obsGen <= app'.gen, ~Recorded', fresh' = FALSE
    PROVE  AgreeInv'
BY DEF AgreeInv

LEMMA AgreeAbsent == ASSUME NEW u, app' = Absent(u), fresh' = FALSE PROVE AgreeInv'
<1>1. Absent(u).exists = FALSE /\ Absent(u).gen = 0 /\ Absent(u).status.obsGen = 0
  BY DEF Absent, EmptyStatus
<1>2. app'.exists = FALSE /\ app'.gen = 0 /\ app'.status.obsGen = 0
  BY <1>1
<1>3. app'.status.obsGen <= app'.gen
  BY <1>2
<1>4. ~Recorded'
  BY <1>2 DEF Recorded
<1> QED  BY <1>3, <1>4, AgreeUnrecorded

(* A write that keeps the spec.                                            *)
LEMMA AgreeSame ==
    ASSUME TypeInv, AgreeInv, Recorded \/ fresh, NEW obj \in Application, Store(obj),
           SameSpec(obj, app), obj.status.obsGen <= obj.gen, cache' = cache,
           pc' # "idle" => local' = obj \/ (local' = local /\ SameSpec(local, app))
    PROVE  AgreeInv'
<1>1. /\ app' = obj /\ lag' = Append(lag, obj) /\ lag \in Seq(Application)
      /\ Len(lag) \in Nat
  BY LenProperties DEF Store, TypeInv, TypeOK
<1>2. app'.gen = app.gen /\ app'.chart = app.chart /\ app'.ref = app.ref
  BY <1>1 DEF SameSpec
<1>3. ASSUME NEW i \in 1 .. Len(lag') PROVE SameSpec(lag'[i], app')
  <2>1. CASE i \in 1 .. Len(lag)
    <3>1. lag'[i] = lag[i] /\ SameSpec(lag[i], app)
      BY <1>1, <2>1 DEF AgreeInv
    <3> QED  BY <1>2, <3>1 DEF SameSpec
  <2>2. CASE i \notin 1 .. Len(lag)
    <3>1. lag'[i] = obj
      BY <1>1, <1>3, <2>2
    <3> QED  BY <1>1, <3>1 DEF SameSpec
  <2> QED  BY <2>1, <2>2
<1>4. SameSpec(cache', app') /\ app'.status.obsGen <= app'.gen
  BY <1>1, <1>2 DEF AgreeInv, SameSpec
<1>5. pc' # "idle" => SameSpec(local', app')
  BY <1>1, <1>2 DEF SameSpec
<1> QED  BY <1>3, <1>4, <1>5 DEF AgreeInv

LEMMA AgreeReconcile ==
    ASSUME TypeInv, OwnerInv, AgreeInv, Reconcile PROVE AgreeInv'
<1>1. pc = "idle" /\ UNCHANGED <<app, cache, lag>>
  BY DEF Reconcile, Load, Dequeue
<1>2. CASE UNCHANGED jobVars
  BY <1>1, <1>2 DEF AgreeInv, Recorded, SameSpec, jobVars
<1>3. ASSUME NEW next, NEW st, Load(next, st) PROVE AgreeInv'
  <2>1. local' = cache /\ fresh' = (lag = <<>>)
    BY <1>3 DEF Load
  <2>2. fresh' => SameSpec(cache, app) /\ \A i \in 1 .. Len(lag) : SameSpec(lag[i], app)
    <3>1. lag = <<>> => cache = app /\ 1 .. Len(lag) = {}
      BY EmptySeq DEF OwnerInv, CopiesInv
    <3> QED  BY <2>1, <3>1 DEF SameSpec
  <2> QED  BY <1>1, <2>1, <2>2 DEF AgreeInv, Recorded, SameSpec
<1> QED  BY <1>2, <1>3 DEF Reconcile

LEMMA AgreeWork ==
    ASSUME AgreeInv, NEW h,
           \/ BeginInstallOrUpgrade \/ RefuseInstallOrUpgrade
           \/ FinishInstallOrUpgrade \/ FailInstallOrUpgrade
           \/ HealthError \/ reconcileHealth(h) \/ handleUnhealthy(h)
           \/ BeginHelmRollback \/ RefuseHelmRollback
           \/ FinishHelmRollback \/ FailHelmRollback \/ Uninstall
    PROVE  AgreeInv'
<1>1. UNCHANGED <<app, cache, lag>> /\ pc # "idle"
  BY DEF BeginInstallOrUpgrade, RefuseInstallOrUpgrade, FinishInstallOrUpgrade,
         FailInstallOrUpgrade, HealthError, reconcileHealth, handleUnhealthy,
         BeginHelmRollback, RefuseHelmRollback, FinishHelmRollback,
         FailHelmRollback, Uninstall
<1>2. UNCHANGED <<local, fresh>> \/ (pc' = "idle" /\ fresh' = FALSE)
  BY DEF BeginInstallOrUpgrade, RefuseInstallOrUpgrade, FinishInstallOrUpgrade,
         FailInstallOrUpgrade, HealthError, reconcileHealth, handleUnhealthy,
         WriteIfChanged, BeginHelmRollback, RefuseHelmRollback, FinishHelmRollback,
         FailHelmRollback, Uninstall, Requeue, Return
<1> QED  BY <1>1, <1>2, AgreeQuiet

LEMMA AgreeWrite ==
    ASSUME TypeInv, OwnerInv, RollbackInv, AgreeInv,
           \/ AddFinalizer \/ RecordApplied \/ RecordFailedRevision
           \/ WriteStatus \/ RemoveFinalizer
    PROVE  AgreeInv'
<1>1. pc # "idle" /\ UNCHANGED cache /\ local \in Application /\ app \in Application
  BY DEF AddFinalizer, RecordApplied, RecordFailedRevision, WriteStatus, RemoveFinalizer,
         TypeInv, TypeOK
<1>2. ASSUME UNCHANGED <<app, lag>>, pc' = "idle", fresh' = FALSE PROVE AgreeInv'
  BY <1>1, <1>2, AgreeQuiet
<1>3. CASE Refuse /\ Requeue
  BY <1>2, <1>3 DEF Refuse, apiVars, Requeue, Return
<1>4. CASE AddFinalizer /\ Commit([local EXCEPT !.finalizer = TRUE])
  <2> DEFINE obj == [local EXCEPT !.finalizer = TRUE]
  <2>1. fresh /\ local = app /\ Store(obj) /\ pc' = "idle"
    BY <1>4 DEF AddFinalizer, Commit, Finish, Requeue, Return, OwnerInv, CopiesInv
  <2>2. /\ obj \in Application /\ SameSpec(obj, app) /\ obj.gen = app.gen
        /\ obj.status = app.status
    BY <1>1, <2>1 DEF Application, SameSpec
  <2>3. obj.status.obsGen <= obj.gen
    BY <2>2 DEF AgreeInv
  <2> HIDE DEF obj
  <2> QED  BY <1>1, <2>1, <2>2, <2>3, AgreeSame
<1>5. ASSUME CommitStatus(want), want.obsGen <= local.gen,
             pc' = "idle" \/ local' = app'
      PROVE  AgreeInv'
  <2> DEFINE obj == [local EXCEPT !.status = want]
  <2>1. fresh /\ local = app /\ Store(obj) /\ app' = obj
    BY <1>5 DEF CommitStatus, Commit, Store, OwnerInv, CopiesInv
  <2>2. /\ obj \in Application /\ SameSpec(obj, app) /\ obj.gen = local.gen
        /\ obj.status = want
    BY <1>1, <2>1 DEF Application, SameSpec, TypeInv, TypeOK
  <2> HIDE DEF obj
  <2> QED  BY <1>1, <1>5, <2>1, <2>2, AgreeSame
<1>6. CASE RecordApplied
  <2>1. want.obsGen <= local.gen
    BY <1>1, <1>6, ApplicationFields DEF RecordApplied, RollbackInv, CarryInv
  <2> QED  BY <1>3, <1>5, <1>6, <2>1 DEF RecordApplied, Requeue, Return
<1>7. CASE RecordFailedRevision \/ WriteStatus
  <2>1. ASSUME CommitStatus(want) PROVE want.obsGen <= local.gen
    <3>1. local = app
      BY <2>1, CommittedStatus
    <3> QED  BY <1>7, <3>1
             DEF RecordFailedRevision, WriteStatus, RollbackInv, CarryInv, AgreeInv
  <2>2. CASE RecordFailedRevision
    BY <1>3, <1>5, <2>1, <2>2 DEF RecordFailedRevision, Requeue, Return
  <2>3. CASE WriteStatus
    BY <1>2, <1>3, <1>5, <2>1, <2>3 DEF WriteStatus, Requeue, Return
  <2> QED  BY <1>7, <2>2, <2>3
<1>8. CASE RemoveFinalizer /\ Commit(Absent(app.uid))
  <2>1. app' = Absent(app.uid) /\ fresh' = FALSE
    BY <1>8 DEF RemoveFinalizer, Commit, Store, Finish, Requeue, Return
  <2> QED  BY <2>1, AgreeAbsent
<1> QED  BY <1>3, <1>4, <1>6, <1>7, <1>8 DEF AddFinalizer, RemoveFinalizer

LEMMA AgreeUser ==
    ASSUME TypeInv, AgreeInv,
           \/ CreateApplication \/ EditSpec \/ TouchMetadata \/ DeleteApplication
    PROVE  AgreeInv'
<1>1. /\ UNCHANGED <<cache, pc, local>> /\ fresh' = FALSE /\ app \in Application
      /\ app.gen \in Nat /\ app.status.obsGen \in Nat /\ app.status.obsGen <= app.gen
  BY ApplicationFields, StatusFields
     DEF CreateApplication, EditSpec, TouchMetadata, DeleteApplication, UserWrite,
         TypeInv, TypeOK, AgreeInv
<1>2. CASE CreateApplication
  <2>1. PICK c \in Charts, r \in RefChoices : app' = Created(app.uid + 1, c, r)
    BY <1>2 DEF CreateApplication, UserWrite, Store
  <2>2. Created(app.uid + 1, c, r).gen = 1 /\ Created(app.uid + 1, c, r).status.obsGen = 0
    BY DEF Created, Absent, EmptyStatus
  <2>3. app'.status.obsGen <= app'.gen /\ ~Recorded'
    BY <2>1, <2>2 DEF Recorded
  <2> QED  BY <1>1, <2>3, AgreeUnrecorded
<1>3. ASSUME app'.gen = app.gen + 1, app'.status = app.status PROVE AgreeInv'
  <2>1. app'.status.obsGen <= app'.gen /\ ~Recorded'
    BY <1>1, <1>3 DEF Recorded
  <2> QED  BY <1>1, <2>1, AgreeUnrecorded
<1>4. CASE EditSpec
  <2>1. PICK c \in Charts, r \in RefChoices :
          app' = [app EXCEPT !.gen = @ + 1, !.chart = c, !.ref = r]
    BY <1>4 DEF EditSpec, UserWrite, Store
  <2> QED  BY <1>1, <1>3, <2>1 DEF Application
<1>5. CASE TouchMetadata
  <2>1. Store(app) /\ app' = app
    BY <1>5 DEF TouchMetadata, UserWrite, Store
  <2>2. CASE Recorded
    BY <1>1, <2>1, <2>2, AgreeSame DEF SameSpec, AgreeInv
  <2>3. CASE ~Recorded
    BY <1>1, <2>1, <2>3, AgreeUnrecorded DEF Recorded
  <2> QED  BY <2>2, <2>3
<1>6. CASE DeleteApplication
  <2>1. CASE app' = [app EXCEPT !.deleting = TRUE, !.gen = @ + 1]
    BY <1>1, <1>3, <2>1 DEF Application
  <2>2. CASE app' = Absent(app.uid)
    BY <1>1, <2>2, AgreeAbsent
  <2> QED  BY <1>6, <2>1, <2>2 DEF DeleteApplication, UserWrite, Store
<1> QED  BY <1>2, <1>4, <1>5, <1>6

LEMMA LateSpec ==
    ASSUME NEW a \in Application
    PROVE  LET b == [a EXCEPT !.status = Expire(@)]
           IN  /\ SameSpec(b, a) /\ b.exists = a.exists
               /\ b.status.obsGen = a.status.obsGen
BY ExpireFields, ApplicationFields DEF Application, SameSpec

LEMMA AgreeDeadlinePasses ==
    ASSUME TypeInv, AgreeInv, DeadlinePasses
    PROVE  AgreeInv'
<1> DEFINE Late(a) == [a EXCEPT !.status = Expire(@)]
<1>1. /\ app' = Late(app) /\ cache' = Late(cache) /\ local' = Late(local)
      /\ lag' = [i \in 1 .. Len(lag) |-> Late(lag[i])]
      /\ UNCHANGED <<pc, fresh>>
  BY DEF DeadlinePasses
<1>2. /\ app \in Application /\ cache \in Application /\ local \in Application
      /\ lag \in Seq(Application) /\ Len(lag) \in Nat
      /\ \A i \in 1 .. Len(lag) : lag[i] \in Application
  BY LenProperties, ElementOfSeq DEF TypeInv, TypeOK
<1>3. \A a \in Application :
        /\ Late(a).gen = a.gen /\ Late(a).chart = a.chart /\ Late(a).ref = a.ref
        /\ Late(a).exists = a.exists /\ Late(a).status.obsGen = a.status.obsGen
  BY LateSpec DEF SameSpec
<1> HIDE DEF Late
<1>4. /\ Len(lag') = Len(lag)
      /\ \A i \in 1 .. Len(lag) : lag'[i] = Late(lag[i])
  <2>1. lag' \in Seq(Application)
    BY TypeDeadlinePasses DEF TypeInv, TypeOK
  <2>2. DOMAIN lag' = 1 .. Len(lag)
    BY <1>1
  <2> QED  BY <1>1, <1>2, <2>1, <2>2, LenProperties
<1>5. /\ app'.gen = app.gen /\ app'.chart = app.chart /\ app'.ref = app.ref
      /\ app'.exists = app.exists /\ app'.status.obsGen = app.status.obsGen
      /\ cache'.gen = cache.gen /\ cache'.chart = cache.chart /\ cache'.ref = cache.ref
      /\ local'.gen = local.gen /\ local'.chart = local.chart /\ local'.ref = local.ref
      /\ \A i \in 1 .. Len(lag) :
           /\ lag'[i].gen = lag[i].gen /\ lag'[i].chart = lag[i].chart
           /\ lag'[i].ref = lag[i].ref
  BY <1>1, <1>2, <1>3, <1>4
<1> QED  BY <1>1, <1>4, <1>5 DEF AgreeInv, Recorded, SameSpec

LEMMA AgreeOther ==
    ASSUME TypeInv, AgreeInv,
           DeliverEvent \/ EditSecret \/ LoseRelease \/ Crash \/ UNCHANGED vars
    PROVE  AgreeInv'
<1>1. CASE EditSecret \/ LoseRelease \/ UNCHANGED vars
  BY <1>1 DEF EditSecret, LoseRelease, vars, jobVars, AgreeInv, Recorded, SameSpec
<1>2. CASE DeliverEvent
  <2>1. lag \in Seq(Application) /\ lag # <<>> /\ cache' = Head(lag) /\ lag' = Tail(lag)
        /\ UNCHANGED <<app, pc, local, fresh>>
    BY <1>2 DEF DeliverEvent, jobVars, TypeInv, TypeOK
  <2>2. /\ Head(lag) = lag[1] /\ 1 \in 1 .. Len(lag)
        /\ \A i \in 1 .. Len(Tail(lag)) :
             i + 1 \in 1 .. Len(lag) /\ Tail(lag)[i] = lag[i + 1]
    BY <2>1
  <2>3. Recorded \/ fresh =>
          SameSpec(lag[1], app) /\ \A i \in 1 .. Len(Tail(lag)) : SameSpec(Tail(lag)[i], app)
    BY <2>2 DEF AgreeInv
  <2> QED  BY <2>1, <2>2, <2>3 DEF AgreeInv, Recorded, SameSpec
<1>3. CASE Crash
  <2>1. cache' = app /\ lag' = <<>> /\ pc' = "idle" /\ fresh' = FALSE /\ app' = app
    BY <1>3 DEF Crash, Return
  <2>2. 1 .. Len(lag') = {}
    BY <2>1
  <2> QED  BY <2>1, <2>2 DEF AgreeInv, Recorded, SameSpec
<1> QED  BY <1>1, <1>2, <1>3

LEMMA AgreeNext ==
    ASSUME TypeInv, OwnerInv, RollbackInv, AgreeInv, [Next]_vars PROVE AgreeInv'
<1>1. CASE Reconcile
  BY <1>1, AgreeReconcile
<1>2. ASSUME NEW h,
             \/ BeginInstallOrUpgrade \/ RefuseInstallOrUpgrade
             \/ FinishInstallOrUpgrade \/ FailInstallOrUpgrade
             \/ HealthError \/ reconcileHealth(h) \/ handleUnhealthy(h)
             \/ BeginHelmRollback \/ RefuseHelmRollback
             \/ FinishHelmRollback \/ FailHelmRollback \/ Uninstall
      PROVE  AgreeInv'
  BY <1>2, AgreeWork
<1>3. CASE AddFinalizer \/ RecordApplied \/ RecordFailedRevision \/ WriteStatus
             \/ RemoveFinalizer
  BY <1>3, AgreeWrite
<1>4. CASE CreateApplication \/ EditSpec \/ TouchMetadata \/ DeleteApplication
  BY <1>4, AgreeUser
<1>5. CASE DeadlinePasses
  BY <1>5, AgreeDeadlinePasses
<1>6. CASE DeliverEvent \/ EditSecret \/ LoseRelease \/ Crash \/ UNCHANGED vars
  BY <1>6, AgreeOther
<1> QED  BY <1>1, <1>2, <1>3, <1>4, <1>5, <1>6 DEF Next, Controller, Environment

(* A step that at most loses the release, and records nothing new.         *)
LEMMA RunsSame ==
    ASSUME RunsInv, history' = history \/ history' = {},
           pc' = "apply" => pc = "apply" /\ want'.hash = want.hash /\ local'.ref = local.ref,
           pc' \in {"applying", "applied"} =>
             /\ pc \in {"applying", "applied"}
             /\ local'.chart = local.chart /\ local'.ref = local.ref,
           Recorded' /\ app'.status.lfr = 0 =>
             /\ Recorded /\ app.status.lfr = 0
             /\ app'.chart = app.chart /\ app'.ref = app.ref
    PROVE  RunsInv'
BY DEF RunsInv, Runs, AlreadyRolledBack

(* A step of Helm: either what it installs is of the spec at hand, or it   *)
(* keeps what is newest.                                                   *)
LEMMA RunsHelm ==
    ASSUME TypeInv, SoundHistory(history), RollbackInv, AgreeInv, RunsInv,
           \/ BeginInstallOrUpgrade \/ FinishInstallOrUpgrade \/ FailInstallOrUpgrade
           \/ BeginHelmRollback \/ FinishHelmRollback \/ FailHelmRollback \/ Uninstall
    PROVE  RunsInv'
<1>1. UNCHANGED app
  BY DEF BeginInstallOrUpgrade, FinishInstallOrUpgrade, FailInstallOrUpgrade,
         BeginHelmRollback, FinishHelmRollback, FailHelmRollback, Uninstall
<1>2. CASE BeginInstallOrUpgrade
  <2>1. /\ Get(history').chart = local.chart /\ Get(history').values = want.hash
        /\ UNCHANGED local /\ pc = "apply" /\ pc' = "applying"
    BY <1>2, BeginApplyContent, ApplicationFields, StatusFields
       DEF BeginInstallOrUpgrade, TypeInv, TypeOK, Hashes
  <2>2. Runs(Get(history'), local)
    BY <2>1 DEF RunsInv, Runs
  <2> QED  BY <1>1, <2>1, <2>2 DEF AgreeInv, Recorded, SameSpec, RunsInv, Runs
<1>3. CASE BeginHelmRollback
  BY <1>1, <1>3 DEF BeginHelmRollback, RollbackInv, CarryInv, RunsInv
<1>4. ASSUME UNCHANGED local, pc' # "apply", pc' \in {"applying", "applied"} => pc \in {"applying", "applied"},
             NEW k, history' = k, history = {} => k = {},
             history # {} => SameContent(Get(k), Get(history))
      PROVE  RunsInv'
  BY <1>1, <1>4 DEF RunsInv, Runs, SameContent, Recorded
<1>5. \A S, st : SetStatus({}, S, st) = {}
  BY DEF SetStatus
<1>6. CASE FinishInstallOrUpgrade
  <2>1. UNCHANGED local /\ pc = "applying" /\ pc' = "applied" /\ history' = FinishApply(history)
    BY <1>6 DEF FinishInstallOrUpgrade
  <2> QED  BY <1>4, <1>5, <2>1, OperationsKeepContent DEF FinishApply
<1>7. CASE FailInstallOrUpgrade
  <2>1. UNCHANGED local /\ pc' = "status" /\ history' = FailApply(history)
    BY <1>7 DEF FailInstallOrUpgrade
  <2> QED  BY <1>4, <1>5, <2>1, OperationsKeepContent DEF FailApply
<1>8. CASE FinishHelmRollback
  <2>1. UNCHANGED local /\ pc' = "status" /\ history' = FinishRollback(history)
    BY <1>8 DEF FinishHelmRollback
  <2> QED  BY <1>4, <1>5, <2>1, OperationsKeepContent DEF FinishRollback
<1>9. CASE FailHelmRollback
  <2>1. UNCHANGED local /\ pc' = "status" /\ history' = FailRollback(history)
    BY <1>9 DEF FailHelmRollback
  <2> QED  BY <1>4, <1>5, <2>1, OperationsKeepContent DEF FailRollback
<1>10. CASE Uninstall
  <2>1. pc' \in {"removeFinalizer", "idle"}
        /\ history' \in {history, FailUninstall(history), {}}
    BY <1>10 DEF Uninstall, Requeue, Return, FinishUninstall
  <2>2. CASE history' = FailUninstall(history)
    <3>1. history = {} => history' = {}
      BY <1>5, <2>2 DEF FailUninstall
    <3>2. history # {} => SameContent(Get(history'), Get(history))
      BY <2>2, OperationsKeepContent
    <3> QED  BY <1>1, <2>1, <3>1, <3>2 DEF RunsInv, Runs, SameContent, Recorded
  <2>3. CASE history' = history \/ history' = {}
    BY <1>1, <2>1, <2>3, RunsSame DEF Recorded
  <2> QED  BY <2>1, <2>2, <2>3
<1> QED  BY <1>2, <1>3, <1>6, <1>7, <1>8, <1>9, <1>10

(* Only RecordApplied records a generation, when Helm has installed it.    *)
LEMMA RunsWrite ==
    ASSUME TypeInv, OwnerInv, RollbackInv, AgreeInv, RunsInv,
           \/ AddFinalizer \/ RecordApplied \/ RecordFailedRevision
           \/ WriteStatus \/ RemoveFinalizer
    PROVE  RunsInv'
<1>1. UNCHANGED history /\ pc' \in {"idle", "rollback"}
  BY DEF AddFinalizer, RecordApplied, RecordFailedRevision, WriteStatus, RemoveFinalizer,
         Finish, Requeue, Return
<1>2. CASE UNCHANGED app
  BY <1>1, <1>2, RunsSame DEF Recorded
<1>3. CASE AddFinalizer /\ Commit([local EXCEPT !.finalizer = TRUE])
  <2>1. local = app /\ app \in Application /\ app' = [app EXCEPT !.finalizer = TRUE]
    BY <1>3 DEF Commit, Store, OwnerInv, CopiesInv, TypeInv, TypeOK
  <2>2. /\ app'.exists = app.exists /\ app'.status = app.status
        /\ app'.gen = app.gen /\ app'.chart = app.chart /\ app'.ref = app.ref
    BY <2>1 DEF Application
  <2> QED  BY <1>1, <2>2, RunsSame DEF Recorded
<1>4. ASSUME CommitStatus(want)
      PROVE  /\ local = app /\ app'.status = want /\ app'.exists = app.exists
             /\ app'.gen = app.gen /\ app'.chart = app.chart /\ app'.ref = app.ref
  <2>1. local = app /\ app'.status = want /\ app'.exists = app.exists
    BY <1>4, CommittedStatus
  <2>2. app \in Application /\ app' = [app EXCEPT !.status = want]
    BY <1>4, <2>1 DEF CommitStatus, Commit, Store, TypeInv, TypeOK
  <2> QED  BY <2>1, <2>2 DEF Application
<1>5. CASE RecordApplied /\ CommitStatus(want)
  <2>1. history # {} => Runs(Get(history), app')
    BY <1>4, <1>5 DEF RecordApplied, RunsInv, Runs
  <2> QED  BY <1>1, <2>1 DEF RunsInv
<1>6. CASE RecordFailedRevision /\ CommitStatus(want)
  <2>1. app'.status.lfr # 0
    BY <1>4, <1>6 DEF RecordFailedRevision, RollbackInv, CarryInv, AlreadyRolledBack
  <2> QED  BY <1>1, <2>1, RunsSame
<1>7. CASE WriteStatus /\ CommitStatus(want)
  <2>1. want.lfr = app.status.lfr /\ want.obsGen = app.status.obsGen
    BY <1>4, <1>7 DEF WriteStatus, RollbackInv, CarryInv
  <2> QED  BY <1>1, <1>4, <1>7, <2>1, RunsSame DEF Recorded
<1>8. CASE RemoveFinalizer /\ Commit(Absent(app.uid))
  <2>1. ~app'.exists
    BY <1>8, AbsentFields DEF Commit, Store
  <2> QED  BY <1>1, <2>1, RunsSame DEF Recorded
<1> QED  BY <1>2, <1>3, <1>5, <1>6, <1>7, <1>8
         DEF AddFinalizer, RecordApplied, RecordFailedRevision, WriteStatus,
             RemoveFinalizer, Refuse, apiVars

(* An edit makes a generation that is not recorded.                        *)
LEMMA RunsUser ==
    ASSUME TypeInv, AgreeInv, RunsInv,
           \/ CreateApplication \/ EditSpec \/ TouchMetadata \/ DeleteApplication
    PROVE  RunsInv'
<1>1. /\ UNCHANGED <<history, pc, local, want>> /\ app \in Application
      /\ app.gen \in Nat /\ app.status.obsGen \in Nat /\ app.status.obsGen <= app.gen
  BY ApplicationFields, StatusFields
     DEF CreateApplication, EditSpec, TouchMetadata, DeleteApplication, UserWrite,
         TypeInv, TypeOK, AgreeInv
<1>2. ASSUME ~Recorded' PROVE RunsInv'
  BY <1>1, <1>2, RunsSame
<1>3. ASSUME app'.gen = app.gen + 1, app'.status = app.status PROVE RunsInv'
  BY <1>1, <1>2, <1>3 DEF Recorded
<1>4. CASE CreateApplication
  <2>1. PICK c \in Charts, r \in RefChoices : app' = Created(app.uid + 1, c, r)
    BY <1>4 DEF CreateApplication, UserWrite, Store
  <2>2. Created(app.uid + 1, c, r).gen = 1 /\ Created(app.uid + 1, c, r).status.obsGen = 0
    BY DEF Created, Absent, EmptyStatus
  <2> QED  BY <1>2, <2>1, <2>2 DEF Recorded
<1>5. CASE EditSpec
  <2>1. PICK c \in Charts, r \in RefChoices :
          app' = [app EXCEPT !.gen = @ + 1, !.chart = c, !.ref = r]
    BY <1>5 DEF EditSpec, UserWrite, Store
  <2> QED  BY <1>1, <1>3, <2>1 DEF Application
<1>6. CASE TouchMetadata
  <2>1. UNCHANGED app
    BY <1>6 DEF TouchMetadata, UserWrite, Store
  <2> QED  BY <1>1, <2>1, RunsSame DEF Recorded
<1>7. CASE DeleteApplication
  <2>1. CASE app' = [app EXCEPT !.deleting = TRUE, !.gen = @ + 1]
    BY <1>1, <1>3, <2>1 DEF Application
  <2>2. CASE app' = Absent(app.uid)
    <3>1. ~app'.exists
      BY <2>2, AbsentFields
    <3> QED  BY <1>2, <3>1 DEF Recorded
  <2> QED  BY <1>7, <2>1, <2>2 DEF DeleteApplication, UserWrite, Store
<1> QED  BY <1>4, <1>5, <1>6, <1>7

LEMMA RunsDeadlinePasses ==
    ASSUME TypeInv, RunsInv, DeadlinePasses PROVE RunsInv'
<1> DEFINE Late(a) == [a EXCEPT !.status = Expire(@)]
<1>1. /\ app' = Late(app) /\ local' = Late(local) /\ UNCHANGED <<pc, history>>
      /\ app \in Application /\ local \in Application
  BY DEF DeadlinePasses, TypeInv, TypeOK
<1>2. \A a \in Application :
        /\ Late(a).gen = a.gen /\ Late(a).chart = a.chart /\ Late(a).ref = a.ref
        /\ Late(a).exists = a.exists /\ Late(a).status.obsGen = a.status.obsGen
  BY LateSpec DEF SameSpec
<1>3. app'.status.lfr = app.status.lfr
  <2>1. app'.status = Expire(app.status) /\ app.status \in Status
    BY <1>1, ApplicationFields, WithStatusFields
  <2> QED  BY <2>1, ExpireFields
<1>4. want'.hash = want.hash
  BY ExpireFields DEF DeadlinePasses, TypeInv, TypeOK
<1> HIDE DEF Late
<1> QED  BY <1>1, <1>2, <1>3, <1>4, RunsSame DEF Recorded

(* The values resolved are none exactly if the spec names no Secret.       *)
LEMMA RunsReconcile ==
    ASSUME TypeInv, RunsInv, Reconcile PROVE RunsInv'
<1>1. UNCHANGED <<app, history>> /\ pc = "idle" /\ cache \in Application
  BY DEF Reconcile, Load, Dequeue, TypeInv, TypeOK
<1>2. CASE pc' # "apply"
  <2>1. pc' \notin {"apply", "applying", "applied"}
    BY <1>1, <1>2 DEF Reconcile, Load, Dequeue, jobVars
  <2> QED  BY <1>1, <2>1, RunsSame DEF Recorded
<1>3. CASE pc' = "apply"
  <2> DEFINE hash == resolveValues(cache)
  <2>1. hash # Broken /\ Load("apply", Applied(cache, hash))
    BY <1>1, <1>3 DEF Reconcile, Load, Dequeue, jobVars
  <2>2. local' = cache /\ want'.hash = hash
    BY <1>1, <2>1, AppliedFields DEF Load
  <2>3. hash = NoValues <=> ~cache.ref
    BY <2>1, ReconcilerAssumption, ApplicationFields, <1>1 DEF resolveValues, TypeInv, TypeOK
  <2> QED  BY <1>1, <1>3, <2>2, <2>3 DEF RunsInv, Recorded
<1> QED  BY <1>2, <1>3

LEMMA RunsNext ==
    ASSUME TypeInv, OwnerInv, SoundHistory(history), RollbackInv, AgreeInv, RunsInv,
           [Next]_vars
    PROVE  RunsInv'
<1>1. CASE \/ BeginInstallOrUpgrade \/ FinishInstallOrUpgrade \/ FailInstallOrUpgrade
           \/ BeginHelmRollback \/ FinishHelmRollback \/ FailHelmRollback \/ Uninstall
  BY <1>1, RunsHelm
<1>2. CASE AddFinalizer \/ RecordApplied \/ RecordFailedRevision \/ WriteStatus
             \/ RemoveFinalizer
  BY <1>2, RunsWrite
<1>3. CASE CreateApplication \/ EditSpec \/ TouchMetadata \/ DeleteApplication
  BY <1>3, RunsUser
<1>4. CASE DeadlinePasses
  BY <1>4, RunsDeadlinePasses
<1>5. ASSUME UNCHANGED app, history' = history \/ history' = {},
             pc' \notin {"apply", "applying", "applied"} \/ UNCHANGED <<pc, local, want>>
      PROVE  RunsInv'
  BY <1>5, RunsSame DEF Recorded
<1>6. CASE Reconcile
  BY <1>6, RunsReconcile
<1>7. ASSUME NEW h,
             \/ RefuseInstallOrUpgrade \/ HealthError \/ reconcileHealth(h)
             \/ handleUnhealthy(h) \/ RefuseHelmRollback
      PROVE  RunsInv'
  BY <1>5, <1>7
     DEF RefuseInstallOrUpgrade, HealthError, reconcileHealth, handleUnhealthy,
         WriteIfChanged, RefuseHelmRollback, Requeue, Return
<1>8. CASE DeliverEvent \/ EditSecret \/ LoseRelease \/ Crash \/ UNCHANGED vars
  BY <1>5, <1>8 DEF DeliverEvent, EditSecret, LoseRelease, Crash, Return, jobVars, vars
<1> QED  BY <1>1, <1>2, <1>3, <1>4, <1>6, <1>7, <1>8 DEF Next, Controller, Environment

LEMMA RunsInvariant == Spec => [](AgreeInv /\ RunsInv)
<1> DEFINE Known == TypeInv /\ OwnerInv /\ SoundHistory(history) /\ RollbackInv
<1>1. Spec => []Known
  BY TypeCorrect, OwnerInvariant, HistoryIsSound, RollbackInvariant, PTL
<1>2. Known /\ (AgreeInv /\ RunsInv) /\ [Next]_vars => (AgreeInv /\ RunsInv)'
  BY AgreeNext, RunsNext
<1> HIDE DEF Known
<1> QED  BY <1>1, <1>2, AgreeInit, PTL DEF Spec

(* Ready for the current generation is never claimed while the newest      *)
(* revision runs another chart, or values where the spec names no Secret,  *)
(* or none where it names one: not for an edit the cache has not seen, not *)
(* for a state that was rolled back, not after a conflict or a crash       *)
(* between Helm's success and the status write.                            *)
THEOREM ReadyRunsTheSpec == Spec => []ReadyRunsSpec
<1>1. OwnerInv /\ ReportInv /\ RunsInv => ReadyRunsSpec
  BY DEF OwnerInv, FinalizerGuardsRelease, ReportInv, Honest, RunsInv, Runs, Recorded,
         AlreadyRolledBack, ReadyRunsSpec
<1> QED  BY <1>1, OwnerInvariant, ReportInvariant, RunsInvariant, PTL
----------------------------------------------------------------------------
(* How many revisions are stored, and what a rollback finds.               *)

(* An upgrade brings the history back to its limit before the count of     *)
(* rollbacks starts again.                                                 *)
BoundInv ==
    /\ Cardinality(history) <= MaxHistory + rollbacks
    /\ pc \in {"applying", "applied"} => Cardinality(history) <= MaxHistory

LEMMA BoundInit == Init => BoundInv
<1> SUFFICES ASSUME Init PROVE BoundInv
  OBVIOUS
<1>1. history = {} /\ rollbacks = 0
  BY DEF Init
<1>2. Cardinality(history) = 0
  BY <1>1, FS_EmptySet
<1> QED  BY <1>1, <1>2, MaxHistoryAssumption DEF BoundInv

(* A step after which there are no more revisions than before.             *)
LEMMA BoundSame ==
    ASSUME TypeInv, BoundInv, SoundHistory(history), SoundHistory(history'),
           Cardinality(history') <= Cardinality(history),
           rollbacks' = rollbacks \/ rollbacks' = rollbacks + 1,
           pc' \in {"applying", "applied"} => pc \in {"applying", "applied"}
    PROVE  BoundInv'
<1>1. /\ Cardinality(history) \in Nat /\ Cardinality(history') \in Nat
      /\ rollbacks \in Nat /\ MaxHistory \in Nat
  BY FS_CardinalityType, MaxHistoryAssumption DEF SoundHistory, TypeInv, TypeOK
<1>2. \A c, d, r, q, m \in Nat :
        d <= c /\ (q = r \/ q = r + 1)
          => (c <= m + r => d <= m + q) /\ (c <= m => d <= m)
  OBVIOUS
<1>3. rollbacks' \in Nat
  BY <1>1
<1>4. /\ Cardinality(history) <= MaxHistory + rollbacks
        => Cardinality(history') <= MaxHistory + rollbacks'
      /\ Cardinality(history) <= MaxHistory => Cardinality(history') <= MaxHistory
  BY <1>1, <1>2, <1>3
<1> QED  BY <1>4 DEF BoundInv

LEMMA BoundNext ==
    ASSUME TypeInv, OwnerInv, SoundHistory(history), BoundInv, [Next]_vars
    PROVE  BoundInv'
<1>1. /\ SoundHistory(history')
      /\ Cardinality(history) \in Nat /\ Cardinality(history') \in Nat
      /\ rollbacks \in Nat /\ MaxHistory \in Nat
  BY HistoryStep, FS_CardinalityType, MaxHistoryAssumption DEF SoundHistory, TypeInv, TypeOK
<1>2. ASSUME UNCHANGED history, rollbacks' = rollbacks \/ rollbacks' = rollbacks + 1,
             pc' \in {"applying", "applied"} => pc \in {"applying", "applied"}
      PROVE  BoundInv'
  BY <1>1, <1>2, BoundSame
<1>3. CASE BeginInstallOrUpgrade
  <2>1. Cardinality(history') <= MaxHistory /\ rollbacks' = rollbacks
    BY <1>3, BeginApplyBound, ApplicationFields, StatusFields
       DEF BeginInstallOrUpgrade, TypeInv, TypeOK, Hashes
  <2>2. \A c, r, m \in Nat : c <= m => c <= m + r
    OBVIOUS
  <2>3. Cardinality(history') <= MaxHistory + rollbacks
    BY <1>1, <2>1, <2>2
  <2> QED  BY <2>1, <2>3 DEF BoundInv
<1>4. CASE \/ FinishInstallOrUpgrade \/ FailInstallOrUpgrade
           \/ FinishHelmRollback \/ FailHelmRollback
  <2>1. Cardinality(history') <= Cardinality(history) /\ rollbacks' = rollbacks
    BY <1>4, OperationsBound
       DEF FinishInstallOrUpgrade, FailInstallOrUpgrade, FinishHelmRollback,
           FailHelmRollback
  <2>2. pc' \in {"applying", "applied"} => pc \in {"applying", "applied"}
    BY <1>4
       DEF FinishInstallOrUpgrade, FailInstallOrUpgrade, FinishHelmRollback,
           FailHelmRollback
  <2> QED  BY <1>1, <2>1, <2>2, BoundSame
<1>5. CASE BeginHelmRollback
  <2>1. /\ Cardinality(history') <= Cardinality(history) + 1
        /\ rollbacks' = rollbacks + 1 /\ pc' = "rollingBack"
    BY <1>5, BeginRollbackBound DEF BeginHelmRollback
  <2>2. Cardinality(history) <= MaxHistory + rollbacks
    BY DEF BoundInv
  <2>3. \A c, d, r, m \in Nat : d <= c + 1 /\ c <= m + r => d <= m + (r + 1)
    OBVIOUS
  <2>4. Cardinality(history') <= MaxHistory + rollbacks'
    BY <1>1, <2>1, <2>2, <2>3
  <2> QED  BY <2>1, <2>4 DEF BoundInv
<1>6. CASE Uninstall \/ LoseRelease
  <2>1. history' \in {history, FailUninstall(history), FinishUninstall(history)}
        /\ rollbacks' = rollbacks
    BY <1>6 DEF Uninstall, LoseRelease, FinishUninstall
  <2>2. Cardinality(history') <= Cardinality(history)
    BY <1>1, <2>1, OperationsBound
  <2>3. pc' \in {"applying", "applied"} => pc \in {"applying", "applied"}
    BY <1>6 DEF Uninstall, LoseRelease, Requeue, Return, jobVars
  <2> QED  BY <1>1, <2>1, <2>2, <2>3, BoundSame
<1>7. CASE RecordApplied
  <2>1. /\ pc = "applied" /\ pc' = "idle" /\ UNCHANGED history
        /\ rollbacks' = 0 \/ rollbacks' = rollbacks
    BY <1>7 DEF RecordApplied, Requeue, Return
  <2>2. \A c, m \in Nat : c <= m => c <= m + 0
    OBVIOUS
  <2>3. Cardinality(history) <= MaxHistory + rollbacks'
    BY <1>1, <2>1, <2>2 DEF BoundInv
  <2> QED  BY <2>1, <2>3 DEF BoundInv
<1>8. CASE RemoveFinalizer
  <2>1. /\ pc' = "idle" /\ UNCHANGED history /\ history = {}
        /\ rollbacks' = 0 \/ rollbacks' = rollbacks
    BY <1>8 DEF RemoveFinalizer, Finish, Requeue, Return, OwnerInv, JobInv
  <2>2. Cardinality(history) = 0
    BY <2>1, FS_EmptySet
  <2>3. Cardinality(history) <= MaxHistory + rollbacks'
    BY <1>1, <2>1, <2>2
  <2> QED  BY <2>1, <2>3 DEF BoundInv
<1>9. ASSUME NEW h,
             \/ Reconcile \/ AddFinalizer \/ RefuseInstallOrUpgrade
             \/ HealthError \/ reconcileHealth(h) \/ handleUnhealthy(h)
             \/ RecordFailedRevision \/ RefuseHelmRollback \/ WriteStatus
      PROVE  BoundInv'
  <2>1. /\ UNCHANGED history
        /\ rollbacks' = rollbacks \/ rollbacks' = rollbacks + 1
        /\ pc' \notin {"applying", "applied"}
    BY <1>9
       DEF Reconcile, Load, Dequeue, jobVars, AddFinalizer, RefuseInstallOrUpgrade,
           HealthError, reconcileHealth, handleUnhealthy, WriteIfChanged,
           RecordFailedRevision, RefuseHelmRollback, WriteStatus, Finish, Requeue, Return
  <2> QED  BY <1>2, <2>1
<1>10. CASE \/ DeliverEvent \/ DeadlinePasses
            \/ CreateApplication \/ EditSpec \/ TouchMetadata \/ DeleteApplication
            \/ EditSecret \/ Crash \/ UNCHANGED vars
  <2>1. UNCHANGED <<history, rollbacks>> /\ (UNCHANGED pc \/ pc' = "idle")
    BY <1>10
       DEF DeliverEvent, DeadlinePasses, CreateApplication, EditSpec, TouchMetadata,
           DeleteApplication, UserWrite, EditSecret, Crash, Return, jobVars, vars
  <2> QED  BY <1>2, <2>1
<1> QED  BY <1>3, <1>4, <1>5, <1>6, <1>7, <1>8, <1>9, <1>10
         DEF Next, Controller, Environment

LEMMA BoundInvariant == Spec => []BoundInv
<1> DEFINE Known == TypeInv /\ OwnerInv /\ SoundHistory(history)
<1>1. Spec => []Known
  BY TypeCorrect, OwnerInvariant, HistoryIsSound, PTL
<1>2. Known /\ BoundInv /\ [Next]_vars => BoundInv'
  BY BoundNext
<1> HIDE DEF Known
<1> QED  BY <1>1, <1>2, BoundInit, PTL DEF Spec

(* However many upgrades and rollbacks go by, and whatever the limit is,   *)
(* Helm stores at most one revision more than it (release.go,              *)
(* defaultMaxHistory, which only upgrades heed).                           *)
THEOREM HistoryIsBounded == Spec => []HistoryBounded
<1>1. TypeInv /\ SoundHistory(history) /\ RollbackInv /\ BoundInv => HistoryBounded
  <2> SUFFICES ASSUME TypeInv, SoundHistory(history), RollbackInv, BoundInv
               PROVE  Cardinality(history) <= MaxHistory + 1
    BY DEF HistoryBounded
  <2>1. /\ Cardinality(history) \in Nat /\ rollbacks \in Nat /\ rollbacks <= 1
        /\ Cardinality(history) <= MaxHistory + rollbacks /\ MaxHistory \in Nat
    BY FS_CardinalityType, MaxHistoryAssumption
       DEF SoundHistory, TypeInv, TypeOK, RollbackInv, FenceInv, AtMostOneRollback, BoundInv
  <2>2. \A c, r, m \in Nat : c <= m + r /\ r <= 1 => c <= m + 1
    OBVIOUS
  <2> QED  BY <2>1, <2>2
<1> QED  BY <1>1, TypeCorrect, HistoryIsSound, RollbackInvariant, BoundInvariant, PTL

(* A rollback is under way only for a version that records more than one   *)
(* revision, and the write that comes before it keeps that.                *)
TargetInv ==
    /\ pc = "fence" => local.status.rev > 1 /\ want.rev = local.status.rev
    /\ pc = "rollback" => local.status.rev > 1

LEMMA TargetNext ==
    ASSUME TypeInv, OwnerInv, TargetInv, [Next]_vars PROVE TargetInv'
<1>1. local \in Application /\ want \in Status /\ local.status \in Status
  BY ApplicationFields DEF TypeInv, TypeOK
<1>2. ASSUME pc' \notin {"fence", "rollback"} \/ UNCHANGED <<pc, local, want>>
      PROVE  TargetInv'
  BY <1>2 DEF TargetInv
<1>3. ASSUME NEW h, handleUnhealthy(h), pc' = "fence" PROVE TargetInv'
  <2>1. local' = local /\ want' = RollingBack(local) /\ local.status.rev > 1
    BY <1>3 DEF handleUnhealthy, WriteIfChanged, Requeue, Return
  <2> QED  BY <1>1, <1>3, <2>1, RevisionFields DEF TargetInv
<1>4. ASSUME RecordFailedRevision, pc' = "rollback" PROVE TargetInv'
  <2>1. pc = "fence" /\ CommitStatus(want) /\ local' = app'
    BY <1>4 DEF RecordFailedRevision, Requeue, Return
  <2>2. local'.status = want
    BY <2>1, CommittedStatus
  <2> QED  BY <1>4, <2>1, <2>2 DEF TargetInv
<1>5. CASE DeadlinePasses
  <2>1. /\ local' = [local EXCEPT !.status = Expire(@)] /\ want' = Expire(want)
        /\ UNCHANGED pc
    BY <1>5 DEF DeadlinePasses
  <2>2. local'.status.rev = local.status.rev /\ want'.rev = want.rev
    BY <1>1, <2>1, LateFields, ExpireFields
  <2> QED  BY <2>1, <2>2 DEF TargetInv
<1>6. CASE Reconcile \/ AddFinalizer
  <2>1. pc' \notin {"fence", "rollback"}
    BY <1>6 DEF Reconcile, Load, Dequeue, jobVars, AddFinalizer, Finish, Requeue, Return
  <2> QED  BY <1>2, <2>1
<1>7. ASSUME NEW h,
             \/ BeginInstallOrUpgrade \/ RefuseInstallOrUpgrade
             \/ FinishInstallOrUpgrade \/ FailInstallOrUpgrade
             \/ RecordApplied \/ HealthError \/ reconcileHealth(h)
             \/ handleUnhealthy(h) /\ pc' # "fence"
             \/ RecordFailedRevision /\ pc' # "rollback"
             \/ BeginHelmRollback \/ RefuseHelmRollback
             \/ FinishHelmRollback \/ FailHelmRollback
             \/ WriteStatus \/ Uninstall \/ RemoveFinalizer
      PROVE  TargetInv'
  <2>1. pc' \notin {"fence", "rollback"}
    BY <1>7
       DEF BeginInstallOrUpgrade, RefuseInstallOrUpgrade, FinishInstallOrUpgrade,
           FailInstallOrUpgrade, RecordApplied, HealthError, reconcileHealth,
           handleUnhealthy, WriteIfChanged, RecordFailedRevision, BeginHelmRollback,
           RefuseHelmRollback, FinishHelmRollback, FailHelmRollback, WriteStatus,
           Uninstall, RemoveFinalizer, Finish, Requeue, Return
  <2> QED  BY <1>2, <2>1
<1>8. CASE \/ DeliverEvent
           \/ CreateApplication \/ EditSpec \/ TouchMetadata \/ DeleteApplication
           \/ EditSecret \/ LoseRelease \/ Crash \/ UNCHANGED vars
  <2>1. pc' = "idle" \/ UNCHANGED <<pc, local, want>>
    BY <1>8
       DEF DeliverEvent, CreateApplication, EditSpec, TouchMetadata, DeleteApplication,
           UserWrite, EditSecret, LoseRelease, Crash, Return, jobVars, vars
  <2> QED  BY <1>2, <2>1
<1> QED  BY <1>3, <1>4, <1>5, <1>6, <1>7, <1>8 DEF Next, Controller, Environment

LEMMA TargetInvariant == Spec => []TargetInv
<1>1. Init => TargetInv
  BY DEF Init, TargetInv
<1>2. TypeInv /\ OwnerInv /\ TargetInv /\ [Next]_vars => TargetInv'
  BY TargetNext
<1> QED  BY <1>1, <1>2, TypeCorrect, OwnerInvariant, PTL DEF Spec

(* A history that goes beyond its first revision holds the one before.     *)
LEMMA BeyondFirst ==
    ASSUME SoundHistory(history), NEW n \in Nat, n > 1, n <= LastRev(history)
    PROVE  CanRollback(history)
<1>1. LastRev(history) \in Nat
  BY LastRevProperties DEF SoundHistory
<1>2. LastRev(history) > 1
  BY <1>1
<1>3. RollbackTarget(history) # {}
  BY <1>2 DEF SoundHistory, TargetRetained
<1> QED  BY <1>3 DEF CanRollback, releaseExists, RollbackTarget

(* The one rollback of a desired state is not spent on a history with      *)
(* nothing to go back to, unless the release has been removed since its    *)
(* revision was recorded (health.go, the condition HelmRevision <= 1).     *)
THEOREM RollbackHasTarget == Spec => []RollbackIsPossible
<1>1. TypeInv /\ SoundHistory(history) /\ TargetInv => RollbackIsPossible
  <2> SUFFICES ASSUME TypeInv, SoundHistory(history), TargetInv, pc = "rollback"
               PROVE  CanRollback(history) \/ LastRev(history) < local.status.rev
    BY DEF RollbackIsPossible
  <2>1. local.status.rev \in Nat /\ local.status.rev > 1 /\ LastRev(history) \in Nat
    BY CopyRevisions, LastRevProperties DEF TargetInv, SoundHistory
  <2>2. LastRev(history) < local.status.rev \/ local.status.rev <= LastRev(history)
    BY <2>1
  <2> QED  BY <2>1, <2>2, BeyondFirst
<1> QED  BY <1>1, TypeCorrect, HistoryIsSound, TargetInvariant, PTL

(* And when nobody else removes the release, there always is one.          *)
THEOREM RollbackAlwaysHasTarget ==
    ASSUME "drift" \notin Disturbances
    PROVE  Spec => [](pc = "rollback" => CanRollback(history))
<1>1. TypeInv /\ SoundHistory(history) /\ TargetInv /\ RecordedInv
        => (pc = "rollback" => CanRollback(history))
  <2> SUFFICES ASSUME TypeInv, SoundHistory(history), TargetInv, RecordedInv, pc = "rollback"
               PROVE  CanRollback(history)
    OBVIOUS
  <2>1. /\ local.status.rev \in Nat /\ local.status.rev > 1
        /\ local.status.rev <= LastRev(history)
    BY CopyRevisions DEF TargetInv, RecordedInv, WorkPCs
  <2> QED  BY <2>1, BeyondFirst
<1> QED  BY <1>1, TypeCorrect, HistoryIsSound, TargetInvariant, RecordedRevisionIsStored, PTL
=============================================================================
