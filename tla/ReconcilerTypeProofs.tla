------------------------ MODULE ReconcilerTypeProofs ------------------------
(***************************************************************************)
(* Type correctness of the reconciler of one Application, for any charts,  *)
(* values, generations, numbers of re-creations and disturbances, and any  *)
(* history limit of at least three, with the lemmas on objects, statuses   *)
(* and writes that the other proofs share.                                 *)
(***************************************************************************)
EXTENDS ApplicationReconciler, HelmReleaseProofs, SequenceTheorems

----------------------------------------------------------------------------
(* Types of the objects and of the statuses the handlers compute.          *)

LEMMA ApplicationFields ==
    ASSUME NEW a \in Application
    PROVE  /\ a.exists \in BOOLEAN /\ a.deleting \in BOOLEAN
           /\ a.finalizer \in BOOLEAN /\ a.ref \in BOOLEAN
           /\ a.uid \in Nat /\ a.gen \in Nat /\ a.chart \in Charts
           /\ a.status \in Status
BY DEF Application

LEMMA StatusFields ==
    ASSUME NEW s \in Status
    PROVE  /\ s.phase \in Phases /\ s.obsGen \in Nat /\ s.readyGen \in Nat
           /\ s.rev \in Nat /\ s.lfr \in Nat /\ s.hash \in Hashes
           /\ s.start \in {"none", "recent", "expired"}
BY DEF Status

LEMMA EmptyStatusType == EmptyStatus \in Status
BY DEF EmptyStatus, Status, Phases, ConditionStatus, Hashes

LEMMA AbsentType == ASSUME NEW u \in Nat PROVE Absent(u) \in Application
<1>1. SomeChart \in Charts
  BY ReconcilerAssumption DEF SomeChart
<1>2. QED
  BY <1>1, EmptyStatusType DEF Absent, Application

LEMMA CreatedType ==
    ASSUME NEW u \in Nat, NEW c \in Charts, NEW r \in BOOLEAN
    PROVE  Created(u, c, r) \in Application
BY EmptyStatusType DEF Created, Absent, Application

LEMMA WithStatusType ==
    ASSUME NEW a \in Application, NEW s \in Status
    PROVE  [a EXCEPT !.status = s] \in Application
BY DEF Application

LEMMA UserEditTypes ==
    ASSUME NEW a \in Application
    PROVE  /\ [a EXCEPT !.deleting = TRUE, !.gen = @ + 1] \in Application
           /\ \A c \in Charts, r \in BOOLEAN :
                [a EXCEPT !.gen = @ + 1, !.chart = c, !.ref = r] \in Application
<1>1. a.gen + 1 \in Nat
  BY ApplicationFields
<1>2. QED
  BY <1>1 DEF Application

LEMMA ComputedStatusTypes ==
    ASSUME NEW a \in Application, NEW hash \in Hashes, NEW rev \in Nat
    PROVE  /\ Applied(a, hash) \in Status
           /\ fail(a) \in Status
           /\ Healthy(a) \in Status
           /\ Progressing(a) \in Status
           /\ RollingBack(a) \in Status
           /\ setDegraded(a, rev) \in Status
<1> USE DEF Application, Status, Phases, ConditionStatus
<1>1. Applied(a, hash) \in Status
  BY DEF Applied
<1>2. fail(a) \in Status
  BY DEF fail
<1>3. Healthy(a) \in Status
  BY DEF Healthy
<1>4. Progressing(a) \in Status
  BY DEF Progressing
<1>5. RollingBack(a) \in Status
  BY DEF RollingBack
<1>6. setDegraded(a, rev) \in Status
  BY DEF setDegraded
<1>7. QED
  BY <1>1, <1>2, <1>3, <1>4, <1>5, <1>6

LEMMA ExpireType ==
    ASSUME NEW s \in Status
    PROVE  Expire(s) \in Status
BY DEF Expire, Status

----------------------------------------------------------------------------
(* Type correctness.  It is inductive together with the fact that a stored *)
(* history has a newest revision, which makes LastRev a number.            *)
TypeInv == TypeOK /\ HasNewest(history)

LEMMA TypeInit == Init => TypeInv
<1>1. Absent(0) \in Application /\ EmptyStatus \in Status
  BY AbsentType, EmptyStatusType
<1>2. <<>> \in Seq(Application) /\ "idle" \in PCs
  BY DEF PCs
<1>3. {} \in SUBSET Release /\ HasNewest({})
  BY DEF HasNewest
<1>4. 0 \in Nat /\ 0 \in 0 .. 2
  OBVIOUS
<1>5. QED
  BY <1>1, <1>2, <1>3, <1>4 DEF Init, TypeInv, TypeOK

(* The parts of a controller step that several actions share.              *)
LEMMA ReturnType ==
    ASSUME Return
    PROVE  /\ pc' \in PCs /\ local' \in Application
           /\ fresh' \in BOOLEAN /\ want' \in Status
BY AbsentType, EmptyStatusType DEF Return, PCs

LEMMA StoreType ==
    ASSUME NEW obj \in Application, Store(obj), lag \in Seq(Application)
    PROVE  app' \in Application /\ lag' \in Seq(Application)
BY DEF Store

LEMMA DisturbType ==
    ASSUME NEW k, Disturb(k) \/ UNCHANGED disturbed, disturbed \in Nat
    PROVE  disturbed' \in Nat
BY DEF Disturb

LEMMA CommitStatusType ==
    ASSUME NEW s \in Status, CommitStatus(s), TypeOK
    PROVE  app' \in Application /\ lag' \in Seq(Application) /\ counted' \in 0 .. 2
<1>1. [local EXCEPT !.status = s] \in Application
  BY WithStatusType DEF TypeOK
<1>2. QED
  BY <1>1, StoreType DEF CommitStatus, Commit, TypeOK

LEMMA RefuseType ==
    ASSUME Refuse, TypeOK
    PROVE  app' \in Application /\ lag' \in Seq(Application) /\ disturbed' \in Nat
BY DisturbType DEF Refuse, apiVars, TypeOK

LEMMA TypeReconcile ==
    ASSUME TypeInv, Reconcile
    PROVE  TypeInv'
<1> USE DEF TypeInv, TypeOK
<1>1. Dequeue
  BY DEF Reconcile, Load
<1>2. /\ UNCHANGED <<app, cache, lag, history, secret, rollbacks, counted>>
      /\ queued' \in BOOLEAN /\ disturbed' \in Nat
  BY <1>1, DisturbType DEF Dequeue
<1>3. /\ pc' \in PCs /\ local' \in Application
      /\ fresh' \in BOOLEAN /\ want' \in Status
  <2>1. CASE UNCHANGED jobVars
    BY <2>1 DEF jobVars
  <2>2. ASSUME NEW p \in PCs, NEW s \in Status, Load(p, s)
        PROVE  /\ pc' \in PCs /\ local' \in Application
               /\ fresh' \in BOOLEAN /\ want' \in Status
    BY <2>2 DEF Load
  <2>3. resolveValues(cache) # Broken => resolveValues(cache) \in Hashes
    BY DEF resolveValues, Hashes
  <2>4. {"uninstall", "addFinalizer", "status", "apply", "health"} \subseteq PCs
    BY DEF PCs
  <2>5. fail(cache) \in Status
    BY ComputedStatusTypes DEF Hashes
  <2>6. resolveValues(cache) # Broken => Applied(cache, resolveValues(cache)) \in Status
    BY <2>3, ComputedStatusTypes
  <2>7. QED
    BY <2>1, <2>2, <2>4, <2>5, <2>6, EmptyStatusType DEF Reconcile
<1>4. QED
  BY <1>2, <1>3

LEMMA TypeAddFinalizer ==
    ASSUME TypeInv, AddFinalizer
    PROVE  TypeInv'
<1> USE DEF TypeInv, TypeOK
<1>1. Return /\ queued' \in BOOLEAN
  BY DEF AddFinalizer, Finish, Requeue
<1>2. app' \in Application /\ lag' \in Seq(Application) /\ disturbed' \in Nat
  <2>1. [local EXCEPT !.finalizer = TRUE] \in Application
    BY DEF Application
  <2>2. QED
    BY <2>1, StoreType, RefuseType, DisturbType DEF AddFinalizer, Commit
<1>3. UNCHANGED <<cache, history, secret, rollbacks, counted>>
  BY DEF AddFinalizer
<1>4. QED
  BY <1>1, <1>2, <1>3, ReturnType

LEMMA TypeInstallOrUpgrade ==
    ASSUME TypeInv,
           \/ BeginInstallOrUpgrade \/ RefuseInstallOrUpgrade
           \/ FinishInstallOrUpgrade \/ FailInstallOrUpgrade
    PROVE  TypeInv'
<1> USE DEF TypeInv, TypeOK
<1>1. history \in History
  BY DEF History
<1>2. {"applying", "applied", "status"} \subseteq PCs
  BY DEF PCs
<1>3. fail(local) \in Status
  BY ComputedStatusTypes DEF Hashes
<1>4. CASE BeginInstallOrUpgrade
  <2>1. local.chart \in Charts /\ want.hash \in Hashes
    BY ApplicationFields, StatusFields
  <2>2. BeginApply(history, local.chart, want.hash) \in History
    BY <1>1, <2>1, BeginApplyProperties DEF Hashes
  <2>3. QED
    BY <1>2, <1>4, <2>2 DEF BeginInstallOrUpgrade, History
<1>5. CASE RefuseInstallOrUpgrade
  <2>1. disturbed' \in Nat
    BY <1>5, DisturbType DEF RefuseInstallOrUpgrade
  <2>2. QED
    BY <1>2, <1>3, <1>5, <2>1 DEF RefuseInstallOrUpgrade
<1>6. CASE FinishInstallOrUpgrade
  <2>1. FinishApply(history) \in History /\ LastRev(history) \in Nat
    BY <1>1, FinishApplyProperties, LastRevProperties
  <2>2. [want EXCEPT !.rev = LastRev(history), !.start = "recent"] \in Status
    BY <2>1 DEF Status
  <2>3. QED
    BY <1>2, <1>6, <2>1, <2>2 DEF FinishInstallOrUpgrade, History
<1>7. CASE FailInstallOrUpgrade
  <2>1. disturbed' \in Nat
    BY <1>7, DisturbType DEF FailInstallOrUpgrade
  <2>2. FailApply(history) \in History
    BY <1>1, FailApplyProperties
  <2>3. QED
    BY <1>2, <1>3, <1>7, <2>1, <2>2 DEF FailInstallOrUpgrade, History
<1>8. QED
  BY <1>4, <1>5, <1>6, <1>7

LEMMA TypeRecordApplied ==
    ASSUME TypeInv, RecordApplied
    PROVE  TypeInv'
<1> USE DEF TypeInv, TypeOK
<1>1. Return /\ queued' \in BOOLEAN
  BY DEF RecordApplied, Requeue
<1>2. /\ app' \in Application /\ lag' \in Seq(Application)
      /\ disturbed' \in Nat /\ counted' \in 0 .. 2 /\ rollbacks' \in Nat
  BY CommitStatusType, RefuseType DEF RecordApplied
<1>3. UNCHANGED <<cache, history, secret>>
  BY DEF RecordApplied
<1>4. QED
  BY <1>1, <1>2, <1>3, ReturnType

(* reconcileHealth and handleUnhealthy.                                    *)
LEMMA TypeHealth ==
    ASSUME TypeInv, NEW h,
           HealthError \/ reconcileHealth(h) \/ handleUnhealthy(h)
    PROVE  TypeInv'
<1> USE DEF TypeInv, TypeOK
<1>1. ASSUME NEW s \in Status, NEW m, WriteIfChanged(s, m)
      PROVE  /\ pc' \in PCs /\ local' \in Application /\ fresh' \in BOOLEAN
             /\ want' \in Status /\ queued' \in BOOLEAN
  BY <1>1, ReturnType DEF WriteIfChanged, Requeue, PCs
<1>2. local.status.rev \in Nat
  BY ApplicationFields, StatusFields
<1>3. /\ Healthy(local) \in Status /\ Progressing(local) \in Status
      /\ RollingBack(local) \in Status
      /\ setDegraded(local, local.status.rev) \in Status
  BY <1>2, ComputedStatusTypes DEF Hashes
<1>4. CASE HealthError
  <2>1. disturbed' \in Nat
    BY <1>4, DisturbType DEF HealthError
  <2>2. QED
    BY <1>4, <2>1, ReturnType DEF HealthError, Requeue
<1>5. CASE reconcileHealth(h)
  <2>1. counted' \in 0 .. 2
    <3>1. CountSuccess(local.status) \in 0 .. 2
      BY DEF CountSuccess
    <3>2. QED
      BY <1>5, <3>1 DEF reconcileHealth
  <2>2. /\ pc' \in PCs /\ local' \in Application /\ fresh' \in BOOLEAN
        /\ want' \in Status /\ queued' \in BOOLEAN
    BY <1>1, <1>3, <1>5, ReturnType DEF reconcileHealth, Requeue
  <2>3. QED
    BY <1>5, <2>1, <2>2 DEF reconcileHealth
<1>6. CASE handleUnhealthy(h)
  <2>1. /\ pc' \in PCs /\ local' \in Application /\ fresh' \in BOOLEAN
        /\ want' \in Status /\ queued' \in BOOLEAN
    BY <1>1, <1>3, <1>6 DEF handleUnhealthy, PCs
  <2>2. QED
    BY <1>6, <2>1 DEF handleUnhealthy
<1>7. QED
  BY <1>4, <1>5, <1>6

LEMMA TypeRecordFailedRevision ==
    ASSUME TypeInv, RecordFailedRevision
    PROVE  TypeInv'
<1> USE DEF TypeInv, TypeOK
<1>1. /\ app' \in Application /\ lag' \in Seq(Application)
      /\ disturbed' \in Nat /\ counted' \in 0 .. 2
  BY CommitStatusType, RefuseType, DisturbType DEF RecordFailedRevision
<1>2. /\ pc' \in PCs /\ local' \in Application /\ fresh' \in BOOLEAN
      /\ want' \in Status /\ queued' \in BOOLEAN
  BY <1>1, ReturnType DEF RecordFailedRevision, Requeue, PCs
<1>3. QED
  BY <1>1, <1>2 DEF RecordFailedRevision

LEMMA TypeHelmRollback ==
    ASSUME TypeInv,
           \/ BeginHelmRollback \/ RefuseHelmRollback
           \/ FinishHelmRollback \/ FailHelmRollback
    PROVE  TypeInv'
<1> USE DEF TypeInv, TypeOK
<1>1. history \in History /\ LastRev(history) \in Nat
  BY LastRevProperties DEF History
<1>2. {"rollingBack", "status"} \subseteq PCs
  BY DEF PCs
<1>3. \A n \in Nat : setDegraded(local, n) \in Status
  BY ComputedStatusTypes DEF Hashes
<1>4. local.status.rev \in Nat
  BY ApplicationFields, StatusFields
<1>5. CASE BeginHelmRollback
  <2>1. BeginRollback(history) \in History
    BY <1>1, BeginRollbackProperties
  <2>2. QED
    BY <1>2, <1>5, <2>1 DEF BeginHelmRollback, History
<1>6. CASE RefuseHelmRollback
  <2>1. disturbed' \in Nat
    BY <1>6, DisturbType DEF RefuseHelmRollback
  <2>2. QED
    BY <1>2, <1>3, <1>4, <1>6, <2>1 DEF RefuseHelmRollback
<1>7. CASE FinishHelmRollback
  <2>1. disturbed' \in Nat
    BY <1>7, DisturbType DEF FinishHelmRollback
  <2>2. FinishRollback(history) \in History
    BY <1>1, FinishRollbackProperties
  <2>3. QED
    BY <1>1, <1>2, <1>3, <1>4, <1>7, <2>1, <2>2 DEF FinishHelmRollback, History
<1>8. CASE FailHelmRollback
  <2>1. disturbed' \in Nat
    BY <1>8, DisturbType DEF FailHelmRollback
  <2>2. FailRollback(history) \in History
    BY <1>1, FailRollbackProperties
  <2>3. QED
    BY <1>2, <1>3, <1>4, <1>8, <2>1, <2>2 DEF FailHelmRollback, History
<1>9. QED
  BY <1>5, <1>6, <1>7, <1>8

LEMMA TypeWriteStatus ==
    ASSUME TypeInv, WriteStatus
    PROVE  TypeInv'
<1> USE DEF TypeInv, TypeOK
<1>1. Return /\ queued' \in BOOLEAN
  BY DEF WriteStatus, Requeue
<1>2. /\ app' \in Application /\ lag' \in Seq(Application)
      /\ disturbed' \in Nat /\ counted' \in 0 .. 2
  BY CommitStatusType, RefuseType DEF WriteStatus
<1>3. UNCHANGED <<cache, history, secret, rollbacks>>
  BY DEF WriteStatus
<1>4. QED
  BY <1>1, <1>2, <1>3, ReturnType

(* reconcileDelete.                                                        *)
LEMMA TypeDelete ==
    ASSUME TypeInv, Uninstall \/ RemoveFinalizer
    PROVE  TypeInv'
<1> USE DEF TypeInv, TypeOK
<1>1. CASE Uninstall
  <2>1. /\ FinishUninstall(history) \in History
        /\ FailUninstall(history) \in History
        /\ history \in History
    BY UninstallProperties DEF History
  <2>2. history' \in History
    BY <1>1, <2>1 DEF Uninstall
  <2>3. disturbed' \in Nat
    BY <1>1, DisturbType DEF Uninstall
  <2>4. /\ pc' \in PCs /\ local' \in Application /\ fresh' \in BOOLEAN
        /\ want' \in Status /\ queued' \in BOOLEAN
    BY <1>1, ReturnType DEF Uninstall, Requeue, PCs
  <2>5. QED
    BY <1>1, <2>2, <2>3, <2>4 DEF Uninstall, History
<1>2. CASE RemoveFinalizer
  <2>1. Return /\ queued' \in BOOLEAN
    BY <1>2 DEF RemoveFinalizer, Finish, Requeue
  <2>2. Absent(app.uid) \in Application
    BY AbsentType, ApplicationFields
  <2>3. /\ app' \in Application /\ lag' \in Seq(Application)
        /\ disturbed' \in Nat /\ counted' \in 0 .. 2 /\ rollbacks' \in Nat
    BY <1>2, <2>2, StoreType, RefuseType, DisturbType DEF RemoveFinalizer, Commit
  <2>4. UNCHANGED <<cache, history, secret>>
    BY <1>2 DEF RemoveFinalizer
  <2>5. QED
    BY <2>1, <2>3, <2>4, ReturnType
<1>3. QED
  BY <1>1, <1>2

LEMMA TypeUser ==
    ASSUME TypeInv,
           \/ CreateApplication \/ EditSpec \/ TouchMetadata \/ DeleteApplication
    PROVE  TypeInv'
<1> USE DEF TypeInv, TypeOK
<1>1. disturbed' \in Nat
  BY DisturbType DEF CreateApplication, EditSpec, TouchMetadata, DeleteApplication
<1>2. ASSUME NEW obj \in Application, UserWrite(obj)
      PROVE  TypeInv'
  BY <1>1, <1>2, StoreType DEF UserWrite
<1>3. CASE CreateApplication
  <2>1. PICK c \in Charts, r \in RefChoices : UserWrite(Created(app.uid + 1, c, r))
    BY <1>3 DEF CreateApplication
  <2>2. app.uid + 1 \in Nat /\ r \in BOOLEAN
    BY ApplicationFields, ReconcilerAssumption
  <2>3. QED
    BY <1>2, <2>1, <2>2, CreatedType
<1>4. CASE EditSpec
  <2>1. PICK c \in Charts, r \in RefChoices :
          UserWrite([app EXCEPT !.gen = @ + 1, !.chart = c, !.ref = r])
    BY <1>4 DEF EditSpec
  <2>2. [app EXCEPT !.gen = @ + 1, !.chart = c, !.ref = r] \in Application
    BY ReconcilerAssumption, UserEditTypes
  <2>3. QED
    BY <1>2, <2>1, <2>2
<1>5. CASE TouchMetadata
  BY <1>2, <1>5 DEF TouchMetadata
<1>6. CASE DeleteApplication
  <2>1. [app EXCEPT !.deleting = TRUE, !.gen = @ + 1] \in Application
    BY UserEditTypes
  <2>2. Absent(app.uid) \in Application
    BY AbsentType, ApplicationFields
  <2>3. QED
    BY <1>2, <1>6, <2>1, <2>2 DEF DeleteApplication
<1>7. QED
  BY <1>3, <1>4, <1>5, <1>6

LEMMA TypeEnvironment ==
    ASSUME TypeInv,
           \/ EditSecret \/ DeliverEvent \/ LoseRelease \/ Crash
    PROVE  TypeInv'
<1> USE DEF TypeInv, TypeOK
<1>1. CASE EditSecret
  <2>1. disturbed' \in Nat
    BY <1>1, DisturbType DEF EditSecret
  <2>2. QED
    BY <1>1, <2>1, ApplicationFields DEF EditSecret, jobVars
<1>2. CASE DeliverEvent
  BY <1>2, HeadTailProperties DEF DeliverEvent, jobVars
<1>3. CASE LoseRelease
  <2>1. disturbed' \in Nat
    BY <1>3, DisturbType DEF LoseRelease
  <2>2. QED
    BY <1>3, <2>1 DEF LoseRelease, jobVars, HasNewest
<1>4. CASE Crash
  <2>1. disturbed' \in Nat
    BY <1>4, DisturbType DEF Crash
  <2>2. QED
    BY <1>4, <2>1, ReturnType, ApplicationFields DEF Crash
<1>5. QED
  BY <1>1, <1>2, <1>3, <1>4

LEMMA TypeDeadlinePasses ==
    ASSUME TypeInv, DeadlinePasses
    PROVE  TypeInv'
<1> USE DEF TypeInv, TypeOK
<1> DEFINE Late(a) == [a EXCEPT !.status = Expire(@)]
<1>1. \A a \in Application : Late(a) \in Application
  BY ExpireType, ApplicationFields, WithStatusType
<1>2. [i \in 1 .. Len(lag) |-> Late(lag[i])] \in Seq(Application)
  <2>1. \A i \in 1 .. Len(lag) : Late(lag[i]) \in Application
    BY <1>1, ElementOfSeq
  <2>2. Len(lag) \in Nat
    BY LenProperties
  <2> HIDE DEF Late
  <2>3. QED
    BY <2>1, <2>2, IsASeq
<1>3. app' = Late(app) /\ cache' = Late(cache) /\ local' = Late(local)
      /\ lag' = [i \in 1 .. Len(lag) |-> Late(lag[i])] /\ want' = Expire(want)
  BY DEF DeadlinePasses
<1> HIDE DEF Late
<1>4. QED
  BY <1>1, <1>2, <1>3, ExpireType DEF DeadlinePasses

LEMMA TypeStutter ==
    ASSUME TypeInv, UNCHANGED vars
    PROVE  TypeInv'
BY DEF TypeInv, TypeOK, HasNewest, vars

LEMMA TypeNext ==
    ASSUME TypeInv, [Next]_vars
    PROVE  TypeInv'
BY TypeReconcile, TypeAddFinalizer, TypeInstallOrUpgrade, TypeRecordApplied,
   TypeHealth, TypeRecordFailedRevision, TypeHelmRollback, TypeWriteStatus,
   TypeDelete, TypeUser, TypeEnvironment, TypeDeadlinePasses, TypeStutter
   DEF Next, Controller, Environment

(* Every behaviour keeps every variable in its type; in particular the     *)
(* phase stays inside the enum the CRD admits, and a stored history always *)
(* has a newest revision for Manager.Get to return.                        *)
THEOREM TypeCorrect == Spec => []TypeInv
<1>1. TypeInv /\ [Next]_vars => TypeInv'
  BY TypeNext
<1>2. QED
  BY <1>1, TypeInit, PTL DEF Spec

(* The type invariant the runs check.                                      *)
COROLLARY TypeIsKept == Spec => []TypeOK
BY TypeCorrect, PTL DEF TypeInv

----------------------------------------------------------------------------
(* A step changes the history by one of the operations on it, or not.      *)
LEMMA HistoryStep ==
    ASSUME TypeInv, SoundHistory(history), [Next]_vars PROVE SoundHistory(history')
<1>1. CASE UNCHANGED history
  BY <1>1
<1>2. CASE BeginInstallOrUpgrade
  BY <1>2, ApplicationFields, StatusFields, OperationsAreSound
     DEF BeginInstallOrUpgrade, TypeInv, TypeOK, Hashes
<1>3. CASE FinishInstallOrUpgrade \/ FailInstallOrUpgrade
  BY <1>3, OperationsAreSound DEF FinishInstallOrUpgrade, FailInstallOrUpgrade
<1>4. CASE BeginHelmRollback \/ FinishHelmRollback \/ FailHelmRollback
  BY <1>4, OperationsAreSound DEF BeginHelmRollback, FinishHelmRollback, FailHelmRollback
<1>5. CASE Uninstall \/ LoseRelease
  BY <1>5, OperationsAreSound, EmptyIsSound DEF Uninstall, LoseRelease
<1>6. ASSUME NEW h,
             \/ Reconcile \/ AddFinalizer \/ RefuseInstallOrUpgrade \/ RecordApplied
             \/ HealthError \/ reconcileHealth(h) \/ handleUnhealthy(h)
             \/ RecordFailedRevision \/ RefuseHelmRollback \/ WriteStatus \/ RemoveFinalizer
             \/ DeliverEvent \/ DeadlinePasses
             \/ CreateApplication \/ EditSpec \/ TouchMetadata \/ DeleteApplication
             \/ EditSecret \/ Crash \/ UNCHANGED vars
      PROVE  UNCHANGED history
  BY <1>6
     DEF Reconcile, Load, Dequeue, AddFinalizer, RefuseInstallOrUpgrade, RecordApplied,
         HealthError, reconcileHealth, handleUnhealthy, RecordFailedRevision,
         RefuseHelmRollback, WriteStatus, RemoveFinalizer, DeliverEvent, DeadlinePasses,
         CreateApplication, EditSpec, TouchMetadata, DeleteApplication, UserWrite,
         EditSecret, Crash, vars
<1> QED  BY <1>1, <1>2, <1>3, <1>4, <1>5, <1>6 DEF Next, Controller, Environment

(* The history stays numbered, and keeps what the next rollback needs.     *)
THEOREM HistoryIsSound == Spec => []SoundHistory(history)
<1>1. Init => SoundHistory(history)
  BY EmptyIsSound DEF Init
<1>2. TypeInv /\ SoundHistory(history) /\ [Next]_vars => SoundHistory(history)'
  BY HistoryStep
<1> QED  BY <1>1, <1>2, TypeCorrect, PTL DEF Spec

(* The revision that Rollback with Version = 0 aims at is never pruned     *)
(* (release.go, defaultMaxHistory), after any number of upgrades, failed   *)
(* upgrades and rollbacks, whatever the limit, if it is at least three.    *)
THEOREM RollbackTargetIsKept == Spec => []RollbackTargetKept
<1>1. SoundHistory(history) => RollbackTargetKept
  BY DEF SoundHistory, RollbackTargetKept
<1> QED  BY <1>1, HistoryIsSound, PTL
=============================================================================
