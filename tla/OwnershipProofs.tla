-------------------------- MODULE OwnershipProofs --------------------------
(***************************************************************************)
(* No release without an owner, and no owner forgotten.  A release is      *)
(* created from whatever version of the Application the cache shows, so    *)
(* the proof follows the copies: an Application that some copy shows alive *)
(* and with its finalizer has not been finalized, because the one worker   *)
(* drops the finalizer only from a version that nothing has replaced, and  *)
(* by then the cache has caught up.                                        *)
(*                                                                         *)
(* The same copies tell what a recorded revision is worth: unless somebody *)
(* else removes the release, Helm still has it or a later one.             *)
(***************************************************************************)
EXTENDS ReconcilerTypeProofs

Managed == app.exists /\ app.finalizer

Live(a) == a.exists /\ a.finalizer /\ ~a.deleting

WorkPCs == {"apply", "applying", "applied", "health", "fence", "rollback",
            "rollingBack", "status"}

(* The newest version on its way, or the cache, is the stored one; a copy  *)
(* that may still be written is the stored one.                            *)
CopiesInv ==
    /\ lag = <<>> => cache = app
    /\ lag # <<>> => lag[Len(lag)] = app
    /\ fresh => local = app /\ pc # "idle"

LiveCopiesInv ==
    /\ Live(cache) => Managed
    /\ \A i \in 1 .. Len(lag) : Live(lag[i]) => Managed

JobInv ==
    /\ pc \in WorkPCs => Live(local) /\ Managed
    /\ pc = "addFinalizer" => local.exists /\ ~local.deleting
    /\ pc \in {"uninstall", "removeFinalizer"} =>
         local.deleting /\ (fresh => lag = <<>>)
    /\ pc = "removeFinalizer" => history = {}

AppInv ==
    /\ app.finalizer => app.exists
    /\ app.deleting => Managed
    /\ ~app.finalizer => ~AlreadyRolledBack(app.status)

OwnerInv ==
    CopiesInv /\ LiveCopiesInv /\ JobInv /\ AppInv
      /\ FinalizerGuardsRelease /\ NeverForgotten

----------------------------------------------------------------------------
LEMMA WithStatusFields ==
    ASSUME NEW a \in Application, NEW s
    PROVE  LET b == [a EXCEPT !.status = s]
           IN  /\ b.exists = a.exists /\ b.finalizer = a.finalizer
               /\ b.deleting = a.deleting /\ b.status = s
               /\ b.gen = a.gen /\ b.uid = a.uid
               /\ Live(b) <=> Live(a)
BY DEF Application, Live

LEMMA AbsentFields ==
    ASSUME NEW u
    PROVE  /\ Absent(u).exists = FALSE /\ Absent(u).finalizer = FALSE
           /\ Absent(u).deleting = FALSE /\ Absent(u).status = EmptyStatus
           /\ ~AlreadyRolledBack(EmptyStatus) /\ Absent(u).uid = u
BY DEF Absent, EmptyStatus, AlreadyRolledBack

LEMMA CreatedFields ==
    ASSUME NEW u, NEW c, NEW r
    PROVE  /\ Created(u, c, r).exists = TRUE /\ Created(u, c, r).finalizer = FALSE
           /\ Created(u, c, r).deleting = FALSE /\ Created(u, c, r).uid = u
           /\ Created(u, c, r).status = EmptyStatus
           /\ ~AlreadyRolledBack(Created(u, c, r).status)
BY DEF Created, Absent, EmptyStatus, AlreadyRolledBack

(* What a write leaves: the new version travels behind the older ones.     *)
LEMMA StoreCopies ==
    ASSUME TypeOK, LiveCopiesInv, NEW obj \in Application, Store(obj),
           cache' = cache, Managed => Managed'
    PROVE  /\ lag' # <<>> /\ lag'[Len(lag')] = app'
           /\ LiveCopiesInv'
<1>1. /\ lag' = Append(lag, obj) /\ app' = obj
      /\ lag \in Seq(Application)
  BY DEF Store, TypeOK
<1>2. /\ Len(lag') = Len(lag) + 1 /\ Len(lag) \in Nat
      /\ \A i \in 1 .. Len(lag) : lag'[i] = lag[i]
      /\ lag'[Len(lag) + 1] = obj
  BY <1>1
<1>3. lag' # <<>> /\ lag'[Len(lag')] = app'
  BY <1>1, <1>2
<1>4. Live(obj) => Managed'
  BY <1>1 DEF Live, Managed
<1>5. Live(cache') => Managed'
  BY DEF LiveCopiesInv
<1>6. ASSUME NEW i \in 1 .. Len(lag'), Live(lag'[i])
      PROVE  Managed'
  <2>1. CASE i \in 1 .. Len(lag)
    BY <1>2, <1>6, <2>1 DEF LiveCopiesInv
  <2>2. CASE i = Len(lag) + 1
    BY <1>2, <1>4, <1>6, <2>2
  <2>3. QED
    BY <1>2, <2>1, <2>2
<1>7. QED
  BY <1>3, <1>5, <1>6 DEF LiveCopiesInv, Live

(* What a step that writes nothing leaves.                                 *)
LEMMA QuietCopies ==
    ASSUME LiveCopiesInv, CopiesInv, AppInv, UNCHANGED <<app, cache, lag>>
    PROVE  /\ lag' = <<>> => cache' = app'
           /\ lag' # <<>> => lag'[Len(lag')] = app'
           /\ LiveCopiesInv' /\ AppInv' /\ (Managed' <=> Managed)
BY DEF LiveCopiesInv, CopiesInv, AppInv, Managed, Live, AlreadyRolledBack

LEMMA OwnerInit == Init => OwnerInv
<1> SUFFICES ASSUME Init PROVE OwnerInv
  OBVIOUS
<1>1. /\ app = Absent(0) /\ cache = Absent(0) /\ lag = <<>> /\ pc = "idle"
      /\ fresh = FALSE /\ history = {}
  BY DEF Init
<1>2. CopiesInv /\ LiveCopiesInv
  BY <1>1, AbsentFields DEF CopiesInv, LiveCopiesInv, Live, Managed
<1>3. JobInv /\ FinalizerGuardsRelease
  BY <1>1 DEF JobInv, WorkPCs, FinalizerGuardsRelease
<1>4. AppInv /\ NeverForgotten
  BY <1>1, AbsentFields DEF AppInv, NeverForgotten, Managed
<1>5. QED
  BY <1>2, <1>3, <1>4 DEF OwnerInv

LEMMA OwnerReconcile ==
    ASSUME TypeInv, OwnerInv, Reconcile
    PROVE  OwnerInv'
<1> USE DEF OwnerInv
<1>1. /\ Dequeue /\ pc = "idle"
      /\ UNCHANGED <<app, cache, lag, history>>
  BY DEF Reconcile, Load, Dequeue
<1>2. LiveCopiesInv' /\ AppInv' /\ (Managed' <=> Managed)
      /\ (lag' = <<>> => cache' = app') /\ (lag' # <<>> => lag'[Len(lag')] = app')
  BY <1>1, QuietCopies
<1>3. FinalizerGuardsRelease'
  BY <1>1 DEF FinalizerGuardsRelease
<1>4. CASE NothingToDo(cache) /\ UNCHANGED jobVars
  <2>1. CopiesInv' /\ JobInv'
    BY <1>1, <1>2, <1>4 DEF CopiesInv, JobInv, jobVars, WorkPCs
  <2>2. NeverForgotten'
    BY <1>1, <1>4 DEF NeverForgotten, NothingToDo, CopiesInv, AppInv, Managed
  <2>3. QED
    BY <1>2, <1>3, <2>1, <2>2
<1>5. CASE ~NothingToDo(cache)
  <2>1. PICK p, st :
          /\ Load(p, st)
          /\ \/ p = "uninstall" /\ cache.deleting
             \/ p = "addFinalizer" /\ ~cache.deleting
             \/ /\ p \in {"status", "apply", "health"}
                /\ ~cache.deleting /\ cache.finalizer
    BY <1>5 DEF Reconcile
  <2>2. pc' = p /\ local' = cache /\ fresh' = (lag = <<>>)
    BY <2>1 DEF Load
  <2>3. cache.exists
    BY <1>5 DEF NothingToDo
  <2>4. CopiesInv' /\ NeverForgotten'
    BY <1>1, <1>2, <2>1, <2>2 DEF CopiesInv, NeverForgotten
  <2>5. JobInv'
    BY <1>1, <1>2, <2>1, <2>2, <2>3 DEF JobInv, WorkPCs, Live, LiveCopiesInv, Managed
  <2>6. QED
    BY <1>2, <1>3, <2>4, <2>5
<1>6. QED
  BY <1>4, <1>5 DEF Reconcile

(* A step of a reconcile at work on a live Application that writes nothing *)
(* to the API server, whatever it does to the history.                     *)
LEMMA OwnerQuietWork ==
    ASSUME TypeInv, OwnerInv, pc \in WorkPCs, UNCHANGED <<app, cache, lag>>,
           Requeue \/ (pc' \in WorkPCs /\ UNCHANGED <<local, fresh>>)
    PROVE  OwnerInv'
<1> USE DEF OwnerInv
<1>1. LiveCopiesInv' /\ AppInv' /\ (Managed' <=> Managed)
      /\ (lag' = <<>> => cache' = app') /\ (lag' # <<>> => lag'[Len(lag')] = app')
  BY QuietCopies
<1>2. Managed' /\ Live(local)
  BY <1>1 DEF JobInv
<1>3. FinalizerGuardsRelease'
  BY <1>2 DEF FinalizerGuardsRelease, Managed
<1>4. CASE Requeue
  <2>1. pc' = "idle" /\ fresh' = FALSE /\ queued' = TRUE
    BY <1>4 DEF Requeue, Return
  <2>2. QED
    BY <1>1, <1>3, <2>1 DEF CopiesInv, JobInv, WorkPCs, NeverForgotten
<1>5. CASE pc' \in WorkPCs /\ UNCHANGED <<local, fresh>>
  <2>1. pc' # "idle" /\ pc' \notin {"addFinalizer", "uninstall", "removeFinalizer"}
    BY <1>5 DEF WorkPCs
  <2>2. CopiesInv' /\ NeverForgotten'
    BY <1>1, <1>5, <2>1 DEF CopiesInv, NeverForgotten
  <2>3. JobInv'
    BY <1>2, <1>5, <2>1 DEF JobInv, Live
  <2>4. QED
    BY <1>1, <1>3, <2>2, <2>3
<1>6. QED
  BY <1>4, <1>5

(* A status write of such a reconcile.                                     *)
LEMMA OwnerWorkWrite ==
    ASSUME TypeInv, OwnerInv, pc \in WorkPCs, NEW s \in Status, CommitStatus(s),
           UNCHANGED <<cache, history>>,
           Requeue \/ (pc' \in WorkPCs /\ local' = app' /\ UNCHANGED fresh)
    PROVE  OwnerInv'
<1> USE DEF OwnerInv
<1> DEFINE obj == [local EXCEPT !.status = s]
<1>1. Live(local) /\ local \in Application /\ Store(obj) /\ app' = obj
  BY DEF JobInv, CommitStatus, Commit, Store, TypeInv, TypeOK
<1>2. obj \in Application /\ Live(obj)
  BY <1>1, WithStatusType, WithStatusFields
<1> HIDE DEF obj
<1>3. Managed' /\ ~app'.deleting /\ app'.finalizer
  BY <1>1, <1>2 DEF Managed, Live
<1>4. lag' # <<>> /\ lag'[Len(lag')] = app' /\ LiveCopiesInv'
  BY <1>1, <1>2, <1>3, StoreCopies DEF TypeInv
<1>5. FinalizerGuardsRelease' /\ AppInv' /\ NeverForgotten'
  BY <1>3, <1>4 DEF FinalizerGuardsRelease, AppInv, Managed, NeverForgotten
<1>6. CASE Requeue
  <2>1. pc' = "idle" /\ fresh' = FALSE
    BY <1>6 DEF Requeue, Return
  <2>2. QED
    BY <1>4, <1>5, <2>1 DEF CopiesInv, JobInv, WorkPCs
<1>7. CASE pc' \in WorkPCs /\ local' = app' /\ UNCHANGED fresh
  <2>1. pc' # "idle" /\ pc' \notin {"addFinalizer", "uninstall", "removeFinalizer"}
    BY <1>7 DEF WorkPCs
  <2>2. CopiesInv'
    BY <1>4, <1>7, <2>1 DEF CopiesInv
  <2>3. Live(local')
    BY <1>1, <1>2, <1>7
  <2>4. JobInv'
    BY <1>3, <2>1, <2>3 DEF JobInv, Live
  <2>5. QED
    BY <1>4, <1>5, <2>2, <2>4
<1>8. QED
  BY <1>6, <1>7

LEMMA OwnerWork ==
    ASSUME TypeInv, OwnerInv, NEW h,
           \/ BeginInstallOrUpgrade \/ RefuseInstallOrUpgrade
           \/ FinishInstallOrUpgrade \/ FailInstallOrUpgrade
           \/ RecordApplied \/ HealthError \/ reconcileHealth(h)
           \/ handleUnhealthy(h) \/ RecordFailedRevision
           \/ BeginHelmRollback \/ RefuseHelmRollback
           \/ FinishHelmRollback \/ FailHelmRollback \/ WriteStatus
    PROVE  OwnerInv'
<1>1. CASE BeginInstallOrUpgrade
  BY <1>1, OwnerQuietWork DEF BeginInstallOrUpgrade, WorkPCs
<1>2. CASE RefuseInstallOrUpgrade
  BY <1>2, OwnerQuietWork DEF RefuseInstallOrUpgrade, WorkPCs
<1>3. CASE FinishInstallOrUpgrade
  BY <1>3, OwnerQuietWork DEF FinishInstallOrUpgrade, WorkPCs
<1>4. CASE FailInstallOrUpgrade
  BY <1>4, OwnerQuietWork DEF FailInstallOrUpgrade, WorkPCs
<1>5. CASE RecordApplied
  <2>1. pc \in WorkPCs /\ Requeue /\ UNCHANGED <<cache, history>> /\ want \in Status
    BY <1>5 DEF RecordApplied, WorkPCs, TypeInv, TypeOK
  <2>2. CASE CommitStatus(want)
    BY <2>1, <2>2, OwnerWorkWrite
  <2>3. CASE Refuse
    BY <2>1, <2>3, OwnerQuietWork DEF Refuse, apiVars
  <2>4. QED
    BY <1>5, <2>2, <2>3 DEF RecordApplied
<1>6. CASE HealthError
  BY <1>6, OwnerQuietWork DEF HealthError, WorkPCs
<1>7. CASE reconcileHealth(h)
  <2>1. pc \in WorkPCs /\ UNCHANGED <<app, cache, lag>>
    BY <1>7 DEF reconcileHealth, WorkPCs
  <2>2. Requeue \/ (pc' \in WorkPCs /\ UNCHANGED <<local, fresh>>)
    BY <1>7 DEF reconcileHealth, WriteIfChanged, WorkPCs
  <2>3. QED
    BY <2>1, <2>2, OwnerQuietWork
<1>8. CASE handleUnhealthy(h)
  <2>1. pc \in WorkPCs /\ UNCHANGED <<app, cache, lag>>
    BY <1>8 DEF handleUnhealthy, WorkPCs
  <2>2. Requeue \/ (pc' \in WorkPCs /\ UNCHANGED <<local, fresh>>)
    BY <1>8 DEF handleUnhealthy, WriteIfChanged, WorkPCs
  <2>3. QED
    BY <2>1, <2>2, OwnerQuietWork
<1>9. CASE RecordFailedRevision
  <2>1. pc \in WorkPCs /\ UNCHANGED <<cache, history>> /\ want \in Status
    BY <1>9 DEF RecordFailedRevision, WorkPCs, TypeInv, TypeOK
  <2>2. CASE Refuse /\ Requeue
    BY <2>1, <2>2, OwnerQuietWork DEF Refuse, apiVars
  <2>3. CASE CommitStatus(want) /\ Requeue
    BY <2>1, <2>3, OwnerWorkWrite
  <2>4. CASE CommitStatus(want) /\ pc' = "rollback" /\ local' = app' /\ UNCHANGED fresh
    <3>1. pc' \in WorkPCs
      BY <2>4 DEF WorkPCs
    <3>2. QED
      BY <2>1, <2>4, <3>1, OwnerWorkWrite
  <2>5. QED
    BY <1>9, <2>2, <2>3, <2>4 DEF RecordFailedRevision
<1>10. CASE BeginHelmRollback
  BY <1>10, OwnerQuietWork DEF BeginHelmRollback, WorkPCs
<1>11. CASE RefuseHelmRollback
  BY <1>11, OwnerQuietWork DEF RefuseHelmRollback, WorkPCs
<1>12. CASE FinishHelmRollback
  BY <1>12, OwnerQuietWork DEF FinishHelmRollback, WorkPCs
<1>13. CASE FailHelmRollback
  BY <1>13, OwnerQuietWork DEF FailHelmRollback, WorkPCs
<1>14. CASE WriteStatus
  <2>1. pc \in WorkPCs /\ Requeue /\ UNCHANGED <<cache, history>> /\ want \in Status
    BY <1>14 DEF WriteStatus, WorkPCs, TypeInv, TypeOK
  <2>2. CASE CommitStatus(want)
    BY <2>1, <2>2, OwnerWorkWrite
  <2>3. CASE UNCHANGED <<app, lag>>
    BY <2>1, <2>3, OwnerQuietWork
  <2>4. QED
    BY <1>14, <2>2, <2>3 DEF WriteStatus, Refuse, apiVars
<1>15. QED
  BY <1>1, <1>2, <1>3, <1>4, <1>5, <1>6, <1>7, <1>8, <1>9, <1>10, <1>11, <1>12,
     <1>13, <1>14

LEMMA OwnerAddFinalizer ==
    ASSUME TypeInv, OwnerInv, AddFinalizer
    PROVE  OwnerInv'
<1> USE DEF OwnerInv
<1>1. /\ pc = "addFinalizer" /\ pc' = "idle" /\ fresh' = FALSE
      /\ UNCHANGED <<cache, history>> /\ (queued' = TRUE \/ queued' = queued)
  BY DEF AddFinalizer, Finish, Requeue, Return
<1>2. local.exists /\ ~local.deleting /\ local \in Application
  BY <1>1 DEF JobInv, TypeInv, TypeOK
<1>3. JobInv'
  BY <1>1 DEF JobInv, WorkPCs
<1>4. CASE Commit([local EXCEPT !.finalizer = TRUE])
  <2> DEFINE obj == [local EXCEPT !.finalizer = TRUE]
  <2>1. /\ obj \in Application /\ obj.exists /\ obj.finalizer
        /\ ~obj.deleting
    BY <1>2 DEF Application
  <2>2. Store(obj) /\ app' = obj
    BY <1>4 DEF Commit, Store
  <2> HIDE DEF obj
  <2>3. Managed' /\ ~app'.deleting
    BY <2>1, <2>2 DEF Managed
  <2>4. lag' # <<>> /\ lag'[Len(lag')] = app' /\ LiveCopiesInv'
    BY <1>1, <2>1, <2>2, <2>3, StoreCopies DEF TypeInv
  <2>5. FinalizerGuardsRelease' /\ AppInv' /\ NeverForgotten' /\ CopiesInv'
    BY <1>1, <2>3, <2>4
       DEF FinalizerGuardsRelease, AppInv, Managed, NeverForgotten, CopiesInv
  <2>6. QED
    BY <1>3, <2>4, <2>5
<1>5. CASE Refuse /\ Requeue
  <2>1. UNCHANGED <<app, cache, lag>> /\ queued' = TRUE
    BY <1>1, <1>5 DEF Refuse, apiVars, Requeue
  <2>2. /\ LiveCopiesInv' /\ AppInv'
        /\ (lag' = <<>> => cache' = app') /\ (lag' # <<>> => lag'[Len(lag')] = app')
    BY <2>1, QuietCopies
  <2>3. FinalizerGuardsRelease' /\ NeverForgotten' /\ CopiesInv'
    BY <1>1, <2>1, <2>2 DEF FinalizerGuardsRelease, NeverForgotten, CopiesInv
  <2>4. QED
    BY <1>3, <2>2, <2>3
<1>6. QED
  BY <1>4, <1>5 DEF AddFinalizer

LEMMA OwnerUninstall ==
    ASSUME TypeInv, OwnerInv, Uninstall
    PROVE  OwnerInv'
<1> USE DEF OwnerInv
<1>1. pc = "uninstall" /\ UNCHANGED <<app, cache, lag>>
  BY DEF Uninstall
<1>2. /\ LiveCopiesInv' /\ AppInv'
      /\ (lag' = <<>> => cache' = app') /\ (lag' # <<>> => lag'[Len(lag')] = app')
  BY <1>1, QuietCopies
<1>3. history' # {} => history # {}
  <2>1. history \in History
    BY DEF TypeInv, TypeOK, History
  <2>2. QED
    BY <2>1, UninstallProperties DEF Uninstall
<1>4. FinalizerGuardsRelease'
  BY <1>1, <1>3 DEF FinalizerGuardsRelease
<1>5. CASE pc' = "removeFinalizer" /\ UNCHANGED <<local, fresh>>
             /\ history' = FinishUninstall(history)
  <2>1. CopiesInv' /\ NeverForgotten'
    BY <1>1, <1>2, <1>5 DEF CopiesInv, NeverForgotten
  <2>2. JobInv'
    BY <1>1, <1>5 DEF JobInv, WorkPCs, FinishUninstall
  <2>3. QED
    BY <1>2, <1>4, <2>1, <2>2
<1>6. CASE Requeue
  BY <1>1, <1>2, <1>4, <1>6
     DEF Requeue, Return, CopiesInv, NeverForgotten, JobInv, WorkPCs
<1>7. QED
  BY <1>5, <1>6 DEF Uninstall

(* The finalizer goes: no copy shows the Application alive any more, since *)
(* the version that is written is still the stored one and the cache has   *)
(* nothing left to catch up with.                                          *)
LEMMA OwnerRemoveFinalizer ==
    ASSUME TypeInv, OwnerInv, RemoveFinalizer
    PROVE  OwnerInv'
<1> USE DEF OwnerInv
<1>1. /\ pc = "removeFinalizer" /\ pc' = "idle" /\ fresh' = FALSE
      /\ UNCHANGED <<cache, history>>
  BY DEF RemoveFinalizer, Finish, Requeue, Return
<1>2. history' = {} /\ local.deleting
  BY <1>1 DEF JobInv
<1>3. FinalizerGuardsRelease' /\ JobInv'
  BY <1>1, <1>2 DEF FinalizerGuardsRelease, JobInv, WorkPCs
<1>4. CASE Commit(Absent(app.uid))
  <2>1. fresh /\ app' = Absent(app.uid) /\ lag' = Append(lag, Absent(app.uid))
    BY <1>4 DEF Commit, Store
  <2>2. lag = <<>> /\ cache.deleting
    BY <1>1, <1>2, <2>1 DEF JobInv, CopiesInv
  <2>3. Absent(app.uid) \in Application
    BY AbsentType, ApplicationFields DEF TypeInv, TypeOK
  <2>4. Len(lag') = 1 /\ lag'[1] = Absent(app.uid) /\ lag' # <<>>
    BY <2>1, <2>2, <2>3
  <2>5. ~Live(cache') /\ \A i \in 1 .. Len(lag') : ~Live(lag'[i])
    <3>1. ~Live(cache) /\ ~Live(Absent(app.uid))
      BY <2>2, AbsentFields DEF Live
    <3>2. \A i \in 1 .. Len(lag') : i = 1
      BY <2>4
    <3>3. QED
      BY <1>1, <2>4, <3>1, <3>2
  <2>6. LiveCopiesInv' /\ CopiesInv'
    BY <1>1, <2>1, <2>4, <2>5 DEF LiveCopiesInv, CopiesInv, Live
  <2>7. AppInv' /\ NeverForgotten'
    BY <2>1, <2>4, AbsentFields DEF AppInv, NeverForgotten
  <2>8. QED
    BY <1>3, <2>6, <2>7
<1>5. CASE Refuse /\ Requeue
  <2>1. UNCHANGED <<app, cache, lag>> /\ queued' = TRUE
    BY <1>1, <1>5 DEF Refuse, apiVars, Requeue
  <2>2. /\ LiveCopiesInv' /\ AppInv'
        /\ (lag' = <<>> => cache' = app') /\ (lag' # <<>> => lag'[Len(lag')] = app')
    BY <2>1, QuietCopies
  <2>3. NeverForgotten' /\ CopiesInv'
    BY <1>1, <2>1, <2>2 DEF NeverForgotten, CopiesInv
  <2>4. QED
    BY <1>3, <2>2, <2>3
<1>6. QED
  BY <1>4, <1>5 DEF RemoveFinalizer

LEMMA OwnerUser ==
    ASSUME TypeInv, OwnerInv,
           \/ CreateApplication \/ EditSpec \/ TouchMetadata \/ DeleteApplication
    PROVE  OwnerInv'
<1> USE DEF OwnerInv
(* A write that keeps a managed Application managed.                       *)
<1>1. ASSUME NEW obj \in Application, UserWrite(obj),
             Managed => obj.exists /\ obj.finalizer,
             obj.finalizer => obj.exists, obj.deleting => obj.exists /\ obj.finalizer,
             ~obj.finalizer => ~AlreadyRolledBack(obj.status)
      PROVE  OwnerInv'
  <2>1. /\ Store(obj) /\ app' = obj /\ fresh' = FALSE
        /\ UNCHANGED <<cache, pc, local, history, queued>>
    BY <1>1 DEF UserWrite, Store
  <2>2. Managed => Managed'
    BY <1>1, <2>1 DEF Managed
  <2>3. lag' # <<>> /\ lag'[Len(lag')] = app' /\ LiveCopiesInv'
    BY <1>1, <2>1, <2>2, StoreCopies DEF TypeInv
  <2>4. CopiesInv' /\ NeverForgotten'
    BY <2>1, <2>3 DEF CopiesInv, NeverForgotten
  <2>5. AppInv'
    BY <1>1, <2>1 DEF AppInv, Managed
  <2>6. FinalizerGuardsRelease'
    BY <2>1, <2>2 DEF FinalizerGuardsRelease, Managed
  <2>7. JobInv'
    BY <2>1, <2>2 DEF JobInv, Live
  <2>8. QED
    BY <2>3, <2>4, <2>5, <2>6, <2>7
<1>2. app \in Application
  BY DEF TypeInv, TypeOK
<1>3. CASE CreateApplication
  <2>1. PICK c \in Charts, r \in RefChoices : UserWrite(Created(app.uid + 1, c, r))
    BY <1>3 DEF CreateApplication
  <2>2. Created(app.uid + 1, c, r) \in Application
    BY <1>2, ApplicationFields, ReconcilerAssumption, CreatedType
  <2>3. ~Managed
    BY <1>3 DEF CreateApplication, Managed
  <2> DEFINE obj == Created(app.uid + 1, c, r)
  <2>4. obj.exists /\ ~obj.deleting /\ ~AlreadyRolledBack(obj.status)
    BY CreatedFields
  <2>5. obj \in Application /\ UserWrite(obj)
    BY <2>1, <2>2
  <2> HIDE DEF obj
  <2>6. QED
    BY <1>1, <2>3, <2>4, <2>5
<1>4. CASE EditSpec
  <2>1. PICK c \in Charts, r \in RefChoices :
          UserWrite([app EXCEPT !.gen = @ + 1, !.chart = c, !.ref = r])
    BY <1>4 DEF EditSpec
  <2> DEFINE obj == [app EXCEPT !.gen = @ + 1, !.chart = c, !.ref = r]
  <2>2. obj \in Application
    BY <1>2, UserEditTypes, ReconcilerAssumption
  <2>3. /\ obj.exists = app.exists /\ obj.finalizer = app.finalizer
        /\ obj.deleting = app.deleting /\ obj.status = app.status
    BY <1>2 DEF Application
  <2>4. UserWrite(obj)
    BY <2>1
  <2> HIDE DEF obj
  <2>5. /\ Managed => obj.exists /\ obj.finalizer
        /\ obj.finalizer => obj.exists
        /\ obj.deleting => obj.exists /\ obj.finalizer
        /\ ~obj.finalizer => ~AlreadyRolledBack(obj.status)
    BY <2>3 DEF AppInv, Managed
  <2>6. QED
    BY <1>1, <2>2, <2>4, <2>5
<1>5. CASE TouchMetadata
  BY <1>1, <1>2, <1>5 DEF TouchMetadata, AppInv, Managed
<1>6. CASE DeleteApplication
  <2>1. CASE app.finalizer
    <3> DEFINE obj == [app EXCEPT !.deleting = TRUE, !.gen = @ + 1]
    <3>1. obj \in Application
      BY <1>2, UserEditTypes
    <3>2. /\ obj.exists = app.exists /\ obj.finalizer = app.finalizer
          /\ obj.status = app.status
      BY <1>2 DEF Application
    <3>3. UserWrite(obj)
      BY <1>6, <2>1 DEF DeleteApplication
    <3> HIDE DEF obj
    <3>4. QED
      BY <1>1, <2>1, <3>1, <3>2, <3>3 DEF AppInv, Managed
  <2>2. CASE ~app.finalizer
    <3>1. UserWrite(Absent(app.uid)) /\ Absent(app.uid) \in Application
      BY <1>2, <1>6, <2>2, AbsentType, ApplicationFields DEF DeleteApplication
    <3>2. QED
      BY <1>1, <2>2, <3>1, AbsentFields DEF Managed
  <2>3. QED
    BY <2>1, <2>2
<1>7. QED
  BY <1>3, <1>4, <1>5, <1>6

LEMMA OwnerDeliverEvent ==
    ASSUME TypeInv, OwnerInv, DeliverEvent
    PROVE  OwnerInv'
<1> USE DEF OwnerInv
<1>1. /\ lag # <<>> /\ cache' = Head(lag) /\ lag' = Tail(lag) /\ queued' = TRUE
      /\ UNCHANGED <<app, pc, local, fresh, want, history>>
  BY DEF DeliverEvent, jobVars
<1>2. lag \in Seq(Application) /\ Len(lag) \in Nat /\ Len(lag) > 0
  BY <1>1, LenProperties, EmptySeq DEF TypeInv, TypeOK
<1>3. /\ Head(lag) = lag[1] /\ Len(Tail(lag)) = Len(lag) - 1
      /\ Tail(lag) \in Seq(Application)
      /\ \A i \in 1 .. Len(lag) - 1 : Tail(lag)[i] = lag[i + 1]
  BY <1>1, <1>2, HeadTailProperties
<1>4. Managed' <=> Managed
  BY <1>1 DEF Managed
<1>5. LiveCopiesInv'
  <2>1. Live(cache') => Managed'
    BY <1>1, <1>2, <1>3, <1>4 DEF LiveCopiesInv
  <2>2. ASSUME NEW i \in 1 .. Len(lag'), Live(lag'[i])
        PROVE  Managed'
    <3>1. i \in 1 .. Len(lag) - 1 /\ i + 1 \in 1 .. Len(lag)
      BY <1>1, <1>2, <1>3
    <3>2. lag'[i] = lag[i + 1]
      BY <1>1, <1>3, <3>1
    <3>3. QED
      BY <1>4, <2>2, <3>1, <3>2 DEF LiveCopiesInv
  <2>3. QED
    BY <2>1, <2>2 DEF LiveCopiesInv, Live
<1>6. CopiesInv'
  <2>1. CASE Len(lag) = 1
    <3>1. Tail(lag) = <<>> /\ Head(lag) = app
      BY <1>1, <1>2, <1>3, <2>1, EmptySeq DEF CopiesInv
    <3>2. QED
      BY <1>1, <3>1 DEF CopiesInv
  <2>2. CASE Len(lag) > 1
    <3>1. /\ Len(lag) - 1 \in 1 .. Len(lag) - 1
          /\ (Len(lag) - 1) + 1 = Len(lag) /\ Len(lag) - 1 # 0
      BY <1>2, <2>2
    <3>2. Tail(lag)[Len(Tail(lag))] = lag[Len(lag)]
      BY <1>3, <3>1
    <3>3. Tail(lag) # <<>>
      BY <1>3, <3>1, EmptySeq
    <3>4. QED
      BY <1>1, <3>2, <3>3 DEF CopiesInv
  <2>3. Len(lag) = 1 \/ Len(lag) > 1
    <3>1. \A n \in Nat : n > 0 => n = 1 \/ n > 1
      OBVIOUS
    <3>2. QED
      BY <1>2, <3>1
  <2>4. QED
    BY <2>1, <2>2, <2>3
<1>7. JobInv'
  <2>1. pc \in {"uninstall", "removeFinalizer"} => ~fresh
    BY <1>1 DEF JobInv
  <2>2. QED
    BY <1>1, <1>4, <2>1 DEF JobInv, Live
<1>8. AppInv' /\ FinalizerGuardsRelease' /\ NeverForgotten'
  BY <1>1, <1>4 DEF AppInv, FinalizerGuardsRelease, NeverForgotten, Managed
<1>9. QED
  BY <1>5, <1>6, <1>7, <1>8

(* Time changes only how old the start times are.                          *)
LEMMA LateFields ==
    ASSUME NEW a \in Application
    PROVE  LET b == [a EXCEPT !.status = Expire(@)]
           IN  /\ b.exists = a.exists /\ b.finalizer = a.finalizer
               /\ b.deleting = a.deleting /\ b.status = Expire(a.status)
               /\ b.gen = a.gen /\ b.uid = a.uid
               /\ Live(b) <=> Live(a)
BY DEF Application, Live

LEMMA ExpireFields ==
    ASSUME NEW s \in Status
    PROVE  /\ Expire(s).lfr = s.lfr /\ Expire(s).obsGen = s.obsGen
           /\ Expire(s).hash = s.hash /\ Expire(s).rev = s.rev
           /\ Expire(s).ready = s.ready /\ Expire(s).phase = s.phase
           /\ Expire(s).healthy = s.healthy /\ Expire(s).readyGen = s.readyGen
           /\ AlreadyRolledBack(Expire(s)) <=> AlreadyRolledBack(s)
BY DEF Expire, Status, AlreadyRolledBack

LEMMA OwnerDeadlinePasses ==
    ASSUME TypeInv, OwnerInv, DeadlinePasses
    PROVE  OwnerInv'
<1> USE DEF OwnerInv
<1> DEFINE Late(a) == [a EXCEPT !.status = Expire(@)]
<1>1. /\ app' = Late(app) /\ cache' = Late(cache) /\ local' = Late(local)
      /\ lag' = [i \in 1 .. Len(lag) |-> Late(lag[i])]
      /\ UNCHANGED <<queued, pc, fresh, history>>
  BY DEF DeadlinePasses
<1>2. /\ app \in Application /\ cache \in Application /\ local \in Application
      /\ lag \in Seq(Application) /\ Len(lag) \in Nat
      /\ \A i \in 1 .. Len(lag) : lag[i] \in Application
  BY LenProperties, ElementOfSeq DEF TypeInv, TypeOK
<1>3. \A a \in Application :
        /\ Late(a).exists = a.exists /\ Late(a).finalizer = a.finalizer
        /\ Late(a).deleting = a.deleting /\ (Live(Late(a)) <=> Live(a))
        /\ AlreadyRolledBack(Late(a).status) <=> AlreadyRolledBack(a.status)
  BY LateFields, ExpireFields, ApplicationFields
<1> HIDE DEF Late
<1>4. /\ Len(lag') = Len(lag) /\ (lag' = <<>> <=> lag = <<>>)
      /\ \A i \in 1 .. Len(lag) : lag'[i] = Late(lag[i])
  <2>1. lag' \in Seq(Application)
    BY TypeDeadlinePasses DEF TypeInv, TypeOK
  <2>2. DOMAIN lag' = 1 .. Len(lag)
    BY <1>1
  <2>3. Len(lag') = Len(lag)
    BY <1>2, <2>1, <2>2, LenProperties
  <2>4. QED
    BY <1>1, <1>2, <2>1, <2>3, EmptySeq
<1>5. Managed' <=> Managed
  BY <1>1, <1>2, <1>3 DEF Managed
<1>6. LiveCopiesInv'
  BY <1>1, <1>2, <1>3, <1>4, <1>5 DEF LiveCopiesInv
<1>7. CopiesInv'
  <2>1. lag # <<>> => Len(lag) \in 1 .. Len(lag)
    BY <1>2, EmptySeq
  <2>2. QED
    BY <1>1, <1>4, <2>1 DEF CopiesInv
<1>8. AppInv' /\ FinalizerGuardsRelease' /\ NeverForgotten'
  BY <1>1, <1>2, <1>3, <1>4, <1>5
     DEF AppInv, FinalizerGuardsRelease, NeverForgotten, Managed
<1>9. JobInv'
  BY <1>1, <1>2, <1>3, <1>4, <1>5 DEF JobInv
<1>10. QED
  BY <1>6, <1>7, <1>8, <1>9

LEMMA OwnerOther ==
    ASSUME TypeInv, OwnerInv,
           EditSecret \/ LoseRelease \/ Crash \/ UNCHANGED vars
    PROVE  OwnerInv'
<1> USE DEF OwnerInv
<1>1. CASE EditSecret \/ LoseRelease \/ UNCHANGED vars
  <2>1. /\ UNCHANGED <<app, cache, lag, pc, local, fresh>>
        /\ history' = {} \/ history' = history
        /\ queued => queued'
    <3>1. CASE EditSecret
      BY <3>1 DEF EditSecret, jobVars
    <3>2. CASE LoseRelease
      BY <3>2 DEF LoseRelease, jobVars
    <3>3. CASE UNCHANGED vars
      BY <3>3 DEF vars
    <3>4. QED
      BY <1>1, <3>1, <3>2, <3>3
  <2>2. /\ LiveCopiesInv' /\ AppInv' /\ (Managed' <=> Managed)
        /\ (lag' = <<>> => cache' = app') /\ (lag' # <<>> => lag'[Len(lag')] = app')
    BY <2>1, QuietCopies
  <2>3. CopiesInv' /\ NeverForgotten' /\ FinalizerGuardsRelease'
    BY <2>1, <2>2 DEF CopiesInv, NeverForgotten, FinalizerGuardsRelease
  <2>4. JobInv'
    BY <2>1, <2>2 DEF JobInv, Live
  <2>5. QED
    BY <2>2, <2>3, <2>4
<1>2. CASE Crash
  <2>1. /\ pc' = "idle" /\ fresh' = FALSE /\ cache' = app /\ lag' = <<>>
        /\ queued' = app.exists /\ UNCHANGED <<app, history>>
    BY <1>2 DEF Crash, Return
  <2>2. Len(lag') = 0 /\ (Managed' <=> Managed)
    BY <2>1 DEF Managed
  <2>3. LiveCopiesInv' /\ CopiesInv' /\ JobInv'
    BY <2>1, <2>2 DEF LiveCopiesInv, CopiesInv, JobInv, WorkPCs, Live, Managed
  <2>4. AppInv' /\ FinalizerGuardsRelease' /\ NeverForgotten'
    BY <2>1, <2>2 DEF AppInv, FinalizerGuardsRelease, NeverForgotten, Managed
  <2>5. QED
    BY <2>3, <2>4
<1>3. QED
  BY <1>1, <1>2

LEMMA OwnerNext ==
    ASSUME TypeInv, OwnerInv, [Next]_vars
    PROVE  OwnerInv'
BY OwnerReconcile, OwnerAddFinalizer, OwnerWork, OwnerUninstall,
   OwnerRemoveFinalizer, OwnerUser, OwnerDeliverEvent, OwnerDeadlinePasses,
   OwnerOther
   DEF Next, Controller, Environment

(* The inductive invariant on which the other theorems rest.               *)
THEOREM OwnerInvariant == Spec => []OwnerInv
<1>1. TypeInv /\ OwnerInv /\ [Next]_vars => OwnerInv'
  BY OwnerNext
<1>2. QED
  BY <1>1, TypeCorrect, OwnerInit, PTL DEF Spec

(* No release is ever stored by Helm without an Application that exists    *)
(* and carries the finalizer which will uninstall it, whatever the cache   *)
(* shows and wherever the operator crashes.                                *)
THEOREM ReleaseIsOwned == Spec => []FinalizerGuardsRelease
<1>1. OwnerInv => FinalizerGuardsRelease
  BY DEF OwnerInv
<1>2. QED
  BY <1>1, OwnerInvariant, PTL

(* No Application that exists is ever forgotten by the work queue.         *)
THEOREM ApplicationIsRemembered == Spec => []NeverForgotten
<1>1. OwnerInv => NeverForgotten
  BY DEF OwnerInv
<1>2. QED
  BY <1>1, OwnerInvariant, PTL
----------------------------------------------------------------------------
(* The revision an Application records.  As long as nobody else removes    *)
(* the release, Helm still stores the revision that the status names, or a *)
(* later one.  An uninstall takes the numbers back, so the proof follows   *)
(* deleted versions: whatever comes after one has nothing recorded yet.    *)

Unrecorded(a) == a.exists /\ ~a.deleting => a.status.rev = 0

WritePCs == WorkPCs \cup {"addFinalizer"}

DeletedInv ==
    /\ cache.deleting \/ pc = "uninstall" => \A i \in 1 .. Len(lag) : Unrecorded(lag[i])
    /\ pc = "uninstall" => Unrecorded(cache)
    /\ \A i, j \in 1 .. Len(lag) : i < j /\ lag[i].deleting => Unrecorded(lag[j])
    /\ fresh /\ pc \in WritePCs =>
         ~cache.deleting /\ \A i \in 1 .. Len(lag) : ~lag[i].deleting

LEMMA DeletedInit == Init => DeletedInv
<1> SUFFICES ASSUME Init PROVE DeletedInv
  OBVIOUS
<1>1. lag = <<>> /\ pc = "idle" /\ fresh = FALSE
  BY DEF Init
<1>2. 1 .. Len(lag) = {}
  BY <1>1
<1> QED  BY <1>1, <1>2 DEF DeletedInv

(* A step that writes nothing, and begins no deletion and no writing.      *)
LEMMA DeletedQuiet ==
    ASSUME DeletedInv, UNCHANGED <<cache, lag>>,
           pc' = "uninstall" => pc = "uninstall",
           fresh' /\ pc' \in WritePCs => fresh /\ pc \in WritePCs
    PROVE  DeletedInv'
BY DEF DeletedInv, Unrecorded

(* A new version, with nothing recorded if an earlier one was deleted.     *)
LEMMA DeletedStore ==
    ASSUME TypeInv, DeletedInv, NEW obj \in Application, Store(obj), cache' = cache,
           cache.deleting \/ pc = "uninstall" \/ (\E i \in 1 .. Len(lag) : lag[i].deleting)
             => Unrecorded(obj),
           pc' = "uninstall" => pc = "uninstall",
           fresh' /\ pc' \in WritePCs => fresh /\ pc \in WritePCs /\ ~obj.deleting
    PROVE  DeletedInv'
<1>1. lag' = Append(lag, obj) /\ lag \in Seq(Application) /\ Len(lag) \in Nat
  BY LenProperties DEF Store, TypeInv, TypeOK
<1>2. \A i \in 1 .. Len(lag') :
        \/ i \in 1 .. Len(lag) /\ lag'[i] = lag[i]
        \/ i \notin 1 .. Len(lag) /\ lag'[i] = obj
  BY <1>1
<1>3. ASSUME cache'.deleting \/ pc' = "uninstall", NEW i \in 1 .. Len(lag')
      PROVE  Unrecorded(lag'[i])
  BY <1>2, <1>3 DEF DeletedInv
<1>4. pc' = "uninstall" => Unrecorded(cache')
  BY DEF DeletedInv
<1>5. ASSUME NEW i \in 1 .. Len(lag'), NEW j \in 1 .. Len(lag'), i < j, lag'[i].deleting
      PROVE  Unrecorded(lag'[j])
  <2>1. i \in 1 .. Len(lag) /\ lag'[i] = lag[i]
    <3>1. Len(lag') = Len(lag) + 1
      BY <1>1
    <3>2. i \in 1 .. Len(lag)
      BY <1>1, <1>5, <3>1
    <3> QED  BY <1>2, <3>2
  <2> QED  BY <1>2, <1>5, <2>1 DEF DeletedInv
<1>6. ASSUME fresh', pc' \in WritePCs
      PROVE  ~cache'.deleting /\ \A i \in 1 .. Len(lag') : ~lag'[i].deleting
  BY <1>2, <1>6 DEF DeletedInv
<1> QED  BY <1>3, <1>4, <1>5, <1>6 DEF DeletedInv, Unrecorded

(* The stored version is the last of the copies.                           *)
LEMMA AppIsCopy ==
    ASSUME TypeInv, CopiesInv, DeletedInv,
           cache.deleting \/ pc = "uninstall" \/ (\E i \in 1 .. Len(lag) : lag[i].deleting)
    PROVE  Unrecorded(app)
<1>1. CASE lag = <<>>
  <2>1. cache = app /\ 1 .. Len(lag) = {}
    BY <1>1, EmptySeq DEF CopiesInv
  <2> QED  BY <2>1 DEF DeletedInv, Unrecorded
<1>2. CASE lag # <<>>
  <2>1. lag[Len(lag)] = app /\ Len(lag) \in 1 .. Len(lag) /\ Len(lag) \in Nat
    BY <1>2, EmptySeq, LenProperties DEF CopiesInv, TypeInv, TypeOK
  <2>2. CASE cache.deleting \/ pc = "uninstall"
    BY <2>1, <2>2 DEF DeletedInv
  <2>3. ASSUME NEW i \in 1 .. Len(lag), lag[i].deleting PROVE Unrecorded(app)
    <3>1. CASE i = Len(lag)
      BY <2>1, <2>3, <3>1 DEF Unrecorded
    <3>2. CASE i # Len(lag)
      <4>1. i < Len(lag)
        BY <2>1, <2>3, <3>2
      <4> QED  BY <2>1, <2>3, <4>1 DEF DeletedInv
    <3> QED  BY <3>1, <3>2
  <2> QED  BY <2>2, <2>3
<1> QED  BY <1>1, <1>2

LEMMA DeletedReconcile ==
    ASSUME TypeInv, OwnerInv, DeletedInv, Reconcile PROVE DeletedInv'
<1>1. pc = "idle" /\ UNCHANGED <<app, cache, lag>>
  BY DEF Reconcile, Load, Dequeue
<1>2. CASE UNCHANGED jobVars
  BY <1>1, <1>2, DeletedQuiet DEF jobVars
<1>3. ASSUME NEW next, NEW st, Load(next, st),
             IF next = "uninstall" THEN cache.deleting ELSE ~cache.deleting
      PROVE  DeletedInv'
  <2>1. pc' = next /\ fresh' = (lag = <<>>)
    BY <1>3 DEF Load
  <2>2. fresh' => 1 .. Len(lag) = {}
    <3>1. lag = <<>> => 1 .. Len(lag) = {}
      BY EmptySeq
    <3> QED  BY <2>1, <3>1
  <2>3. next = "uninstall" => Unrecorded(cache) /\ \A i \in 1 .. Len(lag) : Unrecorded(lag[i])
    BY <1>3 DEF DeletedInv, Unrecorded
  <2>4. next \in WritePCs => ~cache.deleting
    BY <1>3 DEF WritePCs, WorkPCs
  <2> QED  BY <1>1, <2>1, <2>2, <2>3, <2>4 DEF DeletedInv, Unrecorded
<1> QED  BY <1>2, <1>3 DEF Reconcile

LEMMA DeletedWork ==
    ASSUME DeletedInv, NEW h,
           \/ BeginInstallOrUpgrade \/ RefuseInstallOrUpgrade
           \/ FinishInstallOrUpgrade \/ FailInstallOrUpgrade
           \/ HealthError \/ reconcileHealth(h) \/ handleUnhealthy(h)
           \/ BeginHelmRollback \/ RefuseHelmRollback
           \/ FinishHelmRollback \/ FailHelmRollback \/ Uninstall
    PROVE  DeletedInv'
<1>1. /\ UNCHANGED <<cache, lag>> /\ pc' # "uninstall"
      /\ \/ pc \in WorkPCs /\ UNCHANGED fresh
         \/ pc' \in {"idle", "removeFinalizer"}
  BY DEF BeginInstallOrUpgrade, RefuseInstallOrUpgrade, FinishInstallOrUpgrade,
         FailInstallOrUpgrade, HealthError, reconcileHealth, handleUnhealthy,
         WriteIfChanged, BeginHelmRollback, RefuseHelmRollback, FinishHelmRollback,
         FailHelmRollback, Uninstall, Requeue, Return, WorkPCs
<1>2. {"idle", "removeFinalizer"} \cap WritePCs = {} /\ WorkPCs \subseteq WritePCs
  BY DEF WritePCs, WorkPCs
<1> QED  BY <1>1, <1>2, DeletedQuiet

LEMMA DeletedWrite ==
    ASSUME TypeInv, OwnerInv, DeletedInv,
           \/ AddFinalizer \/ RecordApplied \/ RecordFailedRevision
           \/ WriteStatus \/ RemoveFinalizer
    PROVE  DeletedInv'
<1>1. /\ UNCHANGED cache /\ local \in Application /\ want \in Status
      /\ pc' = "idle" \/ (pc = "fence" /\ pc' = "rollback" /\ UNCHANGED fresh)
  BY DEF AddFinalizer, RecordApplied, RecordFailedRevision, WriteStatus, RemoveFinalizer,
         Finish, Requeue, Return, TypeInv, TypeOK
<1>2. "idle" \notin WritePCs /\ {"fence", "rollback"} \subseteq WritePCs
  BY DEF WritePCs, WorkPCs
<1>3. CASE UNCHANGED lag
  BY <1>1, <1>2, <1>3, DeletedQuiet
<1>4. ASSUME NEW obj \in Application, Store(obj), fresh, pc \in WritePCs, ~obj.deleting
      PROVE  DeletedInv'
  <2>1. ~cache.deleting /\ pc # "uninstall" /\ \A i \in 1 .. Len(lag) : ~lag[i].deleting
    BY <1>4 DEF DeletedInv, WritePCs, WorkPCs
  <2> QED  BY <1>1, <1>2, <1>4, <2>1, DeletedStore
<1>5. CASE CommitStatus(want) /\ pc \in WorkPCs
  <2> DEFINE obj == [local EXCEPT !.status = want]
  <2>1. Store(obj) /\ fresh /\ ~local.deleting
    BY <1>5 DEF CommitStatus, Commit, OwnerInv, JobInv, Live
  <2>2. obj \in Application /\ ~obj.deleting
    BY <1>1, <2>1, WithStatusType, WithStatusFields
  <2> HIDE DEF obj
  <2> QED  BY <1>4, <1>5, <2>1, <2>2 DEF WritePCs
<1>6. CASE AddFinalizer /\ Commit([local EXCEPT !.finalizer = TRUE])
  <2> DEFINE obj == [local EXCEPT !.finalizer = TRUE]
  <2>1. Store(obj) /\ fresh /\ ~local.deleting /\ pc \in WritePCs
    BY <1>6 DEF AddFinalizer, Commit, OwnerInv, JobInv, WritePCs
  <2>2. obj \in Application /\ ~obj.deleting
    BY <1>1, <2>1 DEF Application
  <2> HIDE DEF obj
  <2> QED  BY <1>4, <2>1, <2>2
<1>7. CASE RemoveFinalizer /\ Commit(Absent(app.uid))
  <2>1. Store(Absent(app.uid)) /\ pc' = "idle" /\ Absent(app.uid) \in Application
    BY <1>7, AbsentType, ApplicationFields
       DEF RemoveFinalizer, Commit, Finish, Requeue, Return, TypeInv, TypeOK
  <2>2. Unrecorded(Absent(app.uid))
    BY AbsentFields DEF Unrecorded
  <2> QED  BY <1>1, <1>2, <2>1, <2>2, DeletedStore
<1> QED  BY <1>3, <1>5, <1>6, <1>7
         DEF AddFinalizer, RecordApplied, RecordFailedRevision, WriteStatus,
             RemoveFinalizer, Refuse, apiVars, WorkPCs

LEMMA DeletedUser ==
    ASSUME TypeInv, OwnerInv, DeletedInv,
           \/ CreateApplication \/ EditSpec \/ TouchMetadata \/ DeleteApplication
    PROVE  DeletedInv'
<1>1. /\ UNCHANGED <<cache, pc>> /\ fresh' = FALSE /\ app \in Application
      /\ app' \in Application /\ Store(app')
  <2>1. TypeOK'
    BY TypeUser DEF TypeInv
  <2> QED  BY <2>1 DEF CreateApplication, EditSpec, TouchMetadata, DeleteApplication,
                       UserWrite, Store, TypeInv, TypeOK
<1>2. ASSUME Unrecorded(app) => Unrecorded(app') PROVE DeletedInv'
  BY <1>1, <1>2, AppIsCopy, DeletedStore DEF OwnerInv
<1>3. CASE CreateApplication
  <2>1. PICK c \in Charts, r \in RefChoices : app' = Created(app.uid + 1, c, r)
    BY <1>3 DEF CreateApplication, UserWrite, Store
  <2>2. Created(app.uid + 1, c, r).status.rev = 0
    BY DEF Created, Absent, EmptyStatus
  <2> QED  BY <1>2, <2>1, <2>2 DEF Unrecorded
<1>4. CASE EditSpec
  <2>1. PICK c \in Charts, r \in RefChoices :
          app' = [app EXCEPT !.gen = @ + 1, !.chart = c, !.ref = r]
    BY <1>4 DEF EditSpec, UserWrite, Store
  <2>2. app'.exists = app.exists /\ app'.deleting = app.deleting /\ app'.status = app.status
    BY <1>1, <2>1 DEF Application
  <2> QED  BY <1>2, <2>2 DEF Unrecorded
<1>5. CASE TouchMetadata
  BY <1>2, <1>5 DEF TouchMetadata, UserWrite, Store, Unrecorded
<1>6. CASE DeleteApplication
  <2>1. CASE app' = [app EXCEPT !.deleting = TRUE, !.gen = @ + 1]
    <3>1. app'.deleting
      BY <1>1, <2>1 DEF Application
    <3> QED  BY <1>2, <3>1 DEF Unrecorded
  <2>2. CASE app' = Absent(app.uid)
    BY <1>2, <2>2, AbsentFields DEF Unrecorded
  <2> QED  BY <1>6, <2>1, <2>2 DEF DeleteApplication, UserWrite, Store
<1> QED  BY <1>3, <1>4, <1>5, <1>6

LEMMA DeletedOther ==
    ASSUME TypeInv, DeletedInv,
           DeliverEvent \/ EditSecret \/ LoseRelease \/ Crash \/ UNCHANGED vars
    PROVE  DeletedInv'
<1>1. CASE EditSecret \/ LoseRelease \/ UNCHANGED vars
  BY <1>1, DeletedQuiet DEF EditSecret, LoseRelease, vars, jobVars
<1>2. CASE DeliverEvent
  <2>1. lag \in Seq(Application) /\ lag # <<>> /\ cache' = Head(lag) /\ lag' = Tail(lag)
        /\ UNCHANGED <<pc, fresh>>
    BY <1>2 DEF DeliverEvent, jobVars, TypeInv, TypeOK
  <2>2. /\ Head(lag) = lag[1] /\ 1 \in 1 .. Len(lag)
        /\ \A i \in 1 .. Len(Tail(lag)) :
             i + 1 \in 1 .. Len(lag) /\ Tail(lag)[i] = lag[i + 1] /\ 1 < i + 1
        /\ \A i, j \in 1 .. Len(Tail(lag)) : i < j => i + 1 < j + 1
    BY <2>1
  <2>3. ASSUME cache'.deleting \/ pc' = "uninstall", NEW i \in 1 .. Len(lag')
        PROVE  Unrecorded(lag'[i])
    BY <2>1, <2>2, <2>3 DEF DeletedInv
  <2>4. pc' = "uninstall" => Unrecorded(cache')
    BY <2>1, <2>2 DEF DeletedInv
  <2>5. ASSUME NEW i \in 1 .. Len(lag'), NEW j \in 1 .. Len(lag'), i < j, lag'[i].deleting
        PROVE  Unrecorded(lag'[j])
    BY <2>1, <2>2, <2>5 DEF DeletedInv
  <2>6. ASSUME fresh', pc' \in WritePCs
        PROVE  ~cache'.deleting /\ \A i \in 1 .. Len(lag') : ~lag'[i].deleting
    BY <2>1, <2>2, <2>6 DEF DeletedInv
  <2> QED  BY <2>3, <2>4, <2>5, <2>6 DEF DeletedInv, Unrecorded
<1>3. CASE Crash
  <2>1. lag' = <<>> /\ pc' = "idle" /\ fresh' = FALSE
    BY <1>3 DEF Crash, Return
  <2>2. 1 .. Len(lag') = {}
    BY <2>1
  <2> QED  BY <2>1, <2>2 DEF DeletedInv
<1> QED  BY <1>1, <1>2, <1>3

LEMMA DeletedDeadlinePasses ==
    ASSUME TypeInv, DeletedInv, DeadlinePasses PROVE DeletedInv'
<1> DEFINE Late(a) == [a EXCEPT !.status = Expire(@)]
<1>1. /\ cache' = Late(cache) /\ lag' = [i \in 1 .. Len(lag) |-> Late(lag[i])]
      /\ UNCHANGED <<pc, fresh>>
  BY DEF DeadlinePasses
<1>2. /\ cache \in Application /\ lag \in Seq(Application) /\ Len(lag) \in Nat
      /\ \A i \in 1 .. Len(lag) : lag[i] \in Application
  BY LenProperties, ElementOfSeq DEF TypeInv, TypeOK
<1>3. \A a \in Application :
        Late(a).deleting = a.deleting /\ (Unrecorded(Late(a)) <=> Unrecorded(a))
  BY LateFields, ExpireFields, ApplicationFields DEF Unrecorded
<1> HIDE DEF Late
<1>4. Len(lag') = Len(lag) /\ \A i \in 1 .. Len(lag) : lag'[i] = Late(lag[i])
  <2>1. lag' \in Seq(Application)
    BY TypeDeadlinePasses DEF TypeInv, TypeOK
  <2>2. DOMAIN lag' = 1 .. Len(lag)
    BY <1>1
  <2> QED  BY <1>1, <1>2, <2>1, <2>2, LenProperties
<1>5. /\ cache'.deleting = cache.deleting /\ (Unrecorded(cache') <=> Unrecorded(cache))
      /\ \A i \in 1 .. Len(lag) :
           /\ lag'[i].deleting = lag[i].deleting
           /\ Unrecorded(lag'[i]) <=> Unrecorded(lag[i])
  BY <1>1, <1>2, <1>3, <1>4
<1> QED  BY <1>1, <1>4, <1>5 DEF DeletedInv, Unrecorded

LEMMA DeletedNext ==
    ASSUME TypeInv, OwnerInv, DeletedInv, [Next]_vars PROVE DeletedInv'
BY DeletedReconcile, DeletedWork, DeletedWrite, DeletedUser, DeletedOther,
   DeletedDeadlinePasses
   DEF Next, Controller, Environment

LEMMA DeletedInvariant == Spec => []DeletedInv
<1>1. TypeInv /\ OwnerInv /\ DeletedInv /\ [Next]_vars => DeletedInv'
  BY DeletedNext
<1> QED  BY <1>1, TypeCorrect, OwnerInvariant, DeletedInit, PTL DEF Spec

(* The revision that a live version records is still stored, or outnumbered.*)
Backed(a) == a.exists /\ ~a.deleting => a.status.rev <= LastRev(history)

CopiesBacked ==
    Backed(app) /\ Backed(cache) /\ \A i \in 1 .. Len(lag) : Backed(lag[i])

RecordedInv ==
    /\ CopiesBacked
    /\ pc \in WorkPCs => local.status.rev <= LastRev(history)
    /\ pc \in {"applied", "fence", "status"} => want.rev <= LastRev(history)

LEMMA RevisionFields ==
    ASSUME NEW a \in Application, NEW n
    PROVE  /\ fail(a).rev = a.status.rev /\ Healthy(a).rev = a.status.rev
           /\ Progressing(a).rev = a.status.rev /\ RollingBack(a).rev = a.status.rev
           /\ setDegraded(a, n).rev = n
BY DEF Application, Status, fail, Healthy, Progressing, RollingBack, setDegraded

(* Every version is typed, so its revision is a number.                    *)
LEMMA CopyRevisions ==
    ASSUME TypeInv
    PROVE  /\ app.status.rev \in Nat /\ cache.status.rev \in Nat
           /\ local.status.rev \in Nat /\ want.rev \in Nat
           /\ \A i \in 1 .. Len(lag) : lag[i] \in Application /\ lag[i].status.rev \in Nat
<1>1. /\ app \in Application /\ cache \in Application /\ local \in Application
      /\ want \in Status /\ \A i \in 1 .. Len(lag) : lag[i] \in Application
  BY ElementOfSeq DEF TypeInv, TypeOK
<1> QED  BY <1>1, ApplicationFields, StatusFields

LEMMA RecordedInit == Init => RecordedInv
<1> SUFFICES ASSUME Init PROVE RecordedInv
  OBVIOUS
<1>1. /\ app.exists = FALSE /\ cache.exists = FALSE /\ lag = <<>> /\ pc = "idle"
  BY AbsentFields DEF Init
<1>2. 1 .. Len(lag) = {}
  BY <1>1
<1> QED  BY <1>1, <1>2 DEF RecordedInv, CopiesBacked, Backed, WorkPCs

(* No copy changes, and the numbers do not fall.                           *)
LEMMA BackedGrows ==
    ASSUME TypeInv, SoundHistory(history), SoundHistory(history'), CopiesBacked,
           UNCHANGED <<app, cache, lag>>, LastRev(history') >= LastRev(history)
    PROVE  CopiesBacked'
<1>1. LastRev(history) \in Nat /\ LastRev(history') \in Nat
  BY LastRevProperties DEF SoundHistory
<1>2. \A n \in Nat : n <= LastRev(history) => n <= LastRev(history')
  BY <1>1
<1> QED  BY <1>2, CopyRevisions DEF CopiesBacked, Backed

(* A new version that is backed.                                           *)
LEMMA BackedStore ==
    ASSUME TypeInv, CopiesBacked, NEW obj \in Application, Store(obj), Backed(obj),
           UNCHANGED <<cache, history>>
    PROVE  CopiesBacked'
<1>1. lag' = Append(lag, obj) /\ app' = obj /\ lag \in Seq(Application) /\ Len(lag) \in Nat
  BY LenProperties DEF Store, TypeInv, TypeOK
<1>2. \A i \in 1 .. Len(lag') : lag'[i] = obj \/ (i \in 1 .. Len(lag) /\ lag'[i] = lag[i])
  BY <1>1
<1> QED  BY <1>1, <1>2 DEF CopiesBacked, Backed

LEMMA RecordedReconcile ==
    ASSUME TypeInv, RecordedInv, Reconcile PROVE RecordedInv'
<1>1. UNCHANGED <<app, cache, lag, history>> /\ pc = "idle" /\ cache \in Application
  BY DEF Reconcile, Load, Dequeue, TypeInv, TypeOK
<1>2. CopiesBacked'
  BY <1>1 DEF RecordedInv, CopiesBacked, Backed
<1>3. CASE UNCHANGED jobVars
  BY <1>1, <1>2, <1>3 DEF RecordedInv, jobVars, WorkPCs
<1>4. ASSUME NEW next, NEW st, Load(next, st), next \notin {"applied", "fence"},
             next \in WorkPCs => cache.exists /\ ~cache.deleting,
             next = "status" => st = fail(cache)
      PROVE  RecordedInv'
  <2>1. pc' = next /\ local' = cache /\ want' = st
    BY <1>4 DEF Load
  <2>2. pc' \in WorkPCs => local'.status.rev <= LastRev(history')
    BY <1>1, <1>4, <2>1 DEF RecordedInv, CopiesBacked, Backed
  <2>3. pc' = "status" => want'.rev <= LastRev(history')
    BY <1>1, <1>4, <2>1, <2>2, RevisionFields DEF WorkPCs
  <2> QED  BY <1>2, <1>4, <2>1, <2>2, <2>3 DEF RecordedInv
<1> QED  BY <1>3, <1>4 DEF Reconcile, NothingToDo, WorkPCs

LEMMA RecordedWork ==
    ASSUME TypeInv, SoundHistory(history), SoundHistory(history'), RecordedInv, NEW h,
           \/ BeginInstallOrUpgrade \/ RefuseInstallOrUpgrade
           \/ FinishInstallOrUpgrade \/ FailInstallOrUpgrade
           \/ HealthError \/ reconcileHealth(h) \/ handleUnhealthy(h)
           \/ BeginHelmRollback \/ RefuseHelmRollback
           \/ FinishHelmRollback \/ FailHelmRollback
    PROVE  RecordedInv'
<1>1. UNCHANGED <<app, cache, lag>> /\ pc \in WorkPCs
  BY DEF BeginInstallOrUpgrade, RefuseInstallOrUpgrade, FinishInstallOrUpgrade,
         FailInstallOrUpgrade, HealthError, reconcileHealth, handleUnhealthy,
         BeginHelmRollback, RefuseHelmRollback, FinishHelmRollback,
         FailHelmRollback, WorkPCs
<1>2. LastRev(history) \in Nat /\ LastRev(history') \in Nat /\ local.status.rev \in Nat
      /\ local \in Application /\ local.status.rev <= LastRev(history)
  BY <1>1, LastRevProperties, CopyRevisions DEF SoundHistory, RecordedInv, TypeInv, TypeOK
<1>3. LastRev(history') >= LastRev(history)
  <2>1. CASE UNCHANGED history
    BY <1>2, <2>1
  <2>2. CASE BeginInstallOrUpgrade
    BY <2>2, ApplicationFields, StatusFields, OperationsKeepLastRev
       DEF BeginInstallOrUpgrade, TypeInv, TypeOK, Hashes
  <2>3. CASE FinishInstallOrUpgrade \/ FailInstallOrUpgrade
    BY <1>2, <2>3, OperationsKeepLastRev DEF FinishInstallOrUpgrade, FailInstallOrUpgrade
  <2>4. CASE BeginHelmRollback \/ FinishHelmRollback \/ FailHelmRollback
    BY <1>2, <2>4, OperationsKeepLastRev
       DEF BeginHelmRollback, FinishHelmRollback, FailHelmRollback
  <2> QED  BY <2>1, <2>2, <2>3, <2>4
           DEF RefuseInstallOrUpgrade, HealthError, reconcileHealth, handleUnhealthy,
               RefuseHelmRollback
<1>4. CopiesBacked'
  BY <1>1, <1>3, BackedGrows DEF RecordedInv
<1>5. pc' = "idle" \/ UNCHANGED local
  BY DEF BeginInstallOrUpgrade, RefuseInstallOrUpgrade, FinishInstallOrUpgrade,
         FailInstallOrUpgrade, HealthError, reconcileHealth, handleUnhealthy,
         WriteIfChanged, BeginHelmRollback, RefuseHelmRollback, FinishHelmRollback,
         FailHelmRollback, Requeue, Return
<1>6. pc' \in {"applied", "fence", "status"}
        => want'.rev \in {local.status.rev, LastRev(history)}
  <2>1. CASE FinishInstallOrUpgrade
    <3>1. want \in Status /\ want' = [want EXCEPT !.rev = LastRev(history), !.start = "recent"]
      BY <2>1 DEF FinishInstallOrUpgrade, TypeInv, TypeOK
    <3> QED  BY <3>1 DEF Status
  <2>2. CASE RefuseInstallOrUpgrade \/ FailInstallOrUpgrade
    BY <1>2, <2>2, RevisionFields DEF RefuseInstallOrUpgrade, FailInstallOrUpgrade
  <2>3. CASE reconcileHealth(h) \/ handleUnhealthy(h)
    BY <1>2, <2>3, RevisionFields
       DEF reconcileHealth, handleUnhealthy, WriteIfChanged, Requeue, Return
  <2>4. CASE RefuseHelmRollback \/ FinishHelmRollback \/ FailHelmRollback
    BY <1>2, <2>4, RevisionFields
       DEF RefuseHelmRollback, FinishHelmRollback, FailHelmRollback
  <2>5. CASE BeginInstallOrUpgrade \/ HealthError \/ BeginHelmRollback
    BY <2>5 DEF BeginInstallOrUpgrade, HealthError, BeginHelmRollback, Requeue, Return
  <2> QED  BY <2>1, <2>2, <2>3, <2>4, <2>5
<1>7. pc' \in WorkPCs => local'.status.rev <= LastRev(history')
  <2>1. local.status.rev <= LastRev(history')
    BY <1>2, <1>3
  <2> QED  BY <1>5, <2>1 DEF WorkPCs
<1>8. pc' \in {"applied", "fence", "status"} => want'.rev <= LastRev(history')
  <2>1. \A n \in {local.status.rev, LastRev(history)} : n <= LastRev(history')
    BY <1>2, <1>3
  <2> QED  BY <1>6, <2>1
<1> QED  BY <1>4, <1>7, <1>8 DEF RecordedInv

(* The numbers are taken back when every live version records none.        *)
LEMMA RecordedUninstall ==
    ASSUME TypeInv, OwnerInv, SoundHistory(history), SoundHistory(history'),
           DeletedInv, RecordedInv, Uninstall
    PROVE  RecordedInv'
<1>1. /\ pc = "uninstall" /\ UNCHANGED <<app, cache, lag>>
      /\ pc' \in {"idle", "removeFinalizer"}
      /\ history' \in {history, FailUninstall(history), {}}
  BY DEF Uninstall, Requeue, Return, FinishUninstall
<1>2. CopiesBacked'
  <2>1. CASE history' = {}
    <3>1. LastRev(history') = 0
      BY <2>1 DEF LastRev
    <3>2. /\ Unrecorded(app) /\ Unrecorded(cache)
          /\ \A i \in 1 .. Len(lag) : Unrecorded(lag[i])
      BY <1>1, AppIsCopy DEF DeletedInv, OwnerInv
    <3> QED  BY <1>1, <3>1, <3>2 DEF CopiesBacked, Backed, Unrecorded
  <2>2. CASE history' \in {history, FailUninstall(history)}
    <3>1. LastRev(history') = LastRev(history) /\ LastRev(history) \in Nat
      BY <2>2, OperationsKeepLastRev, LastRevProperties DEF SoundHistory
    <3>2. LastRev(history') >= LastRev(history)
      BY <3>1
    <3> QED  BY <1>1, <3>2, BackedGrows DEF RecordedInv
  <2> QED  BY <1>1, <2>1, <2>2
<1> QED  BY <1>1, <1>2 DEF RecordedInv, WorkPCs

LEMMA RecordedWrite ==
    ASSUME TypeInv, OwnerInv, RecordedInv,
           \/ AddFinalizer \/ RecordApplied \/ RecordFailedRevision
           \/ WriteStatus \/ RemoveFinalizer
    PROVE  RecordedInv'
<1>1. /\ UNCHANGED <<cache, history>> /\ local \in Application /\ want \in Status
      /\ app \in Application /\ pc' \in {"idle", "rollback"}
  BY DEF AddFinalizer, RecordApplied, RecordFailedRevision, WriteStatus, RemoveFinalizer,
         Finish, Requeue, Return, TypeInv, TypeOK
<1>2. ASSUME CopiesBacked', pc' = "idle" PROVE RecordedInv'
  BY <1>2 DEF RecordedInv, WorkPCs
<1>3. UNCHANGED <<app, lag>> => CopiesBacked'
  BY <1>1 DEF RecordedInv, CopiesBacked, Backed
<1>4. ASSUME CommitStatus(want), pc \in {"applied", "fence", "status"}
      PROVE  CopiesBacked' /\ app'.status = want
  <2> DEFINE obj == [local EXCEPT !.status = want]
  <2>1. Store(obj) /\ app' = obj /\ obj \in Application /\ obj.status = want
    BY <1>1, <1>4, WithStatusType, WithStatusFields DEF CommitStatus, Commit, Store
  <2> HIDE DEF obj
  <2>2. Backed(obj)
    BY <1>4, <2>1 DEF Backed, RecordedInv
  <2> QED  BY <1>1, <2>1, <2>2, BackedStore DEF RecordedInv
<1>5. CASE RecordFailedRevision /\ CommitStatus(want) /\ pc' = "rollback"
  <2>1. /\ pc = "fence" /\ CopiesBacked' /\ local' = app' /\ app'.status = want
        /\ want.rev <= LastRev(history)
    BY <1>4, <1>5 DEF RecordFailedRevision, Requeue, Return, RecordedInv
  <2> QED  BY <1>1, <1>5, <2>1 DEF RecordedInv
<1>6. CASE RecordFailedRevision /\ CommitStatus(want) /\ pc' = "idle"
  BY <1>2, <1>4, <1>6 DEF RecordFailedRevision
<1>7. CASE (RecordApplied \/ WriteStatus) /\ CommitStatus(want)
  BY <1>2, <1>4, <1>7 DEF RecordApplied, WriteStatus, Requeue, Return
<1>8. CASE UNCHANGED <<app, lag>> /\ pc' = "idle"
  BY <1>2, <1>3, <1>8
<1>9. CASE AddFinalizer /\ Commit([local EXCEPT !.finalizer = TRUE])
  <2> DEFINE obj == [local EXCEPT !.finalizer = TRUE]
  <2>1. Store(obj) /\ local = app /\ pc' = "idle"
    BY <1>9 DEF AddFinalizer, Commit, Finish, Requeue, Return, OwnerInv, CopiesInv
  <2>2. /\ obj \in Application /\ obj.exists = app.exists /\ obj.status = app.status
        /\ obj.deleting = app.deleting
    BY <1>1, <2>1 DEF Application
  <2> HIDE DEF obj
  <2>3. Backed(obj)
    BY <2>2 DEF Backed, RecordedInv, CopiesBacked
  <2> QED  BY <1>1, <1>2, <2>1, <2>2, <2>3, BackedStore DEF RecordedInv
<1>10. CASE RemoveFinalizer /\ Commit(Absent(app.uid))
  <2>1. Store(Absent(app.uid)) /\ pc' = "idle" /\ Absent(app.uid) \in Application
    BY <1>1, <1>10, AbsentType, ApplicationFields
       DEF RemoveFinalizer, Commit, Finish, Requeue, Return
  <2>2. Backed(Absent(app.uid))
    BY AbsentFields DEF Backed
  <2> QED  BY <1>1, <1>2, <2>1, <2>2, BackedStore DEF RecordedInv
<1> QED  BY <1>1, <1>5, <1>6, <1>7, <1>8, <1>9, <1>10
         DEF AddFinalizer, RecordApplied, RecordFailedRevision, WriteStatus,
             RemoveFinalizer, Refuse, apiVars, Requeue, Return

LEMMA RecordedUser ==
    ASSUME TypeInv, SoundHistory(history), RecordedInv,
           \/ CreateApplication \/ EditSpec \/ TouchMetadata \/ DeleteApplication
    PROVE  RecordedInv'
<1>1. /\ UNCHANGED <<cache, pc, local, want, history>> /\ app \in Application
      /\ app' \in Application /\ Store(app')
  <2>1. TypeOK'
    BY TypeUser DEF TypeInv
  <2> QED  BY <2>1 DEF CreateApplication, EditSpec, TouchMetadata, DeleteApplication,
                       UserWrite, Store, TypeInv, TypeOK
<1>2. ASSUME NEW obj, app' = obj, Backed(obj) PROVE RecordedInv'
  BY <1>1, <1>2, BackedStore DEF RecordedInv
<1>3. CASE CreateApplication
  <2>1. PICK c \in Charts, r \in RefChoices : app' = Created(app.uid + 1, c, r)
    BY <1>3 DEF CreateApplication, UserWrite, Store
  <2>2. Created(app.uid + 1, c, r).status.rev = 0 /\ LastRev(history) \in Nat
    BY LastRevProperties DEF Created, Absent, EmptyStatus, SoundHistory
  <2>3. 0 <= LastRev(history)
    BY <2>2
  <2>4. Backed(Created(app.uid + 1, c, r))
    BY <2>2, <2>3 DEF Backed
  <2> QED  BY <1>2, <2>1, <2>4
<1>4. CASE EditSpec
  <2>1. PICK c \in Charts, r \in RefChoices :
          app' = [app EXCEPT !.gen = @ + 1, !.chart = c, !.ref = r]
    BY <1>4 DEF EditSpec, UserWrite, Store
  <2> DEFINE obj == [app EXCEPT !.gen = @ + 1, !.chart = c, !.ref = r]
  <2>2. obj.exists = app.exists /\ obj.deleting = app.deleting /\ obj.status = app.status
    BY <1>1 DEF Application
  <2> HIDE DEF obj
  <2>3. Backed(obj)
    BY <2>2 DEF Backed, RecordedInv, CopiesBacked
  <2>4. app' = obj
    BY <2>1 DEF obj
  <2> QED  BY <1>2, <2>3, <2>4
<1>5. CASE TouchMetadata
  <2>1. app' = app /\ Backed(app)
    BY <1>5 DEF TouchMetadata, UserWrite, Store, RecordedInv, CopiesBacked
  <2> QED  BY <1>2, <2>1
<1>6. CASE DeleteApplication
  <2> DEFINE obj == [app EXCEPT !.deleting = TRUE, !.gen = @ + 1]
  <2>1. Backed(obj) /\ Backed(Absent(app.uid))
    BY <1>1, AbsentFields DEF Application, Backed
  <2>2. app' = obj \/ app' = Absent(app.uid)
    BY <1>6 DEF DeleteApplication, UserWrite, Store
  <2> HIDE DEF obj
  <2> QED  BY <1>2, <2>1, <2>2
<1> QED  BY <1>3, <1>4, <1>5, <1>6

LEMMA RecordedOther ==
    ASSUME TypeInv, RecordedInv, DeliverEvent \/ EditSecret \/ Crash \/ UNCHANGED vars
    PROVE  RecordedInv'
<1>1. CASE EditSecret \/ UNCHANGED vars
  BY <1>1 DEF EditSecret, jobVars, vars, RecordedInv, CopiesBacked, Backed
<1>2. CASE DeliverEvent
  <2>1. lag \in Seq(Application) /\ lag # <<>> /\ cache' = Head(lag) /\ lag' = Tail(lag)
        /\ UNCHANGED <<app, pc, local, want, history>>
    BY <1>2 DEF DeliverEvent, jobVars, TypeInv, TypeOK
  <2>2. /\ Head(lag) = lag[1] /\ 1 \in 1 .. Len(lag)
        /\ \A i \in 1 .. Len(Tail(lag)) :
             i + 1 \in 1 .. Len(lag) /\ Tail(lag)[i] = lag[i + 1]
    BY <2>1
  <2>3. CopiesBacked'
    BY <2>1, <2>2 DEF RecordedInv, CopiesBacked, Backed
  <2> QED  BY <2>1, <2>3 DEF RecordedInv
<1>3. CASE Crash
  <2>1. cache' = app /\ lag' = <<>> /\ pc' = "idle" /\ UNCHANGED <<app, history>>
    BY <1>3 DEF Crash, Return
  <2>2. 1 .. Len(lag') = {}
    BY <2>1
  <2> QED  BY <2>1, <2>2 DEF RecordedInv, CopiesBacked, Backed, WorkPCs
<1> QED  BY <1>1, <1>2, <1>3

LEMMA RecordedDeadlinePasses ==
    ASSUME TypeInv, RecordedInv, DeadlinePasses PROVE RecordedInv'
<1> DEFINE Late(a) == [a EXCEPT !.status = Expire(@)]
<1>1. /\ app' = Late(app) /\ cache' = Late(cache) /\ local' = Late(local)
      /\ lag' = [i \in 1 .. Len(lag) |-> Late(lag[i])] /\ want' = Expire(want)
      /\ UNCHANGED <<pc, history>>
  BY DEF DeadlinePasses
<1>2. /\ app \in Application /\ cache \in Application /\ local \in Application
      /\ want \in Status /\ lag \in Seq(Application) /\ Len(lag) \in Nat
      /\ \A i \in 1 .. Len(lag) : lag[i] \in Application
  BY LenProperties, ElementOfSeq DEF TypeInv, TypeOK
<1>3. \A a \in Application :
        Late(a).status.rev = a.status.rev /\ (Backed(Late(a)) <=> Backed(a))
  BY LateFields, ExpireFields, ApplicationFields DEF Backed
<1> HIDE DEF Late
<1>4. Len(lag') = Len(lag) /\ \A i \in 1 .. Len(lag) : lag'[i] = Late(lag[i])
  <2>1. lag' \in Seq(Application)
    BY TypeDeadlinePasses DEF TypeInv, TypeOK
  <2>2. DOMAIN lag' = 1 .. Len(lag)
    BY <1>1
  <2> QED  BY <1>1, <1>2, <2>1, <2>2, LenProperties
<1>5. /\ Backed(app') /\ Backed(cache') /\ \A i \in 1 .. Len(lag) : Backed(lag'[i])
      /\ local'.status.rev = local.status.rev
  BY <1>1, <1>2, <1>3, <1>4 DEF RecordedInv, CopiesBacked
<1>6. want'.rev = want.rev
  BY <1>1, <1>2, ExpireFields
<1> QED  BY <1>1, <1>4, <1>5, <1>6 DEF RecordedInv, CopiesBacked, Backed

LEMMA RecordedNext ==
    ASSUME "drift" \notin Disturbances, TypeInv, OwnerInv, SoundHistory(history),
           DeletedInv, RecordedInv, [Next]_vars
    PROVE  RecordedInv'
<1>1. SoundHistory(history')
  BY HistoryStep
<1>2. ~LoseRelease
  BY DEF LoseRelease, Disturb
<1> QED  BY <1>1, <1>2, RecordedReconcile, RecordedWork, RecordedUninstall, RecordedWrite,
            RecordedUser, RecordedOther, RecordedDeadlinePasses
         DEF Next, Controller, Environment

(* The status of a live Application never names a revision later than the  *)
(* newest one Helm stores, however stale the versions that were written    *)
(* from, unless somebody else removes the release.                         *)
THEOREM RecordedRevisionIsStored ==
    ASSUME "drift" \notin Disturbances PROVE Spec => []RecordedInv
<1> DEFINE Known == TypeInv /\ OwnerInv /\ SoundHistory(history) /\ DeletedInv
<1>1. Spec => []Known
  BY TypeCorrect, OwnerInvariant, HistoryIsSound, DeletedInvariant, PTL
<1>2. Known /\ RecordedInv /\ [Next]_vars => RecordedInv'
  BY RecordedNext
<1> HIDE DEF Known
<1> QED  BY <1>1, <1>2, RecordedInit, PTL DEF Spec
=============================================================================
