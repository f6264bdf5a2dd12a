--------------------------- MODULE NamespaceProofs ---------------------------
(***************************************************************************)
(* Nobody loses a release to somebody else's deletion, for any number of   *)
(* Applications, namespaces and faults.  maybeDeleteNamespace trusts a     *)
(* cached list, so the proof is about copies: an Application can only have *)
(* been applied by a worker that read it from the same cache, so by then   *)
(* every copy that is left shows it alive and in its namespace, and the    *)
(* list cannot miss it.  Between the list and the Delete nobody is         *)
(* applied, as the one worker is busy deleting.                            *)
(*                                                                         *)
(* And nobody but a successor loses a namespace the operator did not make: *)
(* the annotation on the cached copy was true of the namespace it shows,   *)
(* so if the stored one has none, the former has gone in between, and the  *)
(* news of that is still on its way or came after the copy was read.       *)
(***************************************************************************)
EXTENDS NamespaceOwnership, TLAPS

(* v is a version of the object stored before w, or w itself.              *)
Older(v, w) ==
    \/ v.uid < w.uid
    \/ v.uid = w.uid /\ (w.exists => v.exists /\ v.gen <= w.gen)

Settled(w) == Live(w) /\ w.obs = w.gen

(* What is known of a copy v of the stored w.                              *)
Agrees(v, w) ==
    /\ Older(v, w)
    /\ v.exists => v.target \in Namespaces
    /\ v.exists /\ w.exists /\ v.uid = w.uid /\ v.gen = w.gen
         => v.target = w.target /\ v.deleting = w.deleting
    /\ Settled(w) => Live(v) /\ v.target = w.target

Placed(w) == w.obs <= w.gen /\ (w.exists => w.target \in Namespaces)

CopyInv ==
    \A a \in Apps :
      /\ Placed(apps[a])
      /\ Agrees(appCache[a], apps[a])
      /\ \A i \in 1 .. Len(appLag[a]) :
           /\ Agrees(appLag[a][i], apps[a])
           /\ Older(appCache[a], appLag[a][i])
           /\ \A j \in 1 .. Len(appLag[a]) : i <= j => Older(appLag[a][i], appLag[a][j])

(* What a running reconcile knows.                                         *)
LocalInv ==
    pc # "idle" =>
      /\ current \in Apps /\ local.exists
      /\ Agrees(local, apps[current])
      /\ Older(local, appCache[current])
      /\ \A i \in 1 .. Len(appLag[current]) : Older(local, appLag[current][i])

StageInv ==
    /\ pc \in {"uninstall", "maybeDeleteNamespace", "otherApplications",
               "deleteNamespace", "removeFinalizer"} => local.deleting
    /\ pc \in {"ensureNamespace", "createNamespace", "install", "recordApplied"}
         => ~local.deleting
    /\ pc = "deleteNamespace" =>
         \A b \in Apps : Settled(apps[b]) => apps[b].target # local.target
    /\ pc = "recordApplied" =>
         /\ <<current, local.target>> \in releases
         /\ namespaces[local.target].st = "active"

NamespaceInv ==
    TypeOK /\ CopyInv /\ LocalInv /\ StageInv /\ AppliedReleaseKept

----------------------------------------------------------------------------
(* Versions.                                                               *)

LEMMA Fields ==
    ASSUME NEW v \in Application
    PROVE  /\ v.exists \in BOOLEAN /\ v.deleting \in BOOLEAN /\ v.finalizer \in BOOLEAN
           /\ v.uid \in Nat /\ v.gen \in Nat /\ v.obs \in Nat
           /\ v.failed \in BOOLEAN /\ v.target \in Namespaces \cup {None}
BY DEF Application

LEMMA GoneFields ==
    ASSUME NEW u \in Nat
    PROVE  /\ Gone(u) \in Application /\ Gone(u).uid = u /\ Gone(u).exists = FALSE
           /\ Gone(u).obs = 0 /\ Gone(u).gen = 0
BY DEF Gone, Application

LEMMA CreatedFields ==
    ASSUME NEW u \in Nat, NEW n \in Namespaces
    PROVE  LET v == [Gone(u) EXCEPT !.exists = TRUE, !.gen = 1, !.target = n]
           IN  /\ v \in Application /\ v.uid = u /\ v.exists /\ v.gen = 1
               /\ v.obs = 0 /\ v.target = n
BY DEF Gone, Application

LEMMA EditedFields ==
    ASSUME NEW w \in Application, NEW n \in Namespaces
    PROVE  LET v == [w EXCEPT !.gen = @ + 1, !.target = n]
           IN  /\ v \in Application /\ v.uid = w.uid /\ v.gen = w.gen + 1
               /\ v.obs = w.obs /\ v.target = n
<1>1. w.gen + 1 \in Nat
  BY Fields
<1>2. QED
  BY <1>1 DEF Application

LEMMA DeletedFields ==
    ASSUME NEW w \in Application
    PROVE  LET v == [w EXCEPT !.deleting = TRUE, !.gen = @ + 1]
           IN  /\ v \in Application /\ v.uid = w.uid /\ v.gen = w.gen + 1
               /\ v.obs = w.obs /\ v.target = w.target /\ v.deleting
               /\ v.exists = w.exists
<1>1. w.gen + 1 \in Nat
  BY Fields
<1>2. QED
  BY <1>1 DEF Application

LEMMA OlderTransitive ==
    ASSUME NEW u \in Application, NEW v \in Application, NEW w \in Application,
           Older(u, v), Older(v, w)
    PROVE  Older(u, w)
BY Fields DEF Older

LEMMA AgreesSelf ==
    ASSUME NEW w \in Application, Placed(w)
    PROVE  Agrees(w, w)
BY Fields DEF Agrees, Older, Settled, Placed

(* A new object, a new generation or the end of the object outdates every  *)
(* copy of the stored one.                                                 *)
LEMMA Superseded ==
    ASSUME NEW v \in Application, NEW w \in Application, NEW obj \in Application,
           Agrees(v, w), ~Settled(obj),
           \/ w.uid < obj.uid
           \/ w.uid = obj.uid /\ (obj.exists => w.exists /\ w.gen < obj.gen)
    PROVE  Agrees(v, obj)
BY Fields DEF Agrees, Older

(* Copies between the one that was read and the stored one, which is still *)
(* the one that was read, are all of its generation.                       *)
LEMMA NothingBetween ==
    ASSUME NEW v \in Application, NEW w \in Application, Agrees(v, w), Older(w, v),
           Live(w)
    PROVE  Live(v) /\ v.target = w.target /\ v.uid = w.uid /\ v.gen = w.gen
<1>1. v.uid = w.uid /\ v.exists /\ v.gen = w.gen
  BY Fields DEF Agrees, Older, Live
<1>2. QED
  BY <1>1, Fields DEF Agrees, Live

----------------------------------------------------------------------------
(* Stored versions and their copies.                                       *)

LEMMA LagType ==
    ASSUME TypeOK, NEW a \in Apps
    PROVE  /\ apps[a] \in Application /\ appCache[a] \in Application
           /\ appLag[a] \in Seq(Application) /\ Len(appLag[a]) \in Nat
           /\ \A i \in 1 .. Len(appLag[a]) : appLag[a][i] \in Application
BY DEF TypeOK

(* A write whose object no copy contradicts.                               *)
LEMMA StoreCopies ==
    ASSUME TypeOK, CopyInv, NEW a \in Apps, NEW obj \in Application, StoreApp(a, obj),
           Placed(obj), Agrees(appCache[a], obj),
           \A i \in 1 .. Len(appLag[a]) : Agrees(appLag[a][i], obj)
    PROVE  /\ CopyInv'
           /\ apps' \in [Apps -> Application] /\ appCache' = appCache
           /\ appLag' \in [Apps -> Seq(Application)]
<1>1. /\ apps' = [apps EXCEPT ![a] = obj] /\ appCache' = appCache
      /\ appLag' = [appLag EXCEPT ![a] = Append(appLag[a], obj)]
  BY DEF StoreApp
<1>2. /\ apps' \in [Apps -> Application] /\ appLag' \in [Apps -> Seq(Application)]
  BY <1>1 DEF TypeOK
<1>3. SUFFICES ASSUME NEW b \in Apps
               PROVE  /\ Placed(apps'[b])
                      /\ Agrees(appCache'[b], apps'[b])
                      /\ \A i \in 1 .. Len(appLag'[b]) :
                           /\ Agrees(appLag'[b][i], apps'[b])
                           /\ Older(appCache'[b], appLag'[b][i])
                           /\ \A j \in 1 .. Len(appLag'[b]) :
                                i <= j => Older(appLag'[b][i], appLag'[b][j])
  BY <1>1, <1>2 DEF CopyInv, Placed, Agrees, Older, Settled, Live
<1>4. CASE b # a
  BY <1>1, <1>4 DEF CopyInv, TypeOK
<1>5. CASE b = a
  <2>1. apps'[b] = obj /\ appLag'[b] = Append(appLag[b], obj) /\ appCache'[b] = appCache[b]
    BY <1>1, <1>5 DEF TypeOK
  <2>2. /\ appLag[b] \in Seq(Application) /\ Len(appLag[b]) \in Nat
        /\ Len(appLag'[b]) = Len(appLag[b]) + 1
        /\ appLag'[b][Len(appLag[b]) + 1] = obj
        /\ \A i \in 1 .. Len(appLag[b]) : appLag'[b][i] = appLag[b][i]
    BY <2>1, LagType
  <2>3. ASSUME NEW i \in 1 .. Len(appLag'[b])
        PROVE  Agrees(appLag'[b][i], obj) /\ Older(appCache[b], appLag'[b][i])
    <3>1. CASE i = Len(appLag[b]) + 1
      BY <1>5, <2>2, <3>1, AgreesSelf DEF Agrees
    <3>2. CASE i \in 1 .. Len(appLag[b])
      BY <1>5, <2>2, <3>2 DEF CopyInv
    <3>3. QED
      BY <2>2, <2>3, <3>1, <3>2
  <2>4. ASSUME NEW i \in 1 .. Len(appLag'[b]), NEW j \in 1 .. Len(appLag'[b]), i <= j
        PROVE  Older(appLag'[b][i], appLag'[b][j])
    <3>1. CASE j = Len(appLag[b]) + 1
      BY <2>2, <2>3, <3>1 DEF Agrees
    <3>2. CASE j \in 1 .. Len(appLag[b])
      <4>1. i \in 1 .. Len(appLag[b])
        BY <2>2, <2>4, <3>2
      <4>2. QED
        BY <2>2, <2>4, <3>2, <4>1 DEF CopyInv
    <3>3. QED
      BY <2>2, <2>4, <3>1, <3>2
  <2>5. QED
    BY <1>5, <2>1, <2>3, <2>4
<1>6. QED
  BY <1>4, <1>5

(* A step that writes no Application.                                      *)
LEMMA QuietCopies ==
    ASSUME CopyInv, UNCHANGED appVars
    PROVE  CopyInv'
BY DEF CopyInv, appVars, Placed, Agrees, Older, Settled, Live

(* A reconcile that ends takes what it knew with it.                       *)
LEMMA Returned ==
    ASSUME TypeOK, Return
    PROVE  /\ LocalInv' /\ StageInv'
           /\ pc' \in PCs /\ current' \in Apps \cup {None} /\ local' \in Application
           /\ overtaken' \in BOOLEAN
BY GoneFields DEF LocalInv, StageInv, Return, PCs

(* A user's write outdates what a running reconcile holds.                 *)
LEMMA UserWrite ==
    ASSUME NamespaceInv, NEW a \in Apps, NEW obj \in Application, StoreApp(a, obj),
           Placed(obj), ~Settled(obj),
           \/ apps[a].uid < obj.uid
           \/ /\ apps[a].uid = obj.uid
              /\ obj.exists => apps[a].exists /\ apps[a].gen < obj.gen,
           UNCHANGED <<nsVars, helmVars, jobVars, faults>>
    PROVE  NamespaceInv'
<1> USE DEF NamespaceInv
<1>1. /\ apps[a] \in Application /\ appCache[a] \in Application
      /\ \A i \in 1 .. Len(appLag[a]) : appLag[a][i] \in Application
  BY LagType
<1>2. /\ Agrees(appCache[a], obj)
      /\ \A i \in 1 .. Len(appLag[a]) : Agrees(appLag[a][i], obj)
  BY <1>1, Superseded DEF CopyInv
<1>3. /\ CopyInv' /\ apps' \in [Apps -> Application] /\ appCache' = appCache
      /\ appLag' \in [Apps -> Seq(Application)]
  BY <1>2, StoreCopies
<1>4. TypeOK'
  BY <1>3 DEF TypeOK, nsVars, helmVars, jobVars
<1>5. StageInv'
  <2>1. \A b \in Apps : Settled(apps'[b]) => apps'[b] = apps[b]
    BY DEF StoreApp, TypeOK
  <2>2. pc = "deleteNamespace" =>
          \A b \in Apps : Settled(apps'[b]) => apps'[b].target # local.target
    BY <2>1 DEF StageInv
  <2>3. QED
    BY <2>2 DEF StageInv, nsVars, helmVars, jobVars, Settled, Live
<1>6. apps' = [apps EXCEPT ![a] = obj] /\ appLag' = [appLag EXCEPT ![a] = Append(appLag[a], obj)]
  BY DEF StoreApp
<1>7. AppliedReleaseKept'
  <2>1. SUFFICES ASSUME NEW b \in Apps, Live(apps'[b]), apps'[b].obs = apps'[b].gen
                 PROVE  /\ <<b, apps[b].target>> \in releases
                        /\ namespaces[apps[b].target].st = "active"
                        /\ apps'[b] = apps[b]
    BY DEF AppliedReleaseKept, nsVars, helmVars, Live
  <2>2. b # a
    BY <1>6, <2>1 DEF Settled, TypeOK
  <2>3. apps'[b] = apps[b]
    BY <1>6, <2>2 DEF TypeOK
  <2>4. QED
    BY <2>1, <2>3 DEF AppliedReleaseKept
<1>8. LocalInv'
  <2>1. SUFFICES ASSUME pc # "idle"
                 PROVE  /\ current \in Apps /\ local.exists
                        /\ Agrees(local, apps'[current])
                        /\ Older(local, appCache[current])
                        /\ \A i \in 1 .. Len(appLag'[current]) :
                             Older(local, appLag'[current][i])
    BY <1>3 DEF LocalInv, jobVars, Agrees, Older, Settled, Live
  <2>2. CASE current # a
    BY <1>6, <2>1, <2>2 DEF LocalInv, TypeOK
  <2>3. CASE current = a
    <3>1. Agrees(local, obj)
      BY <1>1, <2>1, <2>3, Superseded DEF LocalInv, TypeOK
    <3>2. apps'[a] = obj /\ appLag'[a] = Append(appLag[a], obj)
      BY <1>6 DEF TypeOK
    <3>3. /\ Len(appLag'[a]) = Len(appLag[a]) + 1 /\ Len(appLag[a]) \in Nat
          /\ appLag'[a][Len(appLag[a]) + 1] = obj
          /\ \A i \in 1 .. Len(appLag[a]) : appLag'[a][i] = appLag[a][i]
      BY <3>2, LagType
    <3>4. ASSUME NEW i \in 1 .. Len(appLag'[a])
          PROVE  Older(local, appLag'[a][i])
      <4>1. CASE i = Len(appLag[a]) + 1
        BY <3>1, <3>3, <4>1 DEF Agrees
      <4>2. CASE i \in 1 .. Len(appLag[a])
        BY <2>1, <2>3, <3>3, <4>2 DEF LocalInv
      <4>3. QED
        BY <3>3, <4>1, <4>2
    <3>5. QED
      BY <2>1, <2>3, <3>1, <3>2, <3>4 DEF LocalInv
  <2>4. QED
    BY <2>2, <2>3
<1>9. QED
  BY <1>3, <1>4, <1>5, <1>7, <1>8

LEMMA NamespaceUsers ==
    ASSUME NamespaceInv, NEW a \in Apps, Users(a)
    PROVE  NamespaceInv'
<1>1. apps[a] \in Application /\ Placed(apps[a])
  BY LagType DEF NamespaceInv, CopyInv
<1>2. CASE CreateApplication(a)
  <2>1. PICK n \in Namespaces :
          StoreApp(a, [Gone(apps[a].uid + 1) EXCEPT !.exists = TRUE, !.gen = 1, !.target = n])
    BY <1>2 DEF CreateApplication
  <2> DEFINE obj == [Gone(apps[a].uid + 1) EXCEPT !.exists = TRUE, !.gen = 1, !.target = n]
  <2>2. /\ obj \in Application /\ obj.uid = apps[a].uid + 1 /\ obj.exists /\ obj.gen = 1
        /\ obj.obs = 0 /\ obj.target = n
    <3>1. apps[a].uid + 1 \in Nat
      BY <1>1, Fields
    <3>2. QED
      BY <3>1, CreatedFields
  <2>3. StoreApp(a, obj)
    BY <2>1
  <2> HIDE DEF obj
  <2>4. Placed(obj) /\ ~Settled(obj)
    BY <2>2 DEF Placed, Settled
  <2>5. apps[a].uid < obj.uid
    BY <1>1, <2>2, Fields
  <2>6. QED
    BY <1>2, <2>2, <2>3, <2>4, <2>5, UserWrite DEF CreateApplication
<1>3. CASE EditNamespace(a)
  <2>1. PICK n \in Namespaces : StoreApp(a, [apps[a] EXCEPT !.gen = @ + 1, !.target = n])
    BY <1>3 DEF EditNamespace
  <2> DEFINE obj == [apps[a] EXCEPT !.gen = @ + 1, !.target = n]
  <2>2. /\ obj \in Application /\ obj.uid = apps[a].uid /\ obj.gen = apps[a].gen + 1
        /\ obj.obs = apps[a].obs /\ obj.target = n
    BY <1>1, EditedFields
  <2>3. StoreApp(a, obj) /\ apps[a].exists
    BY <1>3, <2>1 DEF EditNamespace, Live
  <2> HIDE DEF obj
  <2>4. Placed(obj) /\ ~Settled(obj) /\ apps[a].gen < obj.gen
    BY <1>1, <2>2, Fields DEF Placed, Settled
  <2>5. QED
    BY <1>3, <2>2, <2>3, <2>4, UserWrite DEF EditNamespace
<1>4. CASE DeleteApplication(a) /\ apps[a].finalizer
  <2> DEFINE obj == [apps[a] EXCEPT !.deleting = TRUE, !.gen = @ + 1]
  <2>1. /\ obj \in Application /\ obj.uid = apps[a].uid /\ obj.gen = apps[a].gen + 1
        /\ obj.obs = apps[a].obs /\ obj.target = apps[a].target /\ obj.deleting
        /\ obj.exists = apps[a].exists
    BY <1>1, DeletedFields
  <2>2. StoreApp(a, obj) /\ apps[a].exists
    BY <1>4 DEF DeleteApplication, Live
  <2> HIDE DEF obj
  <2>3. Placed(obj) /\ ~Settled(obj) /\ apps[a].gen < obj.gen
    BY <1>1, <2>1, Fields DEF Placed, Settled, Live
  <2>4. QED
    BY <1>4, <2>1, <2>2, <2>3, UserWrite DEF DeleteApplication
<1>5. CASE DeleteApplication(a) /\ ~apps[a].finalizer
  <2> DEFINE obj == Gone(apps[a].uid)
  <2>1. obj \in Application /\ obj.uid = apps[a].uid /\ obj.exists = FALSE
        /\ obj.obs = 0 /\ obj.gen = 0
    BY <1>1, Fields, GoneFields
  <2>2. StoreApp(a, obj)
    BY <1>5 DEF DeleteApplication
  <2> HIDE DEF obj
  <2>3. Placed(obj) /\ ~Settled(obj)
    BY <2>1 DEF Placed, Settled, Live
  <2>4. QED
    BY <1>5, <2>1, <2>2, <2>3, UserWrite DEF DeleteApplication
<1>6. QED
  BY <1>2, <1>3, <1>4, <1>5 DEF Users

----------------------------------------------------------------------------
(* The worker's writes, after which the reconcile ends.                    *)

LEMMA RecordedFields ==
    ASSUME NEW w \in Application
    PROVE  LET v == [w EXCEPT !.obs = w.gen, !.failed = FALSE]
           IN  /\ v \in Application /\ v.uid = w.uid /\ v.gen = w.gen /\ v.obs = w.gen
               /\ v.target = w.target /\ v.deleting = w.deleting /\ v.exists = w.exists
BY Fields DEF Application

LEMMA FinalizedFields ==
    ASSUME NEW w \in Application
    PROVE  LET v == [w EXCEPT !.finalizer = TRUE]
           IN  /\ v \in Application /\ v.uid = w.uid /\ v.gen = w.gen /\ v.obs = w.obs
               /\ v.target = w.target /\ v.deleting = w.deleting /\ v.exists = w.exists
BY DEF Application

LEMMA FailedFields ==
    ASSUME NEW w \in Application
    PROVE  LET v == [w EXCEPT !.failed = TRUE]
           IN  /\ v \in Application /\ v.uid = w.uid /\ v.gen = w.gen /\ v.obs = w.obs
               /\ v.target = w.target /\ v.deleting = w.deleting /\ v.exists = w.exists
BY DEF Application

(* A write of the worker that no copy contradicts, or none.                *)
LEMMA WorkerWrite ==
    ASSUME NamespaceInv, pc # "idle", Return, UNCHANGED <<nsVars, helmVars>>,
           NEW obj \in Application, Update(obj) \/ UNCHANGED <<appVars, faults>>,
           apps[current] = local =>
             /\ Settled(obj) => /\ <<current, obj.target>> \in releases
                                /\ namespaces[obj.target].st = "active"
             /\ Placed(obj) /\ Agrees(appCache[current], obj)
             /\ \A i \in 1 .. Len(appLag[current]) : Agrees(appLag[current][i], obj)
    PROVE  NamespaceInv'
<1> USE DEF NamespaceInv
<1>1. /\ LocalInv' /\ StageInv'
      /\ pc' \in PCs /\ current' \in Apps \cup {None} /\ local' \in Application
      /\ overtaken' \in BOOLEAN
  BY Returned
<1>2. faults' \in Nat /\ current \in Apps
  BY DEF Update, Fault, TypeOK, LocalInv
<1>3. CASE UNCHANGED appVars
  <2>1. TypeOK'
    BY <1>1, <1>2, <1>3 DEF TypeOK, nsVars, helmVars, appVars
  <2>2. AppliedReleaseKept'
    BY <1>3 DEF AppliedReleaseKept, appVars, nsVars, helmVars, Live
  <2>3. QED
    BY <1>1, <1>3, <2>1, <2>2, QuietCopies
<1>4. CASE apps[current] = local /\ StoreApp(current, obj)
  <2>1. /\ CopyInv' /\ apps' \in [Apps -> Application] /\ appCache' = appCache
        /\ appLag' \in [Apps -> Seq(Application)]
    BY <1>2, <1>4, StoreCopies
  <2>2. TypeOK'
    BY <1>1, <1>2, <2>1 DEF TypeOK, nsVars, helmVars
  <2>3. apps' = [apps EXCEPT ![current] = obj]
    BY <1>4 DEF StoreApp
  <2>4. AppliedReleaseKept'
    <3>1. SUFFICES ASSUME NEW b \in Apps, Live(apps'[b]), apps'[b].obs = apps'[b].gen
                   PROVE  /\ <<b, apps'[b].target>> \in releases
                          /\ namespaces[apps'[b].target].st = "active"
      BY DEF AppliedReleaseKept, nsVars, helmVars, Live
    <3>2. CASE b = current
      BY <1>2, <1>4, <2>3, <3>1, <3>2 DEF Settled, TypeOK
    <3>3. CASE b # current
      BY <1>2, <2>3, <3>1, <3>3 DEF AppliedReleaseKept, TypeOK
    <3>4. QED
      BY <3>2, <3>3
  <2>5. QED
    BY <1>1, <2>1, <2>2, <2>4
<1>5. QED
  BY <1>3, <1>4 DEF Update, appVars

LEMMA NamespaceWrites ==
    ASSUME NamespaceInv, AddFinalizer \/ RecordApplied \/ fail \/ RemoveFinalizer
    PROVE  NamespaceInv'
<1> USE DEF NamespaceInv
<1>1. /\ pc # "idle" /\ Return /\ UNCHANGED <<nsVars, helmVars>>
  BY DEF AddFinalizer, RecordApplied, fail, RemoveFinalizer
<1>2. /\ current \in Apps /\ local \in Application /\ local.exists
      /\ appCache[current] \in Application
      /\ \A i \in 1 .. Len(appLag[current]) : appLag[current][i] \in Application
  BY <1>1, LagType DEF LocalInv, TypeOK
<1>3. apps[current] = local =>
        /\ Placed(local) /\ Agrees(appCache[current], local)
        /\ \A i \in 1 .. Len(appLag[current]) : Agrees(appLag[current][i], local)
  BY <1>2 DEF CopyInv
<1>4. /\ Older(local, appCache[current])
      /\ \A i \in 1 .. Len(appLag[current]) : Older(local, appLag[current][i])
  BY <1>1 DEF LocalInv
<1>5. CASE AddFinalizer
  <2> DEFINE obj == [local EXCEPT !.finalizer = TRUE]
  <2>1. /\ obj \in Application /\ obj.uid = local.uid /\ obj.gen = local.gen
        /\ obj.obs = local.obs /\ obj.target = local.target
        /\ obj.deleting = local.deleting /\ obj.exists = local.exists
    BY <1>2, FinalizedFields
  <2>2. Update(obj)
    BY <1>5 DEF AddFinalizer
  <2> HIDE DEF obj
  <2>3. Placed(local) => Placed(obj)
    BY <2>1 DEF Placed
  <2>4. ASSUME NEW v, Agrees(v, local) PROVE Agrees(v, obj)
    BY <2>1, <2>4 DEF Agrees, Older, Settled, Live
  <2>5. apps[current] = local /\ Settled(obj) =>
          /\ <<current, obj.target>> \in releases
          /\ namespaces[obj.target].st = "active"
    BY <1>2, <2>1 DEF AppliedReleaseKept, Settled, Live
  <2>6. QED
    BY <1>1, <1>3, <2>1, <2>2, <2>3, <2>4, <2>5, WorkerWrite
<1>6. CASE RecordApplied
  <2> DEFINE obj == [local EXCEPT !.obs = local.gen, !.failed = FALSE]
  <2>1. /\ obj \in Application /\ obj.uid = local.uid /\ obj.gen = local.gen
        /\ obj.obs = local.gen /\ obj.target = local.target
        /\ obj.deleting = local.deleting /\ obj.exists = local.exists
    BY <1>2, RecordedFields
  <2>2. Update(obj) /\ pc = "recordApplied"
    BY <1>6 DEF RecordApplied
  <2> HIDE DEF obj
  <2>3. Placed(local) => Placed(obj)
    BY <1>2, <2>1, Fields DEF Placed
  <2>4. ASSUME NEW v \in Application, Agrees(v, local), Older(local, v)
        PROVE  Agrees(v, obj)
    <3>1. Live(local)
      BY <1>2, <2>2 DEF StageInv, Live
    <3>2. Live(v) /\ v.target = local.target
      BY <1>2, <2>4, <3>1, NothingBetween
    <3>3. QED
      BY <2>1, <2>4, <3>2 DEF Agrees, Older
  <2>5. /\ <<current, obj.target>> \in releases
        /\ namespaces[obj.target].st = "active"
    BY <2>1, <2>2 DEF StageInv
  <2>6. QED
    BY <1>1, <1>2, <1>3, <1>4, <2>1, <2>2, <2>3, <2>4, <2>5, WorkerWrite
<1>7. CASE RemoveFinalizer
  <2> DEFINE obj == Gone(local.uid)
  <2>1. obj \in Application /\ obj.uid = local.uid /\ obj.exists = FALSE
        /\ obj.obs = 0 /\ obj.gen = 0
    BY <1>2, Fields, GoneFields
  <2>2. Update(obj)
    BY <1>7 DEF RemoveFinalizer
  <2> HIDE DEF obj
  <2>3. Placed(obj) /\ ~Settled(obj)
    BY <2>1 DEF Placed, Settled, Live
  <2>4. ASSUME NEW v \in Application, Agrees(v, local) PROVE Agrees(v, obj)
    BY <1>2, <2>1, <2>3, <2>4, Superseded
  <2>5. QED
    BY <1>1, <1>2, <1>3, <2>1, <2>2, <2>3, <2>4, WorkerWrite
<1>8. CASE fail
  <2> DEFINE obj == [local EXCEPT !.failed = TRUE]
  <2>1. /\ obj \in Application /\ obj.uid = local.uid /\ obj.gen = local.gen
        /\ obj.obs = local.obs /\ obj.target = local.target
        /\ obj.deleting = local.deleting /\ obj.exists = local.exists
    BY <1>2, FailedFields
  <2>2. Update(obj) \/ UNCHANGED <<appVars, faults>>
    BY <1>8 DEF fail
  <2> HIDE DEF obj
  <2>3. Placed(local) => Placed(obj)
    BY <2>1 DEF Placed
  <2>4. ASSUME NEW v, Agrees(v, local) PROVE Agrees(v, obj)
    BY <2>1, <2>4 DEF Agrees, Older, Settled, Live
  <2>5. apps[current] = local /\ Settled(obj) =>
          /\ <<current, obj.target>> \in releases
          /\ namespaces[obj.target].st = "active"
    BY <1>2, <2>1 DEF AppliedReleaseKept, Settled, Live
  <2>6. QED
    BY <1>1, <1>3, <2>1, <2>2, <2>3, <2>4, <2>5, WorkerWrite
<1>9. QED
  BY <1>5, <1>6, <1>7, <1>8

----------------------------------------------------------------------------
(* Steps that write no Application.                                        *)

(* The reconcile holds a copy of an Application that exists.               *)
LEMMA Held ==
    ASSUME NamespaceInv, pc # "idle"
    PROVE  /\ current \in Apps /\ local \in Application
           /\ local.target \in Namespaces
           /\ Settled(apps[current]) => ~local.deleting
BY DEF NamespaceInv, TypeOK, LocalInv, Agrees, Live

(* The worker goes on with the same copy, or ends.                         *)
LEMMA WorkerMoves ==
    ASSUME NamespaceInv, pc # "idle", UNCHANGED appVars, NEW p \in PCs \ {"idle"},
           Return \/ Goto(p), StageInv', AppliedReleaseKept',
           namespaces' \in [Namespaces -> Namespace], nsCache' = nsCache,
           nsLag' \in [Namespaces -> Seq(Namespace)],
           releases' \in SUBSET (Apps \X Namespaces), interrupted' \in SUBSET releases',
           faults' \in Nat
    PROVE  NamespaceInv'
<1> USE DEF NamespaceInv
<1>1. CopyInv'
  BY QuietCopies
<1>2. CASE Return
  BY <1>1, <1>2, Returned DEF TypeOK, appVars
<1>3. CASE Goto(p)
  <2>1. LocalInv'
    BY <1>3 DEF LocalInv, Goto, appVars, Agrees, Older, Settled, Live
  <2>2. TypeOK'
    BY <1>3 DEF TypeOK, Goto, appVars
  <2>3. QED
    BY <1>1, <2>1, <2>2
<1>4. QED
  BY <1>2, <1>3

LEMMA FaultsType ==
    ASSUME TypeOK, Fault \/ UNCHANGED faults
    PROVE  faults' \in Nat
BY DEF TypeOK, Fault

(* A namespace is stored: nobody's release is in one that is absent, and   *)
(* the names of the others keep what they had.                             *)
LEMMA StoredNamespace ==
    ASSUME TypeOK, NEW n \in Namespaces, NEW obj \in Namespace, StoreNamespace(n, obj)
    PROVE  /\ namespaces' \in [Namespaces -> Namespace] /\ nsCache' = nsCache
           /\ nsLag' \in [Namespaces -> Seq(Namespace)]
           /\ namespaces'[n] = obj
           /\ \A m \in Namespaces : m # n => namespaces'[m] = namespaces[m]
BY DEF TypeOK, StoreNamespace

LEMMA TerminatingType ==
    ASSUME NEW obj \in Namespace
    PROVE  [obj EXCEPT !.st = "terminating"] \in Namespace
BY DEF Namespace

(* The cached reads of the worker only say where it goes on.               *)
LEMMA NamespaceReads ==
    ASSUME NamespaceInv, ensureNamespace \/ maybeDeleteNamespace
    PROVE  NamespaceInv'
<1> USE DEF NamespaceInv
<1>1. /\ pc # "idle" /\ UNCHANGED <<appVars, nsVars, helmVars, faults>>
      /\ \/ /\ pc = "ensureNamespace"
            /\ \E p \in {"createNamespace", "install"} : Goto(p)
         \/ /\ pc = "maybeDeleteNamespace"
            /\ \E p \in {"otherApplications", "removeFinalizer"} : Goto(p)
  BY DEF ensureNamespace, maybeDeleteNamespace
<1>2. PICK p \in PCs \ {"idle"} : Goto(p)
  BY <1>1 DEF PCs
<1>3. StageInv'
  BY <1>1 DEF StageInv, Goto
<1>4. AppliedReleaseKept'
  BY <1>1 DEF AppliedReleaseKept, appVars, nsVars, helmVars, Live
<1>5. QED
  BY <1>1, <1>2, <1>3, <1>4, WorkerMoves DEF TypeOK, nsVars, helmVars

LEMMA NamespaceCreate ==
    ASSUME NamespaceInv, createNamespace
    PROVE  NamespaceInv'
<1> USE DEF NamespaceInv
<1> DEFINE n == local.target
<1>1. /\ pc = "createNamespace" /\ UNCHANGED <<appVars, helmVars>>
      /\ Goto("install") \/ Goto("fail")
      /\ Create(n) \/ UNCHANGED nsVars
  BY DEF createNamespace
<1>2. /\ current \in Apps /\ n \in Namespaces
  BY <1>1, Held
<1>3. StageInv'
  BY <1>1 DEF StageInv, Goto
<1>4. /\ namespaces' \in [Namespaces -> Namespace] /\ nsCache' = nsCache
      /\ nsLag' \in [Namespaces -> Seq(Namespace)]
      /\ \A m \in Namespaces : namespaces[m].st = "active" => namespaces'[m].st = "active"
  <2>1. CASE UNCHANGED nsVars
    BY <2>1 DEF nsVars, TypeOK
  <2>2. CASE namespaces[n].st = "absent" /\ StoreNamespace(n, [st |-> "active", managed |-> TRUE])
    <3>1. [st |-> "active", managed |-> TRUE] \in Namespace
      BY DEF Namespace
    <3>2. QED
      BY <1>2, <2>2, <3>1, StoredNamespace
  <2>3. QED
    BY <1>1, <2>1, <2>2 DEF Create
<1>5. AppliedReleaseKept'
  BY <1>1, <1>4 DEF AppliedReleaseKept, appVars, helmVars, CopyInv, Placed, Live
<1>6. faults' \in Nat
  BY FaultsType DEF createNamespace
<1>7. QED
  BY <1>1, <1>3, <1>4, <1>5, <1>6, WorkerMoves DEF PCs, TypeOK, helmVars

LEMMA NamespaceInstall ==
    ASSUME NamespaceInv, InstallOrUpgrade
    PROVE  NamespaceInv'
<1> USE DEF NamespaceInv
<1>1. /\ pc = "install" /\ UNCHANGED <<appVars, nsVars, interrupted>>
  BY DEF InstallOrUpgrade
<1>2. /\ current \in Apps /\ local.target \in Namespaces
  BY <1>1, Held
<1>3. /\ releases' \in {releases, releases \cup {<<current, local.target>>}}
      /\ \/ Goto("fail")
         \/ /\ namespaces[local.target].st = "active"
            /\ releases' = releases \cup {<<current, local.target>>}
            /\ Goto("recordApplied")
  BY DEF InstallOrUpgrade
<1>4. StageInv'
  BY <1>1, <1>3 DEF StageInv, Goto, nsVars
<1>5. AppliedReleaseKept'
  BY <1>1, <1>3 DEF AppliedReleaseKept, appVars, nsVars, Live
<1>6. releases' \in SUBSET (Apps \X Namespaces) /\ interrupted' \in SUBSET releases'
  BY <1>1, <1>2, <1>3 DEF TypeOK
<1>7. faults' \in Nat
  BY FaultsType DEF InstallOrUpgrade
<1>8. QED
  BY <1>1, <1>3, <1>4, <1>5, <1>6, <1>7, WorkerMoves DEF PCs, TypeOK, nsVars

(* A settled Application is not the one that is being deleted.             *)
LEMMA NamespaceUninstall ==
    ASSUME NamespaceInv, Uninstall
    PROVE  NamespaceInv'
<1> USE DEF NamespaceInv
<1>1. /\ pc = "uninstall" /\ UNCHANGED <<appVars, nsVars>>
  BY DEF Uninstall
<1>2. local.deleting /\ ~Settled(apps[current])
  BY <1>1, Held DEF StageInv
<1>3. \/ Return /\ UNCHANGED helmVars
      \/ /\ releases' = releases \ {<<current, local.target>>}
         /\ interrupted' = interrupted \ {<<current, local.target>>}
         /\ Goto("maybeDeleteNamespace")
  BY DEF Uninstall
<1>4. StageInv'
  BY <1>1, <1>2, <1>3, Returned DEF StageInv, Goto
<1>5. AppliedReleaseKept'
  BY <1>1, <1>2, <1>3 DEF AppliedReleaseKept, appVars, nsVars, helmVars, Live, Settled
<1>6. releases' \in SUBSET (Apps \X Namespaces) /\ interrupted' \in SUBSET releases'
  BY <1>3 DEF TypeOK, helmVars
<1>7. faults' \in Nat
  BY FaultsType DEF Uninstall
<1>8. QED
  BY <1>1, <1>3, <1>4, <1>5, <1>6, <1>7, WorkerMoves DEF PCs, TypeOK, nsVars

(* The cached list shows every settled Application of the namespace.       *)
LEMMA NamespaceListed ==
    ASSUME NamespaceInv, otherApplicationsInNamespace
    PROVE  NamespaceInv'
<1> USE DEF NamespaceInv
<1>1. /\ pc = "otherApplications" /\ UNCHANGED <<appVars, nsVars, helmVars, faults>>
      /\ \/ others = {} /\ Goto("deleteNamespace")
         \/ Goto("removeFinalizer")
  BY DEF otherApplicationsInNamespace
<1>2. local.deleting /\ ~Settled(apps[current])
  BY <1>1, Held DEF StageInv
<1>3. ASSUME NEW b \in Apps, Settled(apps[b]), others = {}
      PROVE  apps[b].target # local.target
  <2>1. Live(appCache[b]) /\ appCache[b].target = apps[b].target
    BY <1>3 DEF CopyInv, Agrees
  <2>2. b # current
    BY <1>2, <1>3
  <2>3. QED
    BY <1>3, <2>1, <2>2 DEF others
<1>4. StageInv'
  BY <1>1, <1>2, <1>3 DEF StageInv, Goto, appVars, Settled, Live
<1>5. AppliedReleaseKept'
  BY <1>1 DEF AppliedReleaseKept, appVars, nsVars, helmVars, Live
<1>6. QED
  BY <1>1, <1>4, <1>5, WorkerMoves DEF PCs, TypeOK, nsVars, helmVars

(* Nobody has been applied since, so no settled Application loses its own. *)
LEMMA NamespaceDelete ==
    ASSUME NamespaceInv, deleteNamespace
    PROVE  NamespaceInv'
<1> USE DEF NamespaceInv
<1> DEFINE n == local.target
<1>1. /\ pc = "deleteNamespace" /\ UNCHANGED <<appVars, helmVars>>
      /\ Delete(n) \/ UNCHANGED nsVars
      /\ Return \/ Goto("removeFinalizer")
  BY DEF deleteNamespace
<1>2. /\ n \in Namespaces /\ local.deleting
      /\ \A b \in Apps : Settled(apps[b]) => apps[b].target # n
  BY <1>1, Held DEF StageInv
<1>3. StageInv'
  BY <1>1, <1>2, Returned DEF StageInv, Goto
<1>4. /\ namespaces' \in [Namespaces -> Namespace] /\ nsCache' = nsCache
      /\ nsLag' \in [Namespaces -> Seq(Namespace)]
      /\ \A m \in Namespaces : m # n => namespaces'[m] = namespaces[m]
  <2>1. CASE UNCHANGED nsVars
    BY <2>1 DEF nsVars, TypeOK
  <2>2. CASE StoreNamespace(n, [namespaces[n] EXCEPT !.st = "terminating"])
    <3>1. [namespaces[n] EXCEPT !.st = "terminating"] \in Namespace
      BY <1>2, TerminatingType DEF TypeOK
    <3>2. QED
      BY <1>2, <2>2, <3>1, StoredNamespace
  <2>3. QED
    BY <1>1, <2>1, <2>2 DEF Delete
<1>5. AppliedReleaseKept'
  <2>1. SUFFICES ASSUME NEW b \in Apps, Settled(apps[b])
                 PROVE  /\ <<b, apps[b].target>> \in releases
                        /\ namespaces'[apps[b].target].st = "active"
    BY <1>1 DEF AppliedReleaseKept, appVars, helmVars, Settled, Live
  <2>2. /\ <<b, apps[b].target>> \in releases /\ namespaces[apps[b].target].st = "active"
        /\ apps[b].target \in Namespaces
    BY <2>1 DEF AppliedReleaseKept, Settled, Live, CopyInv, Placed
  <2>3. QED
    BY <1>2, <1>4, <2>1, <2>2
<1>6. faults' \in Nat
  BY FaultsType DEF deleteNamespace
<1>7. QED
  BY <1>1, <1>3, <1>4, <1>5, <1>6, WorkerMoves DEF PCs, TypeOK, helmVars

----------------------------------------------------------------------------
(* The steps of the cluster.                                               *)

(* A settled Application's namespace is active, so it is not the one that  *)
(* disappears.                                                             *)
LEMMA NamespaceCluster ==
    ASSUME NamespaceInv, NEW n \in Namespaces,
           TerminationCompletes(n) \/ UserCreatesNamespace(n)
    PROVE  NamespaceInv'
<1> USE DEF NamespaceInv
<1>1. UNCHANGED <<appVars, jobVars>> /\ faults' \in Nat /\ namespaces[n].st # "active"
  BY FaultsType DEF TerminationCompletes, UserCreatesNamespace
<1>2. \/ StoreNamespace(n, NoNamespace)
      \/ StoreNamespace(n, [st |-> "active", managed |-> FALSE])
  BY DEF TerminationCompletes, UserCreatesNamespace
<1>3. NoNamespace \in Namespace /\ [st |-> "active", managed |-> FALSE] \in Namespace
  BY DEF NoNamespace, Namespace
<1>4. /\ namespaces' \in [Namespaces -> Namespace] /\ nsCache' = nsCache
      /\ nsLag' \in [Namespaces -> Seq(Namespace)]
      /\ \A m \in Namespaces : m # n => namespaces'[m] = namespaces[m]
  BY <1>2, <1>3, StoredNamespace
<1>5. /\ releases' \in SUBSET (Apps \X Namespaces) /\ interrupted' \in SUBSET releases'
      /\ \A a \in Apps, m \in Namespaces :
           m # n /\ <<a, m>> \in releases => <<a, m>> \in releases'
  BY DEF TerminationCompletes, UserCreatesNamespace, TypeOK, helmVars
<1>6. TypeOK' /\ CopyInv'
  BY <1>1, <1>4, <1>5, QuietCopies DEF TypeOK, appVars, jobVars
<1>7. LocalInv'
  BY <1>1 DEF LocalInv, appVars, jobVars, Agrees, Older, Settled, Live
<1>8. StageInv'
  <2>1. pc = "recordApplied" => current \in Apps /\ local.target \in Namespaces
    BY Held
  <2>2. QED
    BY <1>1, <1>4, <1>5, <2>1 DEF StageInv, appVars, jobVars, Settled, Live
<1>9. AppliedReleaseKept'
  <2>1. SUFFICES ASSUME NEW b \in Apps, Settled(apps[b])
                 PROVE  /\ <<b, apps[b].target>> \in releases'
                        /\ namespaces'[apps[b].target].st = "active"
    BY <1>1 DEF AppliedReleaseKept, appVars, Settled, Live
  <2>2. /\ <<b, apps[b].target>> \in releases /\ namespaces[apps[b].target].st = "active"
        /\ apps[b].target \in Namespaces
    BY <2>1 DEF AppliedReleaseKept, Settled, Live, CopyInv, Placed
  <2>3. QED
    BY <1>1, <1>4, <1>5, <2>1, <2>2
<1>10. QED
  BY <1>6, <1>7, <1>8, <1>9

LEMMA NamespaceDeliver ==
    ASSUME NamespaceInv, NEW n \in Namespaces, DeliverNamespace(n)
    PROVE  NamespaceInv'
<1> USE DEF NamespaceInv
<1>1. /\ UNCHANGED <<namespaces, appVars, helmVars, pc, current, local, faults>>
      /\ overtaken' \in {TRUE, overtaken}
  BY DEF DeliverNamespace
<1>2. nsCache' \in [Namespaces -> Namespace] /\ nsLag' \in [Namespaces -> Seq(Namespace)]
  <2>1. nsLag[n] \in Seq(Namespace) /\ nsLag[n] # <<>>
    BY DEF DeliverNamespace, TypeOK
  <2>2. Head(nsLag[n]) \in Namespace /\ Tail(nsLag[n]) \in Seq(Namespace)
    BY <2>1
  <2>3. QED
    BY <2>2 DEF DeliverNamespace, TypeOK
<1>3. TypeOK' /\ CopyInv'
  BY <1>1, <1>2, QuietCopies DEF TypeOK, appVars, helmVars
<1>4. LocalInv' /\ StageInv'
  BY <1>1 DEF LocalInv, StageInv, appVars, helmVars, Agrees, Older, Settled, Live
<1>5. AppliedReleaseKept'
  BY <1>1 DEF AppliedReleaseKept, appVars, helmVars, Live
<1>6. QED
  BY <1>3, <1>4, <1>5

(* The oldest version on its way becomes the cached one.                   *)
LEMMA ApplicationDeliver ==
    ASSUME NamespaceInv, NEW a \in Apps, DeliverApplication(a)
    PROVE  NamespaceInv'
<1> USE DEF NamespaceInv
<1>1. /\ UNCHANGED <<apps, nsVars, helmVars, jobVars, faults>>
      /\ appCache' = [appCache EXCEPT ![a] = Head(appLag[a])]
      /\ appLag' = [appLag EXCEPT ![a] = Tail(appLag[a])]
  BY DEF DeliverApplication
<1>2. appLag[a] \in Seq(Application) /\ appLag[a] # <<>>
  BY DEF DeliverApplication, TypeOK
<1>3. /\ Head(appLag[a]) = appLag[a][1] /\ 1 \in 1 .. Len(appLag[a])
      /\ Tail(appLag[a]) \in Seq(Application)
      /\ Len(Tail(appLag[a])) = Len(appLag[a]) - 1 /\ Len(appLag[a]) \in Nat
      /\ \A i \in 1 .. Len(Tail(appLag[a])) :
           Tail(appLag[a])[i] = appLag[a][i + 1] /\ i + 1 \in 1 .. Len(appLag[a])
  BY <1>2
<1>4. appLag[a][1] \in Application
  BY <1>3, LagType
<1>5. TypeOK'
  BY <1>1, <1>3, <1>4 DEF TypeOK, nsVars, helmVars, jobVars
<1>6. /\ appCache'[a] = appLag[a][1] /\ appLag'[a] = Tail(appLag[a])
      /\ \A b \in Apps : b # a => appCache'[b] = appCache[b] /\ appLag'[b] = appLag[b]
  BY <1>1, <1>3 DEF TypeOK
<1>7. CopyInv'
  <2>1. SUFFICES ASSUME NEW b \in Apps
                 PROVE  /\ Placed(apps[b])
                        /\ Agrees(appCache'[b], apps[b])
                        /\ \A i \in 1 .. Len(appLag'[b]) :
                             /\ Agrees(appLag'[b][i], apps[b])
                             /\ Older(appCache'[b], appLag'[b][i])
                             /\ \A j \in 1 .. Len(appLag'[b]) :
                                  i <= j => Older(appLag'[b][i], appLag'[b][j])
    BY <1>1 DEF CopyInv, Placed, Agrees, Older, Settled, Live
  <2>2. CASE b # a
    BY <1>6, <2>2 DEF CopyInv
  <2>3. CASE b = a
    <3>1. Placed(apps[a]) /\ Agrees(appCache'[a], apps[a])
      BY <1>3, <1>6 DEF CopyInv
    <3>2. ASSUME NEW i \in 1 .. Len(appLag'[a])
          PROVE  Agrees(appLag'[a][i], apps[a]) /\ Older(appCache'[a], appLag'[a][i])
      <4>1. /\ appLag'[a][i] = appLag[a][i + 1] /\ i + 1 \in 1 .. Len(appLag[a])
            /\ 1 <= i + 1
        BY <1>3, <1>6
      <4>2. QED
        BY <1>3, <1>6, <4>1 DEF CopyInv
    <3>3. ASSUME NEW i \in 1 .. Len(appLag'[a]), NEW j \in 1 .. Len(appLag'[a]), i <= j
          PROVE  Older(appLag'[a][i], appLag'[a][j])
      <4>1. /\ appLag'[a][i] = appLag[a][i + 1] /\ i + 1 \in 1 .. Len(appLag[a])
            /\ appLag'[a][j] = appLag[a][j + 1] /\ j + 1 \in 1 .. Len(appLag[a])
            /\ i + 1 <= j + 1
        BY <1>3, <1>6, <3>3
      <4>2. QED
        BY <4>1 DEF CopyInv
    <3>4. QED
      BY <2>3, <3>1, <3>2, <3>3
  <2>4. QED
    BY <2>2, <2>3
<1>8. LocalInv'
  <2>1. SUFFICES ASSUME pc # "idle"
                 PROVE  /\ current \in Apps /\ local.exists
                        /\ Agrees(local, apps[current])
                        /\ Older(local, appCache'[current])
                        /\ \A i \in 1 .. Len(appLag'[current]) :
                             Older(local, appLag'[current][i])
    BY <1>1 DEF LocalInv, jobVars, Agrees, Older, Settled, Live
  <2>2. CASE current # a
    BY <1>6, <2>1, <2>2 DEF LocalInv
  <2>3. CASE current = a
    BY <1>3, <1>6, <2>1, <2>3 DEF LocalInv
  <2>4. QED
    BY <2>2, <2>3
<1>9. StageInv' /\ AppliedReleaseKept'
  BY <1>1 DEF StageInv, AppliedReleaseKept, nsVars, helmVars, jobVars, Settled, Live
<1>10. QED
  BY <1>5, <1>7, <1>8, <1>9

LEMMA NamespaceReconcile ==
    ASSUME NamespaceInv, NEW a \in Apps, Reconcile(a)
    PROVE  NamespaceInv'
<1> USE DEF NamespaceInv
<1>1. /\ UNCHANGED <<appVars, nsVars, helmVars, overtaken>>
      /\ current' = a /\ local' = appCache[a] /\ appCache[a].exists
      /\ \/ appCache[a].deleting /\ pc' = "uninstall"
         \/ ~appCache[a].deleting /\ pc' \in {"addFinalizer", "ensureNamespace", "fail"}
  BY DEF Reconcile
<1>2. appCache[a] \in Application /\ Older(appCache[a], appCache[a])
  BY LagType, Fields DEF Older
<1>3. faults' \in Nat
  BY FaultsType DEF Reconcile
<1>4. TypeOK' /\ CopyInv'
  BY <1>1, <1>2, <1>3, QuietCopies DEF TypeOK, appVars, nsVars, helmVars, PCs
<1>5. LocalInv'
  BY <1>1, <1>2 DEF LocalInv, CopyInv, appVars, Agrees, Older, Settled, Live
<1>6. StageInv' /\ AppliedReleaseKept'
  BY <1>1 DEF StageInv, AppliedReleaseKept, appVars, nsVars, helmVars, Live
<1>7. QED
  BY <1>4, <1>5, <1>6

(* A rollback stores no release that was not there, nor removes one.       *)
LEMMA NamespaceHealth ==
    ASSUME NamespaceInv, NEW a \in Apps, reconcileHealth(a)
    PROVE  NamespaceInv'
<1> USE DEF NamespaceInv
<1>1. /\ UNCHANGED <<appVars, nsVars, releases, jobVars, faults>>
      /\ interrupted' \subseteq interrupted
  BY DEF reconcileHealth
<1>2. TypeOK' /\ CopyInv'
  BY <1>1, QuietCopies DEF TypeOK, appVars, nsVars, jobVars
<1>3. LocalInv' /\ StageInv'
  BY <1>1 DEF LocalInv, StageInv, appVars, nsVars, jobVars, Agrees, Older, Settled, Live
<1>4. AppliedReleaseKept'
  BY <1>1 DEF AppliedReleaseKept, appVars, nsVars, Live
<1>5. QED
  BY <1>2, <1>3, <1>4

LEMMA NamespaceCrash ==
    ASSUME NamespaceInv, Crash
    PROVE  NamespaceInv'
<1> USE DEF NamespaceInv
<1>1. /\ UNCHANGED <<apps, namespaces>> /\ Return /\ faults' \in Nat
      /\ appCache' = apps /\ appLag' = [a \in Apps |-> <<>>]
      /\ nsCache' = namespaces /\ nsLag' = [n \in Namespaces |-> <<>>]
  BY FaultsType DEF Crash
<1>2. pc = "install" => <<current, local.target>> \in Apps \X Namespaces
  BY Held
<1>3. /\ releases \subseteq releases' /\ releases' \in SUBSET (Apps \X Namespaces)
      /\ interrupted' \in SUBSET releases'
  BY <1>2 DEF Crash, Interrupt, helmVars, TypeOK
<1>4. LocalInv' /\ StageInv' /\ TypeOK'
  BY <1>1, <1>3, Returned DEF TypeOK
<1>5. ASSUME NEW a \in Apps
      PROVE  Placed(apps[a]) /\ Agrees(apps[a], apps[a]) /\ Len(appLag'[a]) = 0
  BY <1>1, AgreesSelf, LagType DEF CopyInv
<1>6. CopyInv'
  BY <1>1, <1>5 DEF CopyInv, Placed, Agrees, Older, Settled, Live
<1>7. AppliedReleaseKept'
  BY <1>1, <1>3 DEF AppliedReleaseKept, Live
<1>8. QED
  BY <1>4, <1>6, <1>7

LEMMA NamespaceInit == Init => NamespaceInv
<1> SUFFICES ASSUME Init PROVE NamespaceInv
  OBVIOUS
<1> USE DEF NamespaceInv
<1>1. /\ Gone(0) \in Application /\ Gone(0).exists = FALSE /\ Gone(0).obs = 0
      /\ Gone(0).gen = 0
  BY DEF Gone, Application
<1>2. Placed(Gone(0)) /\ Agrees(Gone(0), Gone(0))
  <2>1. Placed(Gone(0))
    BY <1>1 DEF Placed
  <2>2. QED
    BY <1>1, <2>1, AgreesSelf
<1>3. /\ NoNamespace \in Namespace /\ [st |-> "active", managed |-> FALSE] \in Namespace
  BY DEF NoNamespace, Namespace
<1>4. /\ apps = [a \in Apps |-> Gone(0)] /\ appCache = apps
      /\ appLag = [a \in Apps |-> <<>>] /\ pc = "idle"
  BY DEF Init
<1>5. TypeOK
  <2>1. apps \in [Apps -> Application] /\ appCache \in [Apps -> Application]
        /\ appLag \in [Apps -> Seq(Application)]
    BY <1>1, <1>4
  <2>2. namespaces \in [Namespaces -> Namespace] /\ nsCache \in [Namespaces -> Namespace]
        /\ nsLag \in [Namespaces -> Seq(Namespace)]
    <3>1. /\ namespaces \in [Namespaces -> {NoNamespace, [st |-> "active", managed |-> FALSE]}]
          /\ nsCache = namespaces /\ nsLag = [n \in Namespaces |-> <<>>]
      BY DEF Init
    <3>2. {NoNamespace, [st |-> "active", managed |-> FALSE]} \subseteq Namespace
      BY <1>3
    <3>3. namespaces \in [Namespaces -> Namespace]
      BY <3>1, <3>2
    <3>4. nsLag \in [Namespaces -> Seq(Namespace)]
      BY <3>1
    <3>5. QED
      BY <3>1, <3>3, <3>4
  <2>3. QED
    BY <1>1, <2>1, <2>2 DEF TypeOK, Init, PCs
<1>6. CopyInv
  <2>1. ASSUME NEW a \in Apps
        PROVE  apps[a] = Gone(0) /\ appCache[a] = Gone(0) /\ Len(appLag[a]) = 0
    BY <1>4
  <2>2. ASSUME NEW a \in Apps
        PROVE  /\ Placed(apps[a]) /\ Agrees(appCache[a], apps[a])
               /\ 1 .. Len(appLag[a]) = {}
    BY <1>2, <2>1
  <2>3. QED
    BY <2>2 DEF CopyInv
<1>7. LocalInv /\ StageInv
  BY <1>4 DEF LocalInv, StageInv
<1>8. AppliedReleaseKept
  BY <1>1, <1>4 DEF AppliedReleaseKept, Live
<1>9. QED
  BY <1>5, <1>6, <1>7, <1>8

LEMMA NamespaceNext ==
    ASSUME NamespaceInv, [Next]_vars
    PROVE  NamespaceInv'
<1>1. CASE UNCHANGED vars
  BY <1>1 DEF vars, NamespaceInv, TypeOK, CopyInv, LocalInv, StageInv,
              AppliedReleaseKept, Placed, Agrees, Older, Settled, Live
<1>2. CASE Worker
  BY <1>2, NamespaceWrites, NamespaceReads, NamespaceCreate, NamespaceInstall,
     NamespaceUninstall, NamespaceListed, NamespaceDelete DEF Worker
<1>3. CASE \E a \in Apps :
             Reconcile(a) \/ reconcileHealth(a) \/ DeliverApplication(a) \/ Users(a)
  BY <1>3, NamespaceReconcile, NamespaceHealth, ApplicationDeliver, NamespaceUsers
<1>4. CASE \E n \in Namespaces :
             DeliverNamespace(n) \/ TerminationCompletes(n) \/ UserCreatesNamespace(n)
  BY <1>4, NamespaceDeliver, NamespaceCluster
<1>5. QED
  BY <1>1, <1>2, <1>3, <1>4, NamespaceCrash DEF Next

(* Nobody loses a release to somebody else's deletion, although            *)
(* maybeDeleteNamespace lists the Applications of the namespace from a     *)
(* cache that may be stale, and deletes it some time after.                *)
THEOREM AppliedReleaseIsKept == Spec => []AppliedReleaseKept
<1>1. Spec => []NamespaceInv
  BY NamespaceInit, NamespaceNext, PTL DEF Spec
<1>2. NamespaceInv => AppliedReleaseKept
  BY DEF NamespaceInv
<1>3. QED
  BY <1>1, <1>2, PTL
----------------------------------------------------------------------------
(* Whose namespace is deleted.  The annotation is read from the cache, and *)
(* the proof is about what lies between the cache and the stored version:  *)
(* the mark of a namespace is lost only by a namespace that goes.          *)

(* From a marked version to a later unmarked one the namespace was absent. *)
Versions(c, l, w) ==
    /\ w.st = "absent" => ~w.managed
    /\ l = <<>> => c = w
    /\ l # <<>> => l[Len(l)] = w
    /\ \A j \in 1 .. Len(l) :
         c.managed /\ ~l[j].managed => \E m \in 1 .. j : l[m].st = "absent"
    /\ \A i, j \in 1 .. Len(l) :
         i < j /\ l[i].managed /\ ~l[j].managed
           => \E m \in i + 1 .. j : l[m].st = "absent"

VersionInv == \A n \in Namespaces : Versions(nsCache[n], nsLag[n], namespaces[n])

(* What may become of a namespace: gone, or as marked as it was.           *)
Succeeds(v, w) ==
    /\ v.st = "absent" => ~v.managed
    /\ v.st = "absent" \/ (w.managed => v.managed)

LEMMA VersionsSame == ASSUME NEW w, w.st = "absent" => ~w.managed PROVE Versions(w, <<>>, w)
<1>1. 1 .. Len(<<>>) = {}
  OBVIOUS
<1> QED  BY <1>1 DEF Versions

LEMMA VersionsAppend ==
    ASSUME NEW c, NEW l \in Seq(Namespace), NEW w, NEW v \in Namespace,
           Versions(c, l, w), Succeeds(v, w)
    PROVE  Versions(c, Append(l, v), v)
<1> DEFINE k == Append(l, v)
<1>1. /\ Len(l) \in Nat /\ Len(k) = Len(l) + 1 /\ k # <<>> /\ k[Len(l) + 1] = v
      /\ \A i \in 1 .. Len(l) : k[i] = l[i]
  OBVIOUS
<1> HIDE DEF k
<1>2. \A i \in 1 .. Len(k) : i \in 1 .. Len(l) \/ i = Len(l) + 1
  BY <1>1
<1>3. ASSUME NEW j \in 1 .. Len(k), c.managed, ~k[j].managed
      PROVE  \E m \in 1 .. j : k[m].st = "absent"
  <2>1. CASE j \in 1 .. Len(l)
    <3>1. PICK m \in 1 .. j : l[m].st = "absent"
      BY <1>1, <1>3, <2>1 DEF Versions
    <3>2. m \in 1 .. Len(l)
      BY <1>1, <2>1
    <3> QED  BY <1>1, <3>1, <3>2
  <2>2. CASE j = Len(l) + 1 /\ v.st = "absent"
    <3>1. j \in 1 .. j /\ k[j] = v
      BY <1>1, <2>2
    <3> QED  BY <2>2, <3>1
  <2>3. CASE j = Len(l) + 1 /\ v.st # "absent"
    <3>1. ~w.managed
      BY <1>1, <1>3, <2>3 DEF Succeeds
    <3>2. l # <<>> /\ l[Len(l)] = w /\ Len(l) \in 1 .. Len(l)
      BY <1>1, <1>3, <3>1 DEF Versions
    <3>3. PICK m \in 1 .. Len(l) : l[m].st = "absent"
      BY <1>3, <3>1, <3>2 DEF Versions
    <3>4. m \in 1 .. j
      BY <1>1, <2>3
    <3> QED  BY <1>1, <3>3, <3>4
  <2> QED  BY <1>2, <2>1, <2>2, <2>3
<1>4. ASSUME NEW i \in 1 .. Len(k), NEW j \in 1 .. Len(k), i < j,
             k[i].managed, ~k[j].managed
      PROVE  \E m \in i + 1 .. j : k[m].st = "absent"
  <2>1. i \in 1 .. Len(l)
    BY <1>1, <1>4
  <2>2. CASE j \in 1 .. Len(l)
    <3>1. PICK m \in i + 1 .. j : l[m].st = "absent"
      BY <1>1, <1>4, <2>1, <2>2 DEF Versions
    <3>2. m \in 1 .. Len(l)
      BY <1>1, <2>1, <2>2
    <3> QED  BY <1>1, <3>1, <3>2
  <2>3. CASE j = Len(l) + 1 /\ v.st = "absent"
    <3>1. j \in i + 1 .. j /\ k[j] = v
      BY <1>1, <1>4, <2>3
    <3> QED  BY <2>3, <3>1
  <2>4. CASE j = Len(l) + 1 /\ v.st # "absent"
    <3>1. ~w.managed
      BY <1>1, <1>4, <2>4 DEF Succeeds
    <3>2. l # <<>> /\ l[Len(l)] = w /\ Len(l) \in 1 .. Len(l)
      BY <1>1, <2>1 DEF Versions
    <3>3. i # Len(l) /\ i < Len(l)
      BY <1>1, <1>4, <2>1, <3>1, <3>2
    <3>4. PICK m \in i + 1 .. Len(l) : l[m].st = "absent"
      BY <1>1, <1>4, <2>1, <3>1, <3>2, <3>3 DEF Versions
    <3>5. m \in i + 1 .. j /\ m \in 1 .. Len(l)
      BY <1>1, <2>1, <2>4
    <3> QED  BY <1>1, <3>4, <3>5
  <2> QED  BY <1>2, <2>2, <2>3, <2>4
<1>5. k[Len(k)] = v
  BY <1>1
<1> QED  BY <1>1, <1>3, <1>4, <1>5 DEF Versions, Succeeds, k

LEMMA VersionsTail ==
    ASSUME NEW c, NEW l \in Seq(Namespace), NEW w, l # <<>>, Versions(c, l, w)
    PROVE  Versions(Head(l), Tail(l), w)
<1> DEFINE t == Tail(l)
<1>1. /\ Len(l) \in Nat /\ Len(t) = Len(l) - 1 /\ Head(l) = l[1] /\ Len(l) \in 1 .. Len(l)
      /\ t \in Seq(Namespace) /\ (t = <<>> <=> Len(l) = 1)
      /\ \A i \in 1 .. Len(t) : t[i] = l[i + 1] /\ i + 1 \in 1 .. Len(l)
  <2>1. Len(l) \in Nat /\ Len(l) # 0
    OBVIOUS
  <2>2. t \in Seq(Namespace) /\ Len(t) = Len(l) - 1
    OBVIOUS
  <2>3. Head(l) = l[1]
    OBVIOUS
  <2>4. \A i \in 1 .. Len(t) : t[i] = l[i + 1]
    OBVIOUS
  <2> HIDE DEF t
  <2>5. t = <<>> <=> Len(t) = 0
    <3>1. \A s \in Seq(Namespace) : s = <<>> <=> Len(s) = 0
      OBVIOUS
    <3> QED  BY <2>2, <3>1
  <2>6. \A i \in 1 .. Len(t) : i + 1 \in 1 .. Len(l)
    BY <2>1, <2>2
  <2>7. Len(l) \in 1 .. Len(l) /\ (Len(t) = 0 <=> Len(l) = 1)
    BY <2>1, <2>2
  <2> QED  BY <2>1, <2>2, <2>3, <2>4, <2>5, <2>6, <2>7
<1> HIDE DEF t
<1>2. t = <<>> => Head(l) = w
  BY <1>1 DEF Versions
<1>3. t # <<>> => t[Len(t)] = w
  <2> SUFFICES ASSUME t # <<>> PROVE t[Len(t)] = w
    OBVIOUS
  <2>1. Len(t) \in 1 .. Len(t) /\ Len(t) + 1 = Len(l)
    BY <1>1
  <2> QED  BY <1>1, <2>1 DEF Versions
<1>4. ASSUME NEW i \in 0 .. Len(t), NEW j \in 1 .. Len(t), i < j,
             l[i + 1].managed, ~l[j + 1].managed
      PROVE  \E m \in i + 1 .. j : t[m].st = "absent"
  <2>1. i + 1 \in 1 .. Len(l) /\ j + 1 \in 1 .. Len(l) /\ i + 1 < j + 1
    BY <1>1, <1>4
  <2>2. PICK m \in (i + 1) + 1 .. j + 1 : l[m].st = "absent"
    BY <1>4, <2>1 DEF Versions
  <2>3. m - 1 \in i + 1 .. j /\ m - 1 \in 1 .. Len(t) /\ (m - 1) + 1 = m
    BY <1>1
  <2> QED  BY <1>1, <2>2, <2>3
<1>5. ASSUME NEW j \in 1 .. Len(t), Head(l).managed, ~t[j].managed
      PROVE  \E m \in 1 .. j : t[m].st = "absent"
  <2>1. 0 \in 0 .. Len(t) /\ 0 < j /\ l[0 + 1].managed /\ ~l[j + 1].managed
    BY <1>1, <1>5
  <2>2. \E m \in 0 + 1 .. j : t[m].st = "absent"
    BY <1>4, <2>1
  <2> QED  BY <2>2
<1>6. ASSUME NEW i \in 1 .. Len(t), NEW j \in 1 .. Len(t), i < j,
             t[i].managed, ~t[j].managed
      PROVE  \E m \in i + 1 .. j : t[m].st = "absent"
  <2>1. i \in 0 .. Len(t) /\ l[i + 1].managed /\ ~l[j + 1].managed
    BY <1>1, <1>6
  <2> QED  BY <1>4, <1>6, <2>1
<1> QED  BY <1>2, <1>3, <1>5, <1>6 DEF Versions, t

LEMMA VersionInit == Init => VersionInv
<1> SUFFICES ASSUME Init, NEW n \in Namespaces
             PROVE  Versions(nsCache[n], nsLag[n], namespaces[n])
  BY DEF VersionInv
<1>1. /\ nsLag[n] = <<>> /\ nsCache[n] = namespaces[n]
      /\ namespaces[n] \in {NoNamespace, [st |-> "active", managed |-> FALSE]}
  BY DEF Init
<1>2. namespaces[n].st = "absent" => ~namespaces[n].managed
  BY <1>1 DEF NoNamespace
<1> QED  BY <1>1, <1>2, VersionsSame

(* A write of one namespace.                                               *)
LEMMA VersionStore ==
    ASSUME TypeOK, VersionInv, NEW n \in Namespaces, NEW v \in Namespace,
           StoreNamespace(n, v), Succeeds(v, namespaces[n])
    PROVE  VersionInv'
<1>1. /\ namespaces' = [namespaces EXCEPT ![n] = v] /\ nsCache' = nsCache
      /\ nsLag' = [nsLag EXCEPT ![n] = Append(nsLag[n], v)]
      /\ \A m \in Namespaces : nsLag[m] \in Seq(Namespace)
  BY DEF StoreNamespace, TypeOK
<1> SUFFICES ASSUME NEW m \in Namespaces
             PROVE  Versions(nsCache'[m], nsLag'[m], namespaces'[m])
  BY DEF VersionInv, Versions
<1>2. CASE m = n
  <2>1. nsCache'[m] = nsCache[n] /\ nsLag'[m] = Append(nsLag[n], v) /\ namespaces'[m] = v
    BY <1>1, <1>2 DEF TypeOK
  <2> QED  BY <1>1, <2>1, VersionsAppend DEF VersionInv
<1>3. CASE m # n
  <2>1. /\ nsCache'[m] = nsCache[m] /\ nsLag'[m] = nsLag[m]
        /\ namespaces'[m] = namespaces[m]
    BY <1>1, <1>3 DEF TypeOK
  <2> QED  BY <2>1 DEF VersionInv
<1> QED  BY <1>2, <1>3

LEMMA VersionQuiet == ASSUME VersionInv, UNCHANGED nsVars PROVE VersionInv'
BY DEF VersionInv, Versions, nsVars

(* The worker's steps that write no namespace.                             *)
QuietWorker ==
    \/ AddFinalizer \/ ensureNamespace \/ InstallOrUpgrade \/ RecordApplied \/ fail
    \/ Uninstall \/ maybeDeleteNamespace \/ otherApplicationsInNamespace
    \/ RemoveFinalizer

LEMMA QuietSteps == QuietWorker => UNCHANGED nsVars
BY DEF QuietWorker, AddFinalizer, ensureNamespace, InstallOrUpgrade, RecordApplied,
       fail, Uninstall, maybeDeleteNamespace, otherApplicationsInNamespace,
       RemoveFinalizer

LEMMA VersionNext == ASSUME NamespaceInv, VersionInv, [Next]_vars PROVE VersionInv'
<1>1. TypeOK
  BY DEF NamespaceInv
<1>2. CASE UNCHANGED nsVars
  BY <1>2, VersionQuiet
<1>3. ASSUME NEW n \in Namespaces, StoreNamespace(n, [st |-> "active", managed |-> TRUE])
      PROVE  VersionInv'
  BY <1>1, <1>3, VersionStore DEF Succeeds, Namespace
<1>4. CASE createNamespace
  <2>1. local.target \in Namespaces
    BY <1>4, Held DEF createNamespace
  <2> QED  BY <1>2, <1>3, <1>4, <2>1 DEF createNamespace, Create
<1>5. CASE deleteNamespace
  <2>1. local.target \in Namespaces
    BY <1>5, Held DEF deleteNamespace
  <2>2. ASSUME NEW n \in Namespaces, namespaces[n].st = "active",
               StoreNamespace(n, [namespaces[n] EXCEPT !.st = "terminating"])
        PROVE  VersionInv'
    <3> DEFINE v == [namespaces[n] EXCEPT !.st = "terminating"]
    <3>1. /\ namespaces[n] \in Namespace /\ v \in Namespace /\ v.st = "terminating"
          /\ v.managed = namespaces[n].managed /\ StoreNamespace(n, v)
      BY <1>1, <2>2, TerminatingType DEF TypeOK, Namespace
    <3> HIDE DEF v
    <3>2. Succeeds(v, namespaces[n])
      BY <3>1 DEF Succeeds
    <3> QED  BY <1>1, <3>1, <3>2, VersionStore
  <2> QED  BY <1>2, <1>5, <2>1, <2>2 DEF deleteNamespace, Delete
<1>6. ASSUME NEW n \in Namespaces, UserCreatesNamespace(n) PROVE VersionInv'
  <2> DEFINE v == [st |-> "active", managed |-> FALSE]
  <2>1. v \in Namespace /\ v.st = "active" /\ ~v.managed
    BY DEF Namespace
  <2>2. StoreNamespace(n, v) /\ namespaces[n].st = "absent"
    BY <1>6 DEF UserCreatesNamespace
  <2> HIDE DEF v
  <2>3. Succeeds(v, namespaces[n])
    BY <2>1, <2>2 DEF VersionInv, Versions, Succeeds
  <2> QED  BY <1>1, <2>1, <2>2, <2>3, VersionStore
<1>7. ASSUME NEW n \in Namespaces, TerminationCompletes(n) PROVE VersionInv'
  <2>1. NoNamespace \in Namespace /\ Succeeds(NoNamespace, namespaces[n])
    BY DEF NoNamespace, Namespace, Succeeds
  <2> QED  BY <1>1, <1>7, <2>1, VersionStore DEF TerminationCompletes
<1>8. ASSUME NEW n \in Namespaces, DeliverNamespace(n) PROVE VersionInv'
  <2>1. /\ nsLag[n] # <<>> /\ UNCHANGED namespaces
        /\ nsCache' = [nsCache EXCEPT ![n] = Head(nsLag[n])]
        /\ nsLag' = [nsLag EXCEPT ![n] = Tail(nsLag[n])]
        /\ \A m \in Namespaces : nsLag[m] \in Seq(Namespace)
    BY <1>1, <1>8 DEF DeliverNamespace, TypeOK
  <2> SUFFICES ASSUME NEW m \in Namespaces
               PROVE  Versions(nsCache'[m], nsLag'[m], namespaces'[m])
    BY DEF VersionInv, Versions
  <2>2. CASE m = n
    <3>1. nsCache'[m] = Head(nsLag[n]) /\ nsLag'[m] = Tail(nsLag[n])
          /\ namespaces'[m] = namespaces[n]
      BY <1>1, <2>1, <2>2 DEF TypeOK
    <3> QED  BY <2>1, <3>1, VersionsTail DEF VersionInv
  <2>3. CASE m # n
    <3>1. nsCache'[m] = nsCache[m] /\ nsLag'[m] = nsLag[m] /\ namespaces'[m] = namespaces[m]
      BY <1>1, <2>1, <2>3 DEF TypeOK
    <3> QED  BY <3>1 DEF VersionInv
  <2> QED  BY <2>2, <2>3
<1>9. CASE Crash
  <2>1. /\ UNCHANGED namespaces /\ nsCache' = namespaces
        /\ nsLag' = [n \in Namespaces |-> <<>>]
    BY <1>9 DEF Crash
  <2> SUFFICES ASSUME NEW m \in Namespaces
               PROVE  Versions(nsCache'[m], nsLag'[m], namespaces'[m])
    BY DEF VersionInv, Versions
  <2>2. namespaces[m].st = "absent" => ~namespaces[m].managed
    BY DEF VersionInv, Versions
  <2>3. nsCache'[m] = namespaces[m] /\ nsLag'[m] = <<>> /\ namespaces'[m] = namespaces[m]
    BY <2>1
  <2> QED  BY <2>2, <2>3, VersionsSame
<1>10. CASE QuietWorker
  BY <1>2, <1>10, QuietSteps
<1>11. ASSUME NEW a \in Apps,
              Reconcile(a) \/ reconcileHealth(a) \/ DeliverApplication(a) \/ Users(a)
       PROVE  VersionInv'
  BY <1>2, <1>11 DEF Reconcile, reconcileHealth, DeliverApplication, Users, CreateApplication,
                     EditNamespace, DeleteApplication
<1>12. CASE UNCHANGED vars
  BY <1>2, <1>12 DEF vars, nsVars
<1> QED
  BY <1>4, <1>5, <1>6, <1>7, <1>8, <1>9, <1>10, <1>11, <1>12 DEF Next, Worker, QuietWorker

(* Only deleteNamespace deletes, and only the target of the reconcile.     *)
LEMMA DeletesTarget ==
    ASSUME NamespaceInv, [Next]_vars, NEW n \in Namespaces,
           namespaces[n].st = "active", namespaces'[n].st = "terminating"
    PROVE  pc = "deleteNamespace" /\ n = local.target
<1>1. TypeOK /\ namespaces'[n] # namespaces[n]
  BY DEF NamespaceInv
<1>2. ASSUME NEW m \in Namespaces, NEW v, StoreNamespace(m, v), v.st # "terminating"
      PROVE  FALSE
  <2>1. namespaces' = [namespaces EXCEPT ![m] = v]
    BY <1>2 DEF StoreNamespace
  <2> QED  BY <1>1, <1>2, <2>1 DEF TypeOK
<1>3. CASE deleteNamespace
  <2>1. local.target \in Namespaces /\ Delete(local.target)
    BY <1>1, <1>3, Held DEF deleteNamespace, nsVars
  <2>2. n = local.target
    BY <1>1, <2>1 DEF Delete, StoreNamespace, nsVars, TypeOK
  <2> QED  BY <1>3, <2>2 DEF deleteNamespace
<1>4. CASE createNamespace
  <2>1. local.target \in Namespaces
    BY <1>4, Held DEF createNamespace
  <2>2. StoreNamespace(local.target, [st |-> "active", managed |-> TRUE])
    BY <1>1, <1>4 DEF createNamespace, Create, nsVars
  <2> QED  BY <1>2, <2>1, <2>2
<1>5. ASSUME NEW m \in Namespaces, UserCreatesNamespace(m) \/ TerminationCompletes(m)
      PROVE  FALSE
  BY <1>2, <1>5 DEF UserCreatesNamespace, TerminationCompletes, NoNamespace
<1>6. CASE QuietWorker
  BY <1>1, <1>6, QuietSteps DEF nsVars
<1>7. ASSUME NEW a \in Apps,
             Reconcile(a) \/ reconcileHealth(a) \/ DeliverApplication(a) \/ Users(a)
      PROVE  FALSE
  BY <1>1, <1>7 DEF Reconcile, reconcileHealth, DeliverApplication, Users,
                    CreateApplication, EditNamespace, DeleteApplication, nsVars
<1>8. ASSUME NEW m \in Namespaces, DeliverNamespace(m) PROVE FALSE
  BY <1>1, <1>8 DEF DeliverNamespace
<1>9. CASE Crash \/ UNCHANGED vars
  BY <1>1, <1>9 DEF Crash, vars
<1> QED
  BY <1>3, <1>4, <1>5, <1>6, <1>7, <1>8, <1>9 DEF Next, Worker, QuietWorker

(* What the worker has read before it deletes: the cached namespace was    *)
(* marked, and still is unless news of its end has arrived since.          *)
ReadInv ==
    pc \in {"otherApplications", "deleteNamespace"} /\ ~overtaken
      => nsCache[local.target].managed

LEMMA ReadNext ==
    ASSUME NamespaceInv, VersionInv, ReadInv, [Next]_vars
    PROVE  ReadInv'
<1>1. CASE UNCHANGED <<nsCache, pc, local, overtaken>>
  BY <1>1 DEF ReadInv
<1>2. CASE pc' \notin {"otherApplications", "deleteNamespace"}
  BY <1>2 DEF ReadInv
<1>3. CASE maybeDeleteNamespace
  BY <1>3 DEF maybeDeleteNamespace, Goto, nsVars, ReadInv
<1>4. CASE otherApplicationsInNamespace
  BY <1>4 DEF otherApplicationsInNamespace, Goto, nsVars, ReadInv
<1>5. ASSUME NEW n \in Namespaces, DeliverNamespace(n)
      PROVE  ReadInv'
  <2>1. /\ UNCHANGED <<pc, current, local>> /\ nsLag[n] # <<>> /\ nsLag[n] \in Seq(Namespace)
        /\ nsCache' = [nsCache EXCEPT ![n] = Head(nsLag[n])]
        /\ nsCache \in [Namespaces -> Namespace]
    BY <1>5 DEF DeliverNamespace, NamespaceInv, TypeOK
  <2> SUFFICES ASSUME pc \in {"otherApplications", "deleteNamespace"}, ~overtaken'
               PROVE  nsCache'[local.target].managed
    BY <2>1 DEF ReadInv
  <2>2. ~overtaken /\ (n = local.target => Head(nsLag[n]).st # "absent")
    BY <1>5 DEF DeliverNamespace
  <2>3. nsCache[local.target].managed /\ local.target \in Namespaces
    BY <2>2, Held DEF ReadInv
  <2>4. CASE n # local.target
    BY <2>1, <2>3, <2>4
  <2>5. CASE n = local.target
    <3>1. /\ Head(nsLag[n]) = nsLag[n][1] /\ 1 \in 1 .. Len(nsLag[n]) /\ 1 .. 1 = {1}
      BY <2>1
    <3>2. nsLag[n][1].managed
      BY <2>2, <2>3, <2>5, <3>1 DEF VersionInv, Versions
    <3> QED  BY <2>1, <2>3, <2>5, <3>1, <3>2
  <2> QED  BY <2>4, <2>5
<1>6. CASE AddFinalizer \/ RecordApplied \/ fail \/ RemoveFinalizer \/ Crash
  BY <1>2, <1>6 DEF AddFinalizer, RecordApplied, fail, RemoveFinalizer, Crash, Return
<1>7. CASE ensureNamespace \/ createNamespace \/ InstallOrUpgrade \/ Uninstall \/ deleteNamespace
  BY <1>2, <1>7 DEF ensureNamespace, createNamespace, InstallOrUpgrade, Uninstall,
                    deleteNamespace, Return, Goto
<1>8. ASSUME NEW a \in Apps,
             Reconcile(a) \/ reconcileHealth(a) \/ DeliverApplication(a) \/ Users(a)
      PROVE  ReadInv'
  <2>1. CASE Reconcile(a)
    BY <1>2, <2>1 DEF Reconcile
  <2>2. CASE reconcileHealth(a) \/ DeliverApplication(a) \/ Users(a)
    BY <1>1, <2>2 DEF reconcileHealth, DeliverApplication, Users, CreateApplication,
                      EditNamespace, DeleteApplication, nsVars, jobVars
  <2> QED  BY <1>8, <2>1, <2>2
<1>9. ASSUME NEW n \in Namespaces, TerminationCompletes(n) \/ UserCreatesNamespace(n)
      PROVE  ReadInv'
  BY <1>1, <1>9 DEF TerminationCompletes, UserCreatesNamespace, StoreNamespace, jobVars
<1>10. CASE UNCHANGED vars
  BY <1>1, <1>10 DEF vars
<1> QED
  BY <1>3, <1>4, <1>5, <1>6, <1>7, <1>8, <1>9, <1>10 DEF Next, Worker

(* A namespace that is not the operator's is deleted only when the cache   *)
(* still has to learn that an earlier one of the name is gone, or has      *)
(* learnt it only since it was read: one that was there before the         *)
(* operator is never deleted.                                              *)
THEOREM ForeignIsDeletedOnlyByReuse == Spec => DeletesForeignOnlyByReuse
<1>1. Spec => []NamespaceInv
  BY NamespaceInit, NamespaceNext, PTL DEF Spec
<1>2. NamespaceInv /\ VersionInv /\ ReadInv /\ [Next]_vars => VersionInv' /\ ReadInv'
  BY VersionNext, ReadNext
<1>3. NamespaceInv /\ VersionInv /\ ReadInv /\ [Next]_vars
        => [\A n \in Namespaces :
              /\ namespaces[n].st = "active" /\ ~namespaces[n].managed
              /\ namespaces'[n].st = "terminating"
              => overtaken \/ \E i \in 1 .. Len(nsLag[n]) : nsLag[n][i].st = "absent"]_vars
  <2> SUFFICES ASSUME NamespaceInv, VersionInv, ReadInv, [Next]_vars, NEW n \in Namespaces,
                      namespaces[n].st = "active", ~namespaces[n].managed,
                      namespaces'[n].st = "terminating", ~overtaken
               PROVE  \E i \in 1 .. Len(nsLag[n]) : nsLag[n][i].st = "absent"
    OBVIOUS
  <2>1. nsCache[n].managed
    BY DeletesTarget DEF ReadInv
  <2>2. Versions(nsCache[n], nsLag[n], namespaces[n]) /\ nsLag[n] \in Seq(Namespace)
    BY DEF VersionInv, NamespaceInv, TypeOK
  <2>3. nsLag[n] # <<>>
    BY <2>1, <2>2 DEF Versions
  <2>4. /\ Len(nsLag[n]) \in 1 .. Len(nsLag[n])
        /\ ~nsLag[n][Len(nsLag[n])].managed
    BY <2>2, <2>3 DEF Versions
  <2> QED  BY <2>1, <2>2, <2>4 DEF Versions
<1>4. Init => VersionInv /\ ReadInv
  BY VersionInit DEF Init, ReadInv
<1> QED  BY <1>1, <1>2, <1>3, <1>4, PTL DEF Spec, DeletesForeignOnlyByReuse
=============================================================================
