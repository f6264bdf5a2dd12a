---------------------------- MODULE WiringProofs ----------------------------
(***************************************************************************)
(* Proofs about ControllerWiring: its types, and what the webhook keeps    *)
(* out.                                                                    *)
(***************************************************************************)
EXTENDS ControllerWiring, FiniteSetTheorems, SequenceTheorems, TLAPS

(* Some spec passes the schema; objects that are not there have one.       *)
LEMMA GoneTyped == AnySpec \in StoredSpec /\ Gone \in Application
<1>1. \E spec \in StoredSpec : TRUE
  <2>1. PICK n \in Targets : TRUE
    BY AdmissionAssumption
  <2>2. [version |-> "semver", namespace |-> n, ref |-> NoRef] \in StoredSpec
    BY AdmissionAssumption DEF StoredSpec, ApplicationSpec, SchemaAccepts
  <2> QED  BY <2>2
<1>2. AnySpec \in StoredSpec
  BY <1>1 DEF AnySpec
<1> QED  BY <1>2 DEF Gone, Application, Hashes

(* The hash that is read for an Application.                               *)
LEMMA HashTyped ==
    ASSUME NEW store \in [SecretKeys -> Contents \cup {Broken}], NEW a \in Apps,
           NEW spec \in StoredSpec
    PROVE  HashIn(store, a, spec) \in Hashes
BY DEF HashIn, Hashes, SecretKeys, StoredSpec, ApplicationSpec, SchemaAccepts

LEMMA StoreAppTyped ==
    ASSUME AppsTyped, NEW a \in Apps, NEW obj \in Application, StoreApp(a, obj)
    PROVE  AppsTyped'
<1>1. apps' \in [Apps -> Application] /\ appCache' \in [Apps -> Application]
  BY DEF AppsTyped, StoreApp
<1>2. Append(appLag[a], obj) \in Seq(Application)
  BY DEF AppsTyped
<1>3. appLag' \in [Apps -> Seq(Application)]
  BY <1>2 DEF AppsTyped, StoreApp
<1> QED  BY <1>1, <1>3 DEF AppsTyped

LEMMA LeaveTyped == ASSUME Leave PROVE JobTyped'
BY GoneTyped DEF Leave, JobTyped, PCs, Hashes

LEMMA InitTyped == Init => TypeOK
<1> SUFFICES ASSUME Init PROVE TypeOK
  OBVIOUS
<1>1. SecretsTyped
  <2>1. (CHOOSE c \in Contents : TRUE) \in Contents
    BY WiringAssumption
  <2> QED  BY <2>1 DEF Init, SecretsTyped
<1>2. ASSUME NEW a \in Apps PROVE InitialObjects(a) \subseteq Application
  <2>1. ASSUME NEW spec \in Specs, SchemaAccepts(spec)
        PROVE  Settled(spec, HashIn(secrets, a, spec)) \in Application
    <3>1. spec \in StoredSpec
      BY <2>1, WiringAssumption DEF StoredSpec
    <3>2. HashIn(secrets, a, spec) \in Hashes
      BY <1>1, <3>1, HashTyped DEF SecretsTyped
    <3> QED  BY <3>1, <3>2 DEF Settled, Application
  <2> QED  BY <2>1, GoneTyped DEF InitialObjects
<1>3. apps \in [Apps -> Application]
  <2>1. /\ apps \in [Apps -> UNION {InitialObjects(a) : a \in Apps}]
        /\ \A a \in Apps : apps[a] \in InitialObjects(a)
    BY DEF Init
  <2> QED  BY <2>1, <1>2
<1>4. AppsTyped
  BY <1>3 DEF Init, AppsTyped
<1>5. JobTyped
  BY GoneTyped, WiringAssumption DEF Init, JobTyped, PCs, Hashes
<1>6. queue \in SUBSET Apps
  BY DEF Init, InitialRequests
<1> QED  BY <1>1, <1>4, <1>5, <1>6 DEF Init, TypeOK

----------------------------------------------------------------------------
(* One lemma per group of actions.                                         *)

(* A reconcile that ends returns its request or does not.                  *)
LEMMA EndTyped ==
    ASSUME TypeOK, current \in Apps, Done \/ Retry
    PROVE  JobTyped' /\ queue' \in SUBSET Apps
BY LeaveTyped DEF Done, Retry, TypeOK

(* A write that is accepted, refused or fails, at the end of a reconcile.  *)
LEMMA WriteTyped ==
    ASSUME TypeOK, current \in Apps, NEW obj \in Application,
           \/ StoreApp(current, obj) /\ (Done \/ Retry) /\ UNCHANGED events
           \/ (Done \/ Retry) /\ UNCHANGED <<appVars, events>>
           \/ FailOn(obj)
           \/ Refuse
    PROVE  AppsTyped' /\ JobTyped' /\ queue' \in SUBSET Apps /\ events' \in Nat
<1>1. Done \/ Retry
  BY DEF FailOn, Refuse
<1>2. JobTyped' /\ queue' \in SUBSET Apps
  BY <1>1, EndTyped
<1>3. StoreApp(current, obj) \/ UNCHANGED appVars
  BY DEF FailOn, Refuse
<1>4. AppsTyped'
  <2>1. CASE StoreApp(current, obj)
    BY <2>1, StoreAppTyped DEF TypeOK
  <2>2. CASE UNCHANGED appVars
    BY <2>2 DEF appVars, TypeOK, AppsTyped
  <2> QED  BY <1>3, <2>1, <2>2
<1>5. events' \in Nat
  BY DEF FailOn, Refuse, Event, TypeOK
<1> QED  BY <1>2, <1>4, <1>5

LEMMA StatusTyped ==
    ASSUME TypeOK, current \in Apps, NEW obj \in Application,
           WriteStatus(obj, Done) \/ WriteStatus(obj, Retry)
    PROVE  AppsTyped' /\ JobTyped' /\ queue' \in SUBSET Apps /\ events' \in Nat
BY WriteTyped DEF WriteStatus

LEMMA WorkerTyped == ASSUME TypeOK, Worker PROVE TypeOK'
<1> USE DEF TypeOK
<1>a. ASSUME pc \notin {"idle", "refresh"} PROVE current \in Apps
  BY <1>a DEF JobTyped
<1>b. ASSUME UNCHANGED secretVars PROVE SecretsTyped'
  BY <1>b DEF secretVars, SecretsTyped
<1>1. CASE AddFinalizer
  <2>1. [local EXCEPT !.finalizer = TRUE] \in Application
    BY DEF JobTyped, Application
  <2>2. AppsTyped' /\ JobTyped' /\ queue' \in SUBSET Apps /\ events' \in Nat
    BY <1>1, <1>a, <2>1, WriteTyped DEF AddFinalizer
  <2> QED  BY <1>1, <1>b, <2>2 DEF AddFinalizer
<1>2. CASE resolveValues
  <2>1. HashIn(secretCache, current, local.spec) \in Hashes
    BY <1>2, <1>a, HashTyped DEF resolveValues, SecretsTyped, JobTyped, Application
  <2>2. JobTyped'
    BY <1>2, <2>1, Zenon DEF resolveValues, JobTyped, PCs
  <2> QED  BY <1>2, <1>b, <2>2 DEF resolveValues, appVars, AppsTyped
<1>3. CASE Apply
  <2>1. JobTyped'
    BY <1>3 DEF Apply, Goto, JobTyped, PCs
  <2> QED  BY <1>3, <1>b, <2>1 DEF Apply, Event, appVars, AppsTyped
<1>4. CASE Record
  <2>1. [local EXCEPT !.obs = local.gen, !.hash = hash, !.phase = "Applied"] \in Application
    BY DEF JobTyped, Application
  <2>2. AppsTyped' /\ JobTyped' /\ queue' \in SUBSET Apps /\ events' \in Nat
    BY <1>4, <1>a, <2>1, StatusTyped DEF Record
  <2> QED  BY <1>4, <1>b, <2>2 DEF Record
<1>5. CASE reconcileHealth
  <2>1. [local EXCEPT !.phase = "Applied"] \in Application
    BY DEF JobTyped, Application
  <2>2. current \in Apps
    BY <1>5, <1>a DEF reconcileHealth
  <2>3. AppsTyped' /\ JobTyped' /\ queue' \in SUBSET Apps /\ events' \in Nat
    <3>1. CASE WriteStatus([local EXCEPT !.phase = "Applied"], Done)
      BY <2>1, <2>2, <3>1, StatusTyped
    <3>2. CASE Done /\ UNCHANGED <<appVars, events>>
      BY <2>2, <3>2, GoneTyped, WriteTyped
    <3>3. CASE Event /\ Retry /\ UNCHANGED appVars
      BY <2>2, <3>3, GoneTyped, WriteTyped DEF FailOn
    <3> QED  BY <1>5, <3>1, <3>2, <3>3 DEF reconcileHealth
  <2> QED  BY <1>5, <1>b, <2>3 DEF reconcileHealth
<1>6. CASE fail
  <2>1. [local EXCEPT !.phase = "Failed"] \in Application
    BY DEF JobTyped, Application
  <2>2. AppsTyped' /\ JobTyped' /\ queue' \in SUBSET Apps /\ events' \in Nat
    BY <1>6, <1>a, <2>1, StatusTyped DEF fail
  <2> QED  BY <1>6, <1>b, <2>2 DEF fail
<1>7. CASE reconcileDelete
  <2>1. current \in Apps
    BY <1>7, <1>a DEF reconcileDelete
  <2>2. AppsTyped' /\ JobTyped' /\ queue' \in SUBSET Apps /\ events' \in Nat
    <3>1. CASE Event /\ Retry /\ UNCHANGED appVars
      BY <2>1, <3>1, GoneTyped, WriteTyped DEF FailOn
    <3>2. CASE \/ StoreApp(current, Gone) /\ Done /\ UNCHANGED events
               \/ FailOn(Gone)
               \/ Refuse
      BY <2>1, <3>2, GoneTyped, WriteTyped
    <3> QED  BY <1>7, <3>1, <3>2 DEF reconcileDelete
  <2> QED  BY <1>7, <1>b, <2>2 DEF reconcileDelete
<1>8. CASE refreshActiveGauge
  <2>1. Counted(appCache) \in [Targets -> Nat]
    <3>1. ASSUME NEW n \in Targets
          PROVE  Cardinality({a \in Apps : Live(appCache[a]) /\ appCache[a].spec.namespace = n}) \in Nat
      BY WiringAssumption, FS_Subset, FS_CardinalityType
    <3> QED  BY <3>1 DEF Counted
  <2>2. JobTyped'
    BY <1>8 DEF refreshActiveGauge, JobTyped, PCs
  <2> QED  BY <1>8, <1>b, <2>1, <2>2 DEF refreshActiveGauge, appVars, AppsTyped
<1> QED  BY <1>1, <1>2, <1>3, <1>4, <1>5, <1>6, <1>7, <1>8 DEF Worker

LEMMA ReconcileTyped == ASSUME TypeOK, NEW a \in Apps, Reconcile(a) PROVE TypeOK'
<1>1. pc' \in {"refresh", "finalize", "addFinalizer", "resolve"}
  BY DEF Reconcile
<1>2. JobTyped'
  <2>1. CASE pc' = "refresh"
    BY <2>1 DEF Reconcile, JobTyped, PCs, TypeOK
  <2>2. CASE pc' # "refresh"
    BY <1>1, <2>2, WiringAssumption DEF Reconcile, JobTyped, PCs, TypeOK, AppsTyped
  <2> QED  BY <2>1, <2>2
<1> QED  BY <1>2 DEF Reconcile, TypeOK, AppsTyped, SecretsTyped, appVars, secretVars

LEMMA DeliveryTyped ==
    ASSUME TypeOK,
           \/ \E a \in Apps : DeliverApplication(a) \/ Poll(a)
           \/ \E s \in SecretKeys : DeliverSecret(s)
    PROVE  TypeOK'
<1> USE DEF TypeOK
<1>a. ASSUME UNCHANGED jobVars PROVE JobTyped'
  BY <1>a DEF jobVars, JobTyped
<1>1. ASSUME NEW a \in Apps, DeliverApplication(a) PROVE TypeOK'
  <2>1. Head(appLag[a]) \in Application /\ Tail(appLag[a]) \in Seq(Application)
    BY <1>1 DEF DeliverApplication, AppsTyped
  <2>2. AppsTyped'
    BY <1>1, <2>1 DEF DeliverApplication, AppsTyped
  <2> QED  BY <1>1, <1>a, <2>2 DEF DeliverApplication, secretVars, SecretsTyped
<1>2. ASSUME NEW a \in Apps, Poll(a) PROVE TypeOK'
  BY <1>2, <1>a DEF Poll, appVars, secretVars, AppsTyped, SecretsTyped
<1>3. ASSUME NEW s \in SecretKeys, DeliverSecret(s) PROVE TypeOK'
  <2>1. /\ Head(secretLag[s]) \in Contents \cup {Broken}
        /\ Tail(secretLag[s]) \in Seq(Contents \cup {Broken})
    BY <1>3 DEF DeliverSecret, SecretsTyped
  <2>2. SecretsTyped'
    BY <1>3, <2>1 DEF DeliverSecret, SecretsTyped
  <2>3. applicationsForSecret(s) \subseteq Apps
    BY DEF applicationsForSecret
  <2> QED  BY <1>3, <1>a, <2>2, <2>3 DEF DeliverSecret, appVars, AppsTyped
<1> QED  BY <1>1, <1>2, <1>3

LEMMA UserWriteTyped ==
    ASSUME TypeOK, NEW a \in Apps, NEW obj \in Application, UserWrite(a, obj)
    PROVE  TypeOK'
<1>1. AppsTyped'
  BY StoreAppTyped DEF UserWrite, TypeOK
<1>2. SecretsTyped'
  BY DEF UserWrite, secretVars, SecretsTyped, TypeOK
<1>3. JobTyped'
  BY DEF UserWrite, JobTyped, TypeOK
<1> QED  BY <1>1, <1>2, <1>3 DEF UserWrite, Event, TypeOK

(* What users write is an object the schema accepts.                       *)
LEMMA UsersWriteObjects ==
    ASSUME TypeOK, NEW a \in Apps, Users(a)
    PROVE  \E obj \in Application : UserWrite(a, obj)
<1>a. apps[a] \in Application
  BY DEF TypeOK, AppsTyped
<1>c. apps[a].gen + 1 \in Nat
  <2>1. apps[a].gen \in Nat
    BY <1>a DEF Application
  <2> QED  BY <2>1
<1>b. ASSUME NEW spec \in Specs, SchemaAccepts(spec) PROVE spec \in StoredSpec
  BY <1>b, WiringAssumption DEF StoredSpec
<1>1. CASE CreateApplication(a)
  <2>1. PICK spec \in Specs :
          /\ AdmitsCreate(spec)
          /\ UserWrite(a, [Gone EXCEPT !.exists = TRUE, !.gen = 1, !.spec = spec])
    BY <1>1 DEF CreateApplication
  <2>2. [Gone EXCEPT !.exists = TRUE, !.gen = 1, !.spec = spec] \in Application
    BY <1>b, <2>1, GoneTyped DEF AdmitsCreate, Application
  <2> QED  BY <2>1, <2>2
<1>2. CASE EditSpec(a)
  <2>1. PICK spec \in Specs :
          AdmitsUpdate(spec) /\ UserWrite(a, [apps[a] EXCEPT !.gen = @ + 1, !.spec = spec])
    BY <1>2 DEF EditSpec
  <2>2. [apps[a] EXCEPT !.gen = @ + 1, !.spec = spec] \in Application
    BY <1>a, <1>b, <1>c, <2>1, Zenon DEF AdmitsUpdate, Application
  <2> QED  BY <2>1, <2>2
<1>3. CASE DeleteApplication(a)
  <2>1. [apps[a] EXCEPT !.deleting = TRUE, !.gen = @ + 1] \in Application
    BY <1>a, <1>c, Zenon DEF Application
  <2> QED  BY <1>3, <2>1, GoneTyped DEF DeleteApplication
<1> QED  BY <1>1, <1>2, <1>3 DEF Users

LEMMA ProcessTyped ==
    ASSUME TypeOK,
           \/ StartServing \/ InstallWebhook \/ Crash
           \/ \E s \in SecretKeys : EditSecret(s)
    PROVE  TypeOK'
<1> USE DEF TypeOK
<1>1. CASE StartServing \/ InstallWebhook
  BY <1>1 DEF StartServing, InstallWebhook, appVars, secretVars, jobVars,
              AppsTyped, SecretsTyped, JobTyped
<1>2. CASE Crash
  <2>1. AppsTyped' /\ SecretsTyped'
    BY <1>2 DEF Crash, AppsTyped, SecretsTyped
  <2>2. JobTyped'
    BY <1>2, GoneTyped DEF Crash, JobTyped, PCs, Hashes
  <2>3. interrupted' \in SUBSET (Apps \X Targets)
    <3>1. CASE UNCHANGED interrupted
      BY <3>1
    <3>2. CASE pc \in {"apply", "health"} /\ interrupted' = interrupted \cup {Release}
      <4>1. current \in Apps
        BY <3>2 DEF JobTyped
      <4>2. local.spec.namespace \in Targets
        BY DEF JobTyped, Application, StoredSpec, ApplicationSpec, SchemaAccepts
      <4> QED  BY <3>2, <4>1, <4>2 DEF Release
    <3> QED  BY <1>2, <3>1, <3>2 DEF Crash, Interrupt
  <2> QED  BY <1>2, <2>1, <2>2, <2>3 DEF Crash, Event, InitialRequests
<1>3. ASSUME NEW s \in SecretKeys, EditSecret(s) PROVE TypeOK'
  <2>1. PICK c \in Contents \cup {Broken} :
          /\ secrets' = [secrets EXCEPT ![s] = c]
          /\ secretLag' = [secretLag EXCEPT ![s] = Append(@, c)]
    BY <1>3 DEF EditSecret
  <2>2. Append(secretLag[s], c) \in Seq(Contents \cup {Broken})
    BY DEF SecretsTyped
  <2>3. SecretsTyped'
    BY <1>3, <2>1, <2>2 DEF EditSecret, SecretsTyped
  <2> QED  BY <1>3, <2>3 DEF EditSecret, Event, appVars, jobVars, AppsTyped, JobTyped
<1> QED  BY <1>1, <1>2, <1>3

LEMMA StepTyped == ASSUME TypeOK, [Next]_vars PROVE TypeOK'
<1>1. CASE Worker
  BY <1>1, WorkerTyped
<1>2. ASSUME NEW a \in Apps, Reconcile(a) PROVE TypeOK'
  BY <1>2, ReconcileTyped
<1>3. ASSUME NEW a \in Apps, Users(a) PROVE TypeOK'
  BY <1>3, UsersWriteObjects, UserWriteTyped
<1>4. CASE UNCHANGED vars
  BY <1>4 DEF vars, TypeOK, AppsTyped, SecretsTyped, JobTyped
<1> QED  BY <1>1, <1>2, <1>3, <1>4, DeliveryTyped, ProcessTyped DEF Next

(* Every variable of the wiring keeps its type, whatever the Applications, *)
(* the specs and the Secrets are.                                          *)
THEOREM WiringTypeIsKept == Spec => []TypeOK
BY InitTyped, StepTyped, PTL DEF Spec

----------------------------------------------------------------------------
(* What the webhook keeps out.                                             *)

(* AllValid without the copy a reconcile works on.                         *)
AppsValid ==
    \A a \in Apps :
      /\ ValidObject(apps[a]) /\ ValidObject(appCache[a])
      /\ \A i \in DOMAIN appLag[a] : ValidObject(appLag[a][i])

LEMMA StoreAppValid ==
    ASSUME AppsTyped, AppsValid, NEW a \in Apps, NEW obj \in Application,
           ValidObject(obj), StoreApp(a, obj)
    PROVE  AppsValid'
<1> SUFFICES ASSUME NEW b \in Apps
             PROVE  /\ ValidObject(apps'[b]) /\ ValidObject(appCache'[b])
                    /\ \A i \in DOMAIN appLag'[b] : ValidObject(appLag'[b][i])
  BY DEF AppsValid, ValidObject
<1>1. appCache'[b] = appCache[b] /\ (apps'[b] = apps[b] \/ apps'[b] = obj)
  BY DEF StoreApp, AppsTyped
<1>2. CASE b = a
  <2>1. appLag'[b] = Append(appLag[b], obj) /\ appLag[b] \in Seq(Application)
    BY <1>2 DEF StoreApp, AppsTyped
  <2>2. ASSUME NEW i \in DOMAIN appLag'[b]
        PROVE  appLag'[b][i] = obj \/ (i \in DOMAIN appLag[b] /\ appLag'[b][i] = appLag[b][i])
    BY <2>1
  <2> QED  BY <1>1, <2>2 DEF AppsValid
<1>3. CASE b # a
  BY <1>1, <1>3 DEF StoreApp, AppsTyped, AppsValid
<1> QED  BY <1>2, <1>3

LEMMA SameAppsValid == ASSUME AppsValid, UNCHANGED appVars PROVE AppsValid'
BY DEF AppsValid, appVars, ValidObject

LEMMA GoneValid == ValidObject(Gone)
BY DEF ValidObject, Gone

(* A reconcile that ends, whether its write is stored or not.              *)
LEMMA WriteValid ==
    ASSUME TypeOK, AllValid, current \in Apps, NEW obj \in Application, ValidObject(obj),
           \/ StoreApp(current, obj) /\ (Done \/ Retry)
           \/ (Done \/ Retry) /\ UNCHANGED appVars
           \/ FailOn(obj)
           \/ Refuse
    PROVE  AllValid'
<1>1. AppsValid
  BY DEF AllValid, AppsValid
<1>2. StoreApp(current, obj) \/ UNCHANGED appVars
  BY DEF FailOn, Refuse
<1>3. AppsValid'
  BY <1>1, <1>2, StoreAppValid, SameAppsValid DEF TypeOK
<1>4. local' = Gone
  BY DEF FailOn, Refuse, Done, Retry, Leave
<1> QED  BY <1>3, <1>4, GoneValid DEF AllValid, AppsValid

LEMMA StatusValid ==
    ASSUME TypeOK, AllValid, current \in Apps, NEW obj \in Application,
           obj.exists = local.exists, obj.spec = local.spec,
           WriteStatus(obj, Done) \/ WriteStatus(obj, Retry)
    PROVE  AllValid'
<1>1. ValidObject(obj)
  BY DEF AllValid, ValidObject
<1> QED  BY <1>1, WriteValid DEF WriteStatus

LEMMA WorkerValid == ASSUME TypeOK, AllValid, Worker PROVE AllValid'
<1> USE DEF TypeOK
<1>a. ASSUME pc \notin {"idle", "refresh"} PROVE current \in Apps
  BY <1>a DEF JobTyped
<1>b. ASSUME UNCHANGED <<appVars, local>> PROVE AllValid'
  BY <1>b DEF AllValid, ValidObject, appVars
<1>1. CASE AddFinalizer
  <2> DEFINE obj == [local EXCEPT !.finalizer = TRUE]
  <2>1. obj \in Application /\ obj.exists = local.exists /\ obj.spec = local.spec
    BY DEF JobTyped, Application
  <2>2. ValidObject(obj)
    BY <2>1 DEF AllValid, ValidObject
  <2> QED  BY <1>1, <1>a, <2>1, <2>2, WriteValid DEF AddFinalizer
<1>2. CASE resolveValues \/ Apply \/ refreshActiveGauge
  BY <1>2, <1>b DEF resolveValues, Apply, Goto, refreshActiveGauge
<1>3. CASE Record
  <2> DEFINE obj == [local EXCEPT !.obs = local.gen, !.hash = hash, !.phase = "Applied"]
  <2>1. obj \in Application /\ obj.exists = local.exists /\ obj.spec = local.spec
    BY DEF JobTyped, Application
  <2> QED  BY <1>3, <1>a, <2>1, StatusValid DEF Record
<1>4. CASE reconcileHealth
  <2> DEFINE obj == [local EXCEPT !.phase = "Applied"]
  <2>1. obj \in Application /\ obj.exists = local.exists /\ obj.spec = local.spec
    BY DEF JobTyped, Application
  <2>2. current \in Apps
    BY <1>4, <1>a DEF reconcileHealth
  <2>3. CASE WriteStatus(obj, Done)
    BY <2>1, <2>2, <2>3, StatusValid
  <2>4. CASE (Done \/ Retry) /\ UNCHANGED appVars
    BY <2>2, <2>4, GoneTyped, GoneValid, WriteValid
  <2> QED  BY <1>4, <2>3, <2>4 DEF reconcileHealth
<1>5. CASE fail
  <2> DEFINE obj == [local EXCEPT !.phase = "Failed"]
  <2>1. obj \in Application /\ obj.exists = local.exists /\ obj.spec = local.spec
    BY DEF JobTyped, Application
  <2> QED  BY <1>5, <1>a, <2>1, StatusValid DEF fail
<1>6. CASE reconcileDelete
  BY <1>6, <1>a, GoneTyped, GoneValid, WriteValid DEF reconcileDelete
<1> QED  BY <1>1, <1>2, <1>3, <1>4, <1>5, <1>6 DEF Worker

(* With the webhook in force, what a user writes is valid.                 *)
LEMMA UserValid ==
    ASSUME TypeOK, AllValid, webhook # "absent", NEW a \in Apps, Users(a)
    PROVE  AllValid'
<1>1. \E obj \in Application : UserWrite(a, obj) /\ ValidObject(obj)
  <2>a. apps[a] \in Application /\ ValidObject(apps[a])
    BY DEF TypeOK, AppsTyped, AllValid
  <2>b. ASSUME NEW spec, AdmitsCreate(spec) \/ AdmitsUpdate(spec)
        PROVE  validateApplication(spec) = {}
    BY <2>b DEF AdmitsCreate, AdmitsUpdate, ValidateCreate, ValidateUpdate, TypeOK
  <2>1. CASE CreateApplication(a)
    <3>1. PICK spec \in Specs :
            /\ AdmitsCreate(spec)
            /\ UserWrite(a, [Gone EXCEPT !.exists = TRUE, !.gen = 1, !.spec = spec])
      BY <2>1 DEF CreateApplication
    <3> DEFINE obj == [Gone EXCEPT !.exists = TRUE, !.gen = 1, !.spec = spec]
    <3>2. spec \in StoredSpec
      BY <3>1, WiringAssumption DEF AdmitsCreate, StoredSpec
    <3>3. obj \in Application /\ obj.spec = spec
      BY <3>2, GoneTyped DEF Application
    <3> QED  BY <2>b, <3>1, <3>3 DEF ValidObject
  <2>2. CASE EditSpec(a)
    <3>1. PICK spec \in Specs :
            AdmitsUpdate(spec) /\ UserWrite(a, [apps[a] EXCEPT !.gen = @ + 1, !.spec = spec])
      BY <2>2 DEF EditSpec
    <3> DEFINE obj == [apps[a] EXCEPT !.gen = @ + 1, !.spec = spec]
    <3>2. spec \in StoredSpec
      BY <3>1, WiringAssumption DEF AdmitsUpdate, StoredSpec
    <3>3. apps[a].gen \in Nat
      BY <2>a DEF Application
    <3>4. apps[a].gen + 1 \in Nat
      BY <3>3
    <3>5. obj \in Application /\ obj.spec = spec
      BY <2>a, <3>2, <3>4, Zenon DEF Application
    <3> QED  BY <2>b, <3>1, <3>5 DEF ValidObject
  <2>3. CASE DeleteApplication(a)
    <3> DEFINE obj == [apps[a] EXCEPT !.deleting = TRUE, !.gen = @ + 1]
    <3>1. apps[a].gen \in Nat
      BY <2>a DEF Application
    <3>2. apps[a].gen + 1 \in Nat
      BY <3>1
    <3>3. obj \in Application
      BY <2>a, <3>2, Zenon DEF Application
    <3>4. obj.exists = apps[a].exists /\ obj.spec = apps[a].spec
      BY <2>a DEF Application
    <3>5. ValidObject(obj)
      BY <2>a, <3>4 DEF ValidObject
    <3> QED  BY <2>3, <3>3, <3>5, GoneTyped, GoneValid DEF DeleteApplication
  <2> QED  BY <2>1, <2>2, <2>3 DEF Users
<1>2. PICK obj \in Application : UserWrite(a, obj) /\ ValidObject(obj)
  BY <1>1
<1>3. AppsValid'
  BY <1>2, StoreAppValid DEF UserWrite, AllValid, AppsValid, TypeOK
<1> QED  BY <1>2, <1>3 DEF UserWrite, AllValid, AppsValid, ValidObject

LEMMA StepValid ==
    ASSUME TypeOK, webhook # "absent", AllValid, [Next]_vars
    PROVE  AllValid'
<1>a. ASSUME UNCHANGED <<appVars, local>> PROVE AllValid'
  BY <1>a DEF AllValid, ValidObject, appVars
<1>1. CASE Worker
  BY <1>1, WorkerValid
<1>2. ASSUME NEW a \in Apps, Reconcile(a) PROVE AllValid'
  <2>1. UNCHANGED appVars /\ (local' = local \/ local' = appCache[a])
    BY <1>2 DEF Reconcile
  <2>2. ValidObject(local')
    BY <2>1, Zenon DEF AllValid
  <2>3. AppsValid'
    BY <2>1, SameAppsValid DEF AllValid, AppsValid
  <2> QED  BY <2>2, <2>3 DEF AllValid, AppsValid
<1>3. ASSUME NEW a \in Apps, DeliverApplication(a) PROVE AllValid'
  <2>1. appLag[a] \in Seq(Application) /\ appLag[a] # <<>>
    BY <1>3 DEF DeliverApplication, TypeOK, AppsTyped
  <2>2. ValidObject(Head(appLag[a]))
    BY <2>1 DEF AllValid
  <2>3. ASSUME NEW i \in DOMAIN Tail(appLag[a])
        PROVE  i + 1 \in DOMAIN appLag[a] /\ Tail(appLag[a])[i] = appLag[a][i + 1]
    BY <2>1
  <2>4. \A i \in DOMAIN Tail(appLag[a]) : ValidObject(Tail(appLag[a])[i])
    BY <2>3 DEF AllValid
  <2>5. ASSUME NEW b \in Apps
        PROVE  /\ ValidObject(apps'[b]) /\ ValidObject(appCache'[b])
               /\ \A i \in DOMAIN appLag'[b] : ValidObject(appLag'[b][i])
    BY <1>3, <2>2, <2>4 DEF DeliverApplication, AllValid, TypeOK, AppsTyped
  <2> QED  BY <1>3, <2>5 DEF DeliverApplication, jobVars, AllValid, ValidObject
<1>4. ASSUME NEW a \in Apps, Poll(a) PROVE AllValid'
  BY <1>4, <1>a DEF Poll, jobVars
<1>5. ASSUME NEW a \in Apps, Users(a) PROVE AllValid'
  BY <1>5, UserValid
<1>6. ASSUME NEW s \in SecretKeys, DeliverSecret(s) \/ EditSecret(s) PROVE AllValid'
  BY <1>6, <1>a DEF DeliverSecret, EditSecret, jobVars
<1>7. CASE StartServing \/ InstallWebhook
  BY <1>7, <1>a DEF StartServing, InstallWebhook, jobVars
<1>8. CASE Crash
  <2>1. apps' = apps /\ appCache' = apps /\ local' = Gone
    BY <1>8 DEF Crash
  <2>2. \A a \in Apps : DOMAIN appLag'[a] = {}
    BY <1>8 DEF Crash
  <2> QED  BY <2>1, <2>2, GoneValid DEF AllValid
<1>9. CASE UNCHANGED vars
  BY <1>9, <1>a DEF vars, appVars
<1> QED  BY <1>1, <1>2, <1>3, <1>4, <1>5, <1>6, <1>7, <1>8, <1>9 DEF Next

(* From the moment the webhook is in force and nothing invalid is left,    *)
(* nothing invalid is stored, cached, or worked on (application_webhook.go, *)
(* the comment on ApplicationCustomValidator), for all Applications and     *)
(* specs.                                                                  *)
THEOREM AdmissionIsKept == Spec => AdmissionHolds
<1>1. TypeOK /\ [Next]_vars => [webhook # "absent" /\ AllValid => AllValid']_vars
  BY StepValid
<1> QED  BY <1>1, WiringTypeIsKept, PTL DEF Spec, AdmissionHolds
=============================================================================
