---------------------------- MODULE WakeupProofs ----------------------------
(***************************************************************************)
(* The proof that no change of an Application or of its values waits for a *)
(* poll, however late the two caches are and whatever fails, and that the  *)
(* gauge therefore catches up.                                             *)
(***************************************************************************)
EXTENDS WiringProofs

(* A cache that nothing is on its way to shows what is stored; what is on  *)
(* its way ends with what is stored.                                       *)
CachesCatchUp ==
    /\ \A a \in Apps : IF appLag[a] = <<>> THEN appCache[a] = apps[a]
                       ELSE appLag[a][Len(appLag[a])] = apps[a]
    /\ \A k \in SecretKeys : IF secretLag[k] = <<>> THEN secretCache[k] = secrets[k]
                             ELSE secretLag[k][Len(secretLag[k])] = secrets[k]

(* Where the picture a reconcile works on differs from what is stored or   *)
(* cached by now, another reconcile of the Application is due, or will be. *)
JobKnows ==
    current \in Apps =>
      /\ fresh => local = apps[current] /\ appLag[current] = <<>>
      /\ ~fresh => current \in queue \/ appLag[current] # <<>>
      /\ appCache[current] # local => current \in queue
      /\ pc \in {"resolve", "apply", "record", "health"} => Live(local) /\ local.finalizer
      /\ pc \in {"apply", "record", "health"} =>
           hash = HashIn(secretCache, current, local.spec) \/ current \in queue
      /\ pc = "health" => ~needsApply(local, hash)

Served(a) == Live(apps[a]) => apps[a].finalizer /\ Applied(a)

(* What will have an Application reconciled.                               *)
Waiting(a) ==
    \/ a \in queue
    \/ appLag[a] # <<>>
    \/ apps[a].spec.ref # NoRef /\ secretLag[<<Home[a], apps[a].spec.ref>>] # <<>>

NobodyForgotten == \A a \in Apps : Served(a) \/ Waiting(a) \/ current = a

WiringInv == CachesCatchUp /\ JobKnows /\ NobodyForgotten

----------------------------------------------------------------------------
LEMMA InitInv == Init => WiringInv
<1> SUFFICES ASSUME Init PROVE WiringInv
  OBVIOUS
<1>1. CachesCatchUp
  BY DEF Init, CachesCatchUp
<1>2. JobKnows
  BY WiringAssumption DEF Init, JobKnows
<1>3. ASSUME NEW a \in Apps PROVE Served(a) \/ a \in queue
  BY DEF Init, InitialRequests, Served, Live
<1> QED  BY <1>1, <1>2, <1>3 DEF WiringInv, NobodyForgotten, Waiting

(* The values of an Application are found where its Secret is stored.      *)
LEMMA KeyTyped ==
    ASSUME TypeOK, NEW a \in Apps, apps[a].spec.ref # NoRef
    PROVE  <<Home[a], apps[a].spec.ref>> \in SecretKeys
<1>1. apps[a].spec \in StoredSpec
  BY DEF TypeOK, AppsTyped, Application
<1> QED  BY <1>1 DEF StoredSpec, ApplicationSpec, SchemaAccepts, SecretKeys

(* A write of an Application leaves its last version at the end.           *)
LEMMA StoreAppCatchesUp ==
    ASSUME TypeOK, CachesCatchUp, NEW a \in Apps, NEW obj \in Application,
           StoreApp(a, obj), UNCHANGED secretVars
    PROVE  CachesCatchUp' /\ appLag'[a] # <<>>
<1>1. appLag[a] \in Seq(Application)
  BY DEF TypeOK, AppsTyped
<1>2. appLag'[a] = Append(appLag[a], obj) /\ apps'[a] = obj
  BY DEF StoreApp, TypeOK, AppsTyped
<1>3. appLag'[a] # <<>> /\ appLag'[a][Len(appLag'[a])] = apps'[a]
  BY <1>1, <1>2
<1>4. ASSUME NEW b \in Apps, b # a
      PROVE  appLag'[b] = appLag[b] /\ apps'[b] = apps[b] /\ appCache'[b] = appCache[b]
  BY <1>4 DEF StoreApp, TypeOK, AppsTyped
<1>5. \A b \in Apps : IF appLag'[b] = <<>> THEN appCache'[b] = apps'[b]
                      ELSE appLag'[b][Len(appLag'[b])] = apps'[b]
  BY <1>3, <1>4 DEF CachesCatchUp
<1> QED  BY <1>3, <1>5 DEF CachesCatchUp, secretVars

(* An Application nothing was done about is served or waits as before.     *)
LEMMA OthersKeep ==
    ASSUME NEW a \in Apps, Served(a) \/ Waiting(a), queue \subseteq queue',
           apps'[a] = apps[a], appLag'[a] = appLag[a], UNCHANGED secretVars
    PROVE  Served(a)' \/ Waiting(a)'
BY DEF Served, Waiting, Applied, HashIn, secretVars

(* The end of a reconcile: its request goes back to the queue, or a write  *)
(* is on its way, or there was nothing left to do.                         *)
LEMMA EndKeepsInv ==
    ASSUME TypeOK, WiringInv, current \in Apps, NEW obj \in Application,
           UNCHANGED secretVars,
           \/ StoreApp(current, obj) /\ (Done \/ Retry)
           \/ UNCHANGED appVars /\ Retry
           \/ UNCHANGED appVars /\ Done /\ (Served(current) \/ Waiting(current))
    PROVE  WiringInv'
<1>1. current' = None /\ None \notin Apps /\ queue \subseteq queue'
  BY WiringAssumption DEF Done, Retry, Leave
<1>2. JobKnows'
  BY <1>1 DEF JobKnows
<1>3. CachesCatchUp'
  <2>1. CASE StoreApp(current, obj)
    BY <2>1, StoreAppCatchesUp DEF WiringInv
  <2>2. CASE UNCHANGED appVars
    BY <2>2 DEF WiringInv, CachesCatchUp, appVars, secretVars
  <2> QED  BY <2>1, <2>2
<1>4. ASSUME NEW a \in Apps PROVE Served(a)' \/ Waiting(a)'
  <2>1. CASE a # current
    <3>1. apps'[a] = apps[a] /\ appLag'[a] = appLag[a]
      BY <2>1 DEF StoreApp, appVars, TypeOK, AppsTyped
    <3> QED  BY <1>1, <2>1, <3>1, OthersKeep DEF WiringInv, NobodyForgotten
  <2>2. CASE a = current /\ StoreApp(current, obj)
    BY <2>2, StoreAppCatchesUp DEF WiringInv, Waiting
  <2>3. CASE a = current /\ Retry
    BY <2>3 DEF Retry, Waiting
  <2>4. CASE a = current /\ UNCHANGED appVars /\ (Served(current) \/ Waiting(current))
    BY <1>1, <2>4, OthersKeep DEF appVars
  <2> QED  BY <2>1, <2>2, <2>3, <2>4
<1> QED  BY <1>2, <1>3, <1>4 DEF WiringInv, NobodyForgotten

(* A reconcile that finds nothing to write is right about it, or another   *)
(* one is due.                                                             *)
LEMMA NothingLeftToDo ==
    ASSUME TypeOK, WiringInv, current \in Apps, pc \in {"record", "health"},
           ~needsApply(local, hash)
    PROVE  Served(current) \/ Waiting(current)
<1> SUFFICES ASSUME ~Waiting(current) PROVE Served(current)
  OBVIOUS
<1> DEFINE key == <<Home[current], apps[current].spec.ref>>
<1>1. current \notin queue /\ appLag[current] = <<>>
  BY DEF Waiting
<1>2. local = apps[current] /\ local.finalizer
  BY <1>1 DEF WiringInv, JobKnows, TypeOK, JobTyped
<1>3. hash = HashIn(secretCache, current, apps[current].spec)
  BY <1>1, <1>2 DEF WiringInv, JobKnows
<1>4. ASSUME apps[current].spec.ref # NoRef PROVE secretCache[key] = secrets[key]
  BY <1>4, KeyTyped DEF Waiting, WiringInv, CachesCatchUp
<1>5. hash = HashIn(secrets, current, apps[current].spec)
  BY <1>3, <1>4 DEF HashIn
<1> QED  BY <1>2, <1>5 DEF Served, Applied, needsApply

LEMMA StatusKeepsInv ==
    ASSUME TypeOK, WiringInv, current \in Apps, NEW obj \in Application,
           UNCHANGED secretVars,
           \/ WriteStatus(obj, Retry)
           \/ WriteStatus(obj, Done) /\ (obj = local => Served(current) \/ Waiting(current))
    PROVE  WiringInv'
<1>1. CASE StoreApp(current, obj) /\ (Done \/ Retry)
  BY <1>1, EndKeepsInv
<1>2. CASE UNCHANGED appVars /\ Retry
  BY <1>2, EndKeepsInv
<1>3. CASE UNCHANGED appVars /\ Done /\ (Served(current) \/ Waiting(current))
  BY <1>3, EndKeepsInv
<1>4. CASE FailOn(obj)
  BY <1>4, EndKeepsInv DEF FailOn
<1>5. CASE Refuse
  BY <1>5, EndKeepsInv DEF Refuse
<1> QED  BY <1>1, <1>2, <1>3, <1>4, <1>5 DEF WriteStatus

(* Steps in the middle of a reconcile change nothing the others rely on.   *)
LEMMA MiddleKeepsInv ==
    ASSUME WiringInv, current \in Apps,
           UNCHANGED <<appVars, secretVars, queue, current>>, JobKnows'
    PROVE  WiringInv'
<1>1. CachesCatchUp'
  BY DEF WiringInv, CachesCatchUp, appVars, secretVars
<1>2. NobodyForgotten'
  BY DEF WiringInv, NobodyForgotten, Served, Waiting, Applied, HashIn, appVars, secretVars
<1> QED  BY <1>1, <1>2 DEF WiringInv

LEMMA WorkerKeepsInv == ASSUME TypeOK, WiringInv, Worker PROVE WiringInv'
<1>a. ASSUME pc \notin {"idle", "refresh"} PROVE current \in Apps
  BY <1>a DEF TypeOK, JobTyped
<1>b. local \in Application
  BY DEF TypeOK, JobTyped
<1>1. CASE AddFinalizer
  <2> DEFINE obj == [local EXCEPT !.finalizer = TRUE]
  <2>1. obj \in Application
    BY <1>b DEF Application
  <2>2. \/ StoreApp(current, obj) /\ (Done \/ Retry)
        \/ UNCHANGED appVars /\ Retry
    BY <1>1 DEF AddFinalizer, FailOn, Refuse
  <2> QED  BY <1>1, <1>a, <2>1, <2>2, EndKeepsInv DEF AddFinalizer
<1>2. CASE resolveValues
  <2>1. current \in Apps
    BY <1>2, <1>a DEF resolveValues
  <2>2. JobKnows'
    BY <1>2, <2>1 DEF resolveValues, WiringInv, JobKnows, appVars, secretVars
  <2> QED  BY <1>2, <2>1, <2>2, MiddleKeepsInv DEF resolveValues
<1>3. CASE Apply
  <2>1. current \in Apps
    BY <1>3, <1>a DEF Apply
  <2>2. JobKnows'
    BY <1>3, <2>1 DEF Apply, Goto, WiringInv, JobKnows, appVars, secretVars
  <2> QED  BY <1>3, <2>1, <2>2, MiddleKeepsInv DEF Apply, Goto
<1>4. CASE Record
  <2> DEFINE obj == [local EXCEPT !.obs = local.gen, !.hash = hash, !.phase = "Applied"]
  <2>1. obj \in Application /\ obj.obs = local.gen /\ obj.hash = hash
    BY <1>b DEF TypeOK, JobTyped, Application
  <2>2. ASSUME obj = local PROVE ~needsApply(local, hash)
    BY <2>1, <2>2 DEF needsApply
  <2> QED  BY <1>4, <1>a, <2>1, <2>2, NothingLeftToDo, StatusKeepsInv DEF Record
<1>5. CASE reconcileHealth
  <2> DEFINE obj == [local EXCEPT !.phase = "Applied"]
  <2>1. current \in Apps /\ obj \in Application
    BY <1>5, <1>a, <1>b DEF reconcileHealth, Application
  <2>2. Served(current) \/ Waiting(current)
    BY <1>5, <2>1, NothingLeftToDo DEF reconcileHealth, WiringInv, JobKnows
  <2>3. CASE WriteStatus(obj, Done)
    BY <1>5, <2>1, <2>2, <2>3, StatusKeepsInv DEF reconcileHealth
  <2>4. CASE UNCHANGED appVars /\ (Done \/ Retry)
    BY <1>5, <2>1, <2>2, <2>4, EndKeepsInv DEF reconcileHealth
  <2> QED  BY <1>5, <2>3, <2>4 DEF reconcileHealth
<1>6. CASE fail
  <2>1. [local EXCEPT !.phase = "Failed"] \in Application
    BY <1>b DEF Application
  <2> QED  BY <1>6, <1>a, <2>1, StatusKeepsInv DEF fail
<1>7. CASE reconcileDelete
  <2>1. \/ StoreApp(current, Gone) /\ (Done \/ Retry)
        \/ UNCHANGED appVars /\ Retry
    BY <1>7 DEF reconcileDelete, FailOn, Refuse
  <2>2. UNCHANGED secretVars
    BY <1>7 DEF reconcileDelete
  <2> QED  BY <1>7, <1>a, <2>1, <2>2, GoneTyped, EndKeepsInv DEF reconcileDelete
<1>8. CASE refreshActiveGauge
  <2>1. current = None /\ None \notin Apps
    BY <1>8, WiringAssumption DEF refreshActiveGauge, TypeOK, JobTyped
  <2>2. JobKnows'
    BY <1>8, <2>1 DEF refreshActiveGauge, JobKnows
  <2>3. UNCHANGED <<appVars, secretVars, queue, current>>
    BY <1>8 DEF refreshActiveGauge
  <2>4. CachesCatchUp' /\ NobodyForgotten'
    BY <2>3 DEF WiringInv, CachesCatchUp, NobodyForgotten, Served, Waiting, Applied, HashIn,
                appVars, secretVars
  <2> QED  BY <2>2, <2>4 DEF WiringInv
<1> QED  BY <1>1, <1>2, <1>3, <1>4, <1>5, <1>6, <1>7, <1>8 DEF Worker

(* A reconcile starts: what it reads is cached, and it takes the request.  *)
LEMMA ReconcileKeepsInv ==
    ASSUME TypeOK, WiringInv, NEW a \in Apps, Reconcile(a) PROVE WiringInv'
<1>1. UNCHANGED <<appVars, secretVars>> /\ queue' = queue \ {a} /\ pc = "idle"
  BY DEF Reconcile
<1>2. current = None /\ None \notin Apps
  BY <1>1, WiringAssumption DEF TypeOK, JobTyped
<1>3. CachesCatchUp'
  BY <1>1 DEF WiringInv, CachesCatchUp, appVars, secretVars
<1>4. ASSUME NEW b \in Apps, b # a PROVE Served(b)' \/ Waiting(b)'
  BY <1>1, <1>2, <1>4 DEF WiringInv, NobodyForgotten, Served, Waiting, Applied, HashIn,
                          appVars, secretVars
<1>5. CASE pc' = "refresh"
  <2>1. current' = None /\ ~Live(appCache[a])
    BY <1>2, <1>5 DEF Reconcile
  <2>2. Served(a) \/ appLag[a] # <<>>
    BY <2>1 DEF WiringInv, CachesCatchUp, Served
  <2>3. Served(a)' \/ Waiting(a)'
    BY <1>1, <2>2 DEF Served, Waiting, Applied, HashIn, appVars, secretVars
  <2>4. JobKnows'
    BY <1>2, <2>1 DEF JobKnows
  <2> QED  BY <1>3, <1>4, <2>3, <2>4 DEF WiringInv, NobodyForgotten
<1>6. CASE pc' # "refresh"
  <2>1. /\ current' = a /\ local' = appCache[a] /\ fresh' = (appLag[a] = <<>>)
        /\ pc' \in {"finalize", "addFinalizer", "resolve"}
        /\ pc' = "resolve" => Live(appCache[a]) /\ appCache[a].finalizer
    BY <1>6 DEF Reconcile
  <2>2. fresh' => local' = apps'[a] /\ appLag'[a] = <<>>
    BY <1>1, <2>1 DEF WiringInv, CachesCatchUp, appVars
  <2>3. ~fresh' => appLag'[a] # <<>>
    BY <1>1, <2>1 DEF appVars
  <2>4. appCache'[a] = local'
    BY <1>1, <2>1 DEF appVars
  <2>5. JobKnows'
    BY <2>1, <2>2, <2>3, <2>4 DEF JobKnows
  <2> QED  BY <1>3, <1>4, <2>1, <2>5 DEF WiringInv, NobodyForgotten
<1> QED  BY <1>5, <1>6

(* What a delivery leaves ends with what was last put on the way.          *)
LEMMA LastDelivered ==
    ASSUME NEW S, NEW q \in Seq(S), q # <<>>
    PROVE  IF Tail(q) = <<>> THEN Head(q) = q[Len(q)]
           ELSE Tail(q)[Len(Tail(q))] = q[Len(q)]
<1>1. Len(q) \in Nat /\ Len(q) # 0 /\ Len(Tail(q)) = Len(q) - 1 /\ Tail(q) \in Seq(S)
  BY HeadTailProperties, EmptySeq, LenProperties
<1>2. CASE Tail(q) = <<>>
  <2>1. Len(Tail(q)) = 0
    BY <1>2, EmptySeq
  <2>2. \A n \in Nat : 0 = n - 1 => n = 1
    OBVIOUS
  <2>3. Len(q) = 1
    BY <1>1, <2>1, <2>2, Zenon
  <2> QED  BY <1>2, <2>3
<1>3. CASE Tail(q) # <<>>
  <2>1. Len(Tail(q)) # 0
    BY <1>1, <1>3, EmptySeq
  <2>2. Len(Tail(q)) \in 1 .. Len(Tail(q))
    BY <1>1, <2>1
  <2>3. Tail(q)[Len(Tail(q))] = q[Len(Tail(q)) + 1]
    BY <1>1, <2>2
  <2> QED  BY <1>1, <1>3, <2>3
<1> QED  BY <1>2, <1>3

LEMMA DeliverApplicationKeepsInv ==
    ASSUME TypeOK, WiringInv, NEW a \in Apps, DeliverApplication(a) PROVE WiringInv'
<1>1. /\ appLag[a] \in Seq(Application) /\ appLag[a] # <<>>
      /\ appCache' = [appCache EXCEPT ![a] = Head(appLag[a])]
      /\ appLag' = [appLag EXCEPT ![a] = Tail(appLag[a])]
      /\ queue' = queue \cup {a}
      /\ UNCHANGED <<apps, secretVars, jobVars>>
  BY DEF DeliverApplication, EnqueueOnEvent, TypeOK, AppsTyped
<1>2. ASSUME NEW b \in Apps, b # a
      PROVE  appCache'[b] = appCache[b] /\ appLag'[b] = appLag[b]
  BY <1>1, <1>2 DEF TypeOK, AppsTyped
<1>3. appCache'[a] = Head(appLag[a]) /\ appLag'[a] = Tail(appLag[a])
  BY <1>1 DEF TypeOK, AppsTyped
<1>4. IF appLag'[a] = <<>> THEN appCache'[a] = apps'[a]
      ELSE appLag'[a][Len(appLag'[a])] = apps'[a]
  <2>1. appLag[a][Len(appLag[a])] = apps[a]
    BY <1>1 DEF WiringInv, CachesCatchUp
  <2> QED  BY <1>1, <1>3, <2>1, LastDelivered
<1>5. CachesCatchUp'
  BY <1>1, <1>2, <1>4 DEF WiringInv, CachesCatchUp, secretVars
<1>6. JobKnows'
  <2> SUFFICES ASSUME current \in Apps PROVE JobKnows'
    BY <1>1 DEF JobKnows, jobVars
  <2>1. CASE current = a
    BY <1>1, <1>3, <2>1 DEF WiringInv, JobKnows, jobVars, secretVars, TypeOK, JobTyped
  <2>2. CASE current # a
    BY <1>1, <1>2, <2>2 DEF WiringInv, JobKnows, jobVars, secretVars
  <2> QED  BY <2>1, <2>2
<1>7. ASSUME NEW b \in Apps PROVE Served(b)' \/ Waiting(b)' \/ current' = b
  <2>1. CASE b = a
    BY <1>1, <2>1 DEF Waiting
  <2>2. CASE b # a
    BY <1>1, <1>2, <2>2, OthersKeep DEF WiringInv, NobodyForgotten, jobVars
  <2> QED  BY <2>1, <2>2
<1> QED  BY <1>5, <1>6, <1>7 DEF WiringInv, NobodyForgotten

LEMMA PollKeepsInv ==
    ASSUME WiringInv, NEW a \in Apps, Poll(a) PROVE WiringInv'
<1>1. UNCHANGED <<appVars, secretVars, jobVars>> /\ queue' = queue \cup {a}
  BY DEF Poll
<1>2. CachesCatchUp' /\ JobKnows'
  BY <1>1 DEF WiringInv, CachesCatchUp, JobKnows, appVars, secretVars, jobVars
<1>3. NobodyForgotten'
  BY <1>1 DEF WiringInv, NobodyForgotten, Served, Waiting, Applied, HashIn,
              appVars, secretVars, jobVars
<1> QED  BY <1>2, <1>3 DEF WiringInv

(* The event of a Secret reaches every Application whose values it holds.  *)
LEMMA DeliverSecretKeepsInv ==
    ASSUME TypeOK, WiringInv, NEW k \in SecretKeys, DeliverSecret(k) PROVE WiringInv'
<1>1. /\ secretLag[k] \in Seq(Contents \cup {Broken}) /\ secretLag[k] # <<>>
      /\ secretCache' = [secretCache EXCEPT ![k] = Head(secretLag[k])]
      /\ secretLag' = [secretLag EXCEPT ![k] = Tail(secretLag[k])]
      /\ queue' = queue \cup applicationsForSecret(k)
      /\ UNCHANGED <<appVars, secrets, jobVars>>
  BY DEF DeliverSecret, TypeOK, SecretsTyped
<1>2. ASSUME NEW o \in SecretKeys, o # k
      PROVE  secretCache'[o] = secretCache[o] /\ secretLag'[o] = secretLag[o]
  BY <1>1, <1>2 DEF TypeOK, SecretsTyped
<1>3. secretCache'[k] = Head(secretLag[k]) /\ secretLag'[k] = Tail(secretLag[k])
  BY <1>1 DEF TypeOK, SecretsTyped
<1>4. IF secretLag'[k] = <<>> THEN secretCache'[k] = secrets'[k]
      ELSE secretLag'[k][Len(secretLag'[k])] = secrets'[k]
  <2>1. secretLag[k][Len(secretLag[k])] = secrets[k]
    BY <1>1 DEF WiringInv, CachesCatchUp
  <2> QED  BY <1>1, <1>3, <2>1, LastDelivered
<1>5. CachesCatchUp'
  BY <1>1, <1>2, <1>4 DEF WiringInv, CachesCatchUp, appVars
<1>6. JobKnows'
  <2> SUFFICES ASSUME current \in Apps PROVE JobKnows'
    BY <1>1 DEF JobKnows, jobVars
  <2>1. ASSUME pc \in {"apply", "record", "health"}, current \notin queue'
        PROVE  hash = HashIn(secretCache', current, local.spec)
    <3>1. appCache[current] = local /\ local.exists
      BY <1>1, <2>1 DEF WiringInv, JobKnows, Live
    <3>2. hash = HashIn(secretCache, current, local.spec)
      BY <1>1, <2>1 DEF WiringInv, JobKnows
    <3>3. <<Home[current], local.spec.ref>> # k
      BY <1>1, <2>1, <3>1 DEF applicationsForSecret
    <3>4. local.spec.ref # NoRef => <<Home[current], local.spec.ref>> \in SecretKeys
      BY DEF TypeOK, JobTyped, Application, StoredSpec, ApplicationSpec, SchemaAccepts, SecretKeys
    <3> QED  BY <1>2, <3>2, <3>3, <3>4 DEF HashIn
  <2> QED  BY <1>1, <2>1 DEF WiringInv, JobKnows, appVars, jobVars
<1>7. ASSUME NEW a \in Apps PROVE Served(a)' \/ Waiting(a)' \/ current' = a
  <2> DEFINE key == <<Home[a], apps[a].spec.ref>>
  <2>1. CASE Served(a) \/ current = a \/ a \in queue \/ appLag[a] # <<>>
    BY <1>1, <2>1 DEF Served, Waiting, Applied, HashIn, appVars, jobVars
  <2>2. CASE apps[a].spec.ref # NoRef /\ secretLag[key] # <<>> /\ key # k
    <3>1. secretLag'[key] = secretLag[key]
      BY <1>2, <2>2, KeyTyped
    <3> QED  BY <1>1, <2>2, <3>1 DEF Waiting, appVars
  <2>3. CASE key = k /\ appLag[a] = <<>> /\ ~Served(a)
    <3>1. appCache[a] = apps[a] /\ apps[a].exists
      BY <2>3 DEF WiringInv, CachesCatchUp, Served, Live
    <3>2. a \in applicationsForSecret(k)
      BY <2>3, <3>1 DEF applicationsForSecret
    <3> QED  BY <1>1, <3>2 DEF Waiting
  <2> QED  BY <2>1, <2>2, <2>3 DEF WiringInv, NobodyForgotten, Waiting
<1> QED  BY <1>5, <1>6, <1>7 DEF WiringInv, NobodyForgotten

LEMMA UsersKeepInv == ASSUME TypeOK, WiringInv, NEW a \in Apps, Users(a) PROVE WiringInv'
<1>1. PICK obj \in Application : UserWrite(a, obj)
  BY UsersWriteObjects
<1>2. /\ StoreApp(a, obj) /\ fresh' = (fresh /\ a # current)
      /\ UNCHANGED <<secretVars, queue, pc, current, local, hash>>
  BY <1>1 DEF UserWrite
<1>3. CachesCatchUp' /\ appLag'[a] # <<>>
  BY <1>2, StoreAppCatchesUp DEF WiringInv
<1>4. ASSUME NEW b \in Apps, b # a
      PROVE  apps'[b] = apps[b] /\ appLag'[b] = appLag[b]
  BY <1>2, <1>4 DEF StoreApp, TypeOK, AppsTyped
<1>5. appCache' = appCache
  BY <1>2 DEF StoreApp
<1>6. JobKnows'
  <2> SUFFICES ASSUME current \in Apps PROVE JobKnows'
    BY <1>2 DEF JobKnows
  <2>1. CASE current = a
    BY <1>2, <1>3, <1>5, <2>1 DEF WiringInv, JobKnows, secretVars
  <2>2. CASE current # a
    <3>1. fresh' = fresh
      BY <1>2, <2>2 DEF TypeOK, JobTyped
    <3> QED  BY <1>2, <1>4, <1>5, <2>2, <3>1 DEF WiringInv, JobKnows, secretVars
  <2> QED  BY <2>1, <2>2
<1>7. ASSUME NEW b \in Apps PROVE Served(b)' \/ Waiting(b)' \/ current' = b
  <2>1. CASE b = a
    BY <1>3, <2>1 DEF Waiting
  <2>2. CASE b # a
    BY <1>2, <1>4, <2>2, OthersKeep DEF WiringInv, NobodyForgotten
  <2> QED  BY <2>1, <2>2
<1> QED  BY <1>3, <1>6, <1>7 DEF WiringInv, NobodyForgotten

LEMMA EditSecretKeepsInv ==
    ASSUME TypeOK, WiringInv, NEW k \in SecretKeys, EditSecret(k) PROVE WiringInv'
<1>1. PICK c \in Contents \cup {Broken} :
        /\ secrets' = [secrets EXCEPT ![k] = c]
        /\ secretLag' = [secretLag EXCEPT ![k] = Append(@, c)]
  BY DEF EditSecret
<1>2. UNCHANGED <<secretCache, appVars, queue, jobVars>>
  BY DEF EditSecret
<1>3. secretLag'[k] # <<>> /\ secretLag'[k][Len(secretLag'[k])] = secrets'[k]
  <2>1. secretLag[k] \in Seq(Contents \cup {Broken})
    BY DEF TypeOK, SecretsTyped
  <2>2. secretLag'[k] = Append(secretLag[k], c) /\ secrets'[k] = c
    BY <1>1 DEF TypeOK, SecretsTyped
  <2> QED  BY <2>1, <2>2
<1>4. ASSUME NEW o \in SecretKeys, o # k
      PROVE  secrets'[o] = secrets[o] /\ secretLag'[o] = secretLag[o]
  BY <1>1, <1>4 DEF TypeOK, SecretsTyped
<1>5. CachesCatchUp'
  BY <1>2, <1>3, <1>4 DEF WiringInv, CachesCatchUp, appVars
<1>6. JobKnows'
  BY <1>2 DEF WiringInv, JobKnows, appVars, jobVars
<1>7. ASSUME NEW a \in Apps PROVE Served(a)' \/ Waiting(a)' \/ current' = a
  <2> DEFINE key == <<Home[a], apps[a].spec.ref>>
  <2>1. CASE apps[a].spec.ref # NoRef /\ key = k
    BY <1>2, <1>3, <2>1 DEF Waiting, appVars
  <2>2. CASE apps[a].spec.ref = NoRef \/ key # k
    <3>1. apps[a].spec.ref # NoRef =>
            secrets'[key] = secrets[key] /\ secretLag'[key] = secretLag[key]
      BY <1>4, <2>2, KeyTyped
    <3>2. Served(a) => Served(a)'
      BY <1>2, <3>1 DEF Served, Applied, HashIn, appVars
    <3>3. Waiting(a) => Waiting(a)'
      BY <1>2, <3>1 DEF Waiting, appVars
    <3> QED  BY <1>2, <3>2, <3>3 DEF WiringInv, NobodyForgotten, jobVars
  <2> QED  BY <2>1, <2>2
<1> QED  BY <1>5, <1>6, <1>7 DEF WiringInv, NobodyForgotten

(* The process starts again over whatever is stored.                       *)
LEMMA CrashKeepsInv == ASSUME Crash PROVE WiringInv'
<1>1. CachesCatchUp'
  BY DEF Crash, CachesCatchUp
<1>2. JobKnows'
  BY WiringAssumption DEF Crash, JobKnows
<1>3. ASSUME NEW a \in Apps PROVE Served(a)' \/ a \in queue'
  BY DEF Crash, InitialRequests, Served, Live
<1> QED  BY <1>1, <1>2, <1>3 DEF WiringInv, NobodyForgotten, Waiting

LEMMA StepKeepsInv == ASSUME TypeOK, WiringInv, [Next]_vars PROVE WiringInv'
<1>1. CASE UNCHANGED <<appVars, secretVars, queue, jobVars>>
  BY <1>1 DEF WiringInv, CachesCatchUp, JobKnows, NobodyForgotten, Served, Waiting,
              Applied, HashIn, appVars, secretVars, jobVars
<1>2. ASSUME NEW a \in Apps,
             Reconcile(a) \/ DeliverApplication(a) \/ Poll(a) \/ Users(a)
      PROVE  WiringInv'
  BY <1>2, ReconcileKeepsInv, DeliverApplicationKeepsInv, PollKeepsInv, UsersKeepInv
<1>3. ASSUME NEW k \in SecretKeys, DeliverSecret(k) \/ EditSecret(k) PROVE WiringInv'
  BY <1>3, DeliverSecretKeepsInv, EditSecretKeepsInv
<1>4. CASE StartServing \/ InstallWebhook
  BY <1>1, <1>4 DEF StartServing, InstallWebhook
<1>5. CASE UNCHANGED vars
  BY <1>1, <1>5 DEF vars, appVars, secretVars, jobVars
<1> QED  BY <1>2, <1>3, <1>4, <1>5, WorkerKeepsInv, CrashKeepsInv DEF Next

(* With nothing on its way, nothing due and nothing running, whoever is not *)
(* waiting is served.                                                      *)
LEMMA DrainedIsServed == ASSUME TypeOK, WiringInv PROVE NothingMissed
<1> SUFFICES ASSUME Drained, NEW a \in Apps PROVE Served(a)
  BY DEF NothingMissed, Served
<1>1. current # a
  BY WiringAssumption DEF Drained, TypeOK, JobTyped
<1>2. ~Waiting(a)
  BY KeyTyped DEF Drained, Waiting
<1> QED  BY <1>1, <1>2 DEF WiringInv, NobodyForgotten

(* No change of an Application or of the values it names waits for a poll  *)
(* (application_controller.go: the Update of the finalizer and the Secret  *)
(* watch "re-trigger" the reconcile), however many Applications share      *)
(* Secrets and worker, however late the caches are, and whatever fails.    *)
THEOREM NothingIsMissed == Spec => []NothingMissed
<1>1. Init => WiringInv
  BY InitInv
<1>2. TypeOK /\ WiringInv /\ [Next]_vars => WiringInv'
  BY StepKeepsInv
<1>3. TypeOK /\ WiringInv => NothingMissed
  BY DrainedIsServed
<1> QED  BY <1>1, <1>2, <1>3, WiringTypeIsKept, PTL DEF Spec

----------------------------------------------------------------------------
(* A gauge that does not agree with the cache is about to be refreshed.    *)
GaugeDue == gauge = Counted(appCache) \/ queue # {} \/ pc # "idle"

(* A new process starts with the gauge at zero and a reconcile of every    *)
(* Application there is.                                                   *)
LEMMA NoRequestsNothingCounted ==
    ASSUME InitialRequests = {} PROVE Counted(apps) = [n \in Targets |-> 0]
<1>1. ASSUME NEW n \in Targets
      PROVE  {a \in Apps : Live(apps[a]) /\ apps[a].spec.namespace = n} = {}
  BY DEF InitialRequests, Live
<1>2. ASSUME NEW n \in Targets
      PROVE  Cardinality({a \in Apps : Live(apps[a]) /\ apps[a].spec.namespace = n}) = 0
  BY <1>1, FS_EmptySet
<1> QED  BY <1>2 DEF Counted

LEMMA StepKeepsGaugeDue ==
    ASSUME TypeOK, GaugeDue, [Next]_vars PROVE GaugeDue'
<1>1. CASE UNCHANGED <<gauge, appCache, pc>> /\ queue \subseteq queue'
  BY <1>1 DEF GaugeDue, Counted
<1>2. CASE Worker
  <2>1. CASE refreshActiveGauge
    <3>1. gauge' = Counted(appCache) /\ appCache' = appCache
      BY <2>1 DEF refreshActiveGauge, appVars
    <3> QED  BY <3>1 DEF GaugeDue, Counted
  <2>2. CASE ~refreshActiveGauge
    <3>1. pc' # "idle"
      BY <1>2, <2>2 DEF Worker, AddFinalizer, resolveValues, Apply, Record, reconcileHealth,
         fail, reconcileDelete, WriteStatus, FailOn, Refuse, Done, Retry, Leave, Goto
    <3> QED  BY <3>1 DEF GaugeDue
  <2> QED  BY <2>1, <2>2
<1>3. ASSUME NEW a \in Apps, Reconcile(a) PROVE GaugeDue'
  BY <1>3 DEF Reconcile, GaugeDue
<1>4. ASSUME NEW a \in Apps, DeliverApplication(a) PROVE GaugeDue'
  BY <1>4 DEF DeliverApplication, EnqueueOnEvent, GaugeDue
<1>5. ASSUME NEW a \in Apps, Poll(a) \/ Users(a) PROVE GaugeDue'
  BY <1>1, <1>5, UsersWriteObjects DEF Poll, UserWrite, StoreApp, appVars, jobVars
<1>6. ASSUME NEW k \in SecretKeys, DeliverSecret(k) \/ EditSecret(k) PROVE GaugeDue'
  BY <1>1, <1>6 DEF DeliverSecret, EditSecret, appVars, jobVars
<1>7. CASE StartServing \/ InstallWebhook \/ UNCHANGED vars
  BY <1>1, <1>7 DEF StartServing, InstallWebhook, vars, appVars, jobVars
<1>8. CASE Crash
  <2>1. /\ appCache' = apps /\ gauge' = [n \in Targets |-> 0]
        /\ queue' = InitialRequests
    BY <1>8 DEF Crash
  <2> QED  BY <2>1, NoRequestsNothingCounted DEF GaugeDue, Counted
<1> QED  BY <1>2, <1>3, <1>4, <1>5, <1>6, <1>7, <1>8 DEF Next

(* The gauge agrees with the API server whenever nothing is on its way and *)
(* nothing is due (metrics.go: "the current number of managed              *)
(* Applications", which "survives controller restarts").                   *)
THEOREM GaugeIsCurrent == Spec => []GaugeCurrent
<1>1. Init => GaugeDue /\ WiringInv
  <2> SUFFICES ASSUME Init PROVE GaugeDue
    BY InitInv
  <2>1. appCache = apps /\ gauge = [n \in Targets |-> 0] /\ queue = InitialRequests
    BY DEF Init
  <2> QED  BY <2>1, NoRequestsNothingCounted DEF GaugeDue
<1>2. TypeOK /\ GaugeDue /\ WiringInv /\ [Next]_vars => GaugeDue' /\ WiringInv'
  BY StepKeepsGaugeDue, StepKeepsInv
<1>3. TypeOK /\ GaugeDue /\ WiringInv => GaugeCurrent
  <2> SUFFICES ASSUME TypeOK, GaugeDue, WiringInv, Drained PROVE gauge = Counted(apps)
    BY DEF GaugeCurrent
  <2>1. \A a \in Apps : appCache[a] = apps[a]
    BY DEF Drained, WiringInv, CachesCatchUp
  <2>2. appCache = apps
    BY <2>1 DEF TypeOK, AppsTyped
  <2> QED  BY <2>2 DEF GaugeDue, Drained
<1> QED  BY <1>1, <1>2, <1>3, WiringTypeIsKept, PTL DEF Spec
=============================================================================
