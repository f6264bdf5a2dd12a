-------------------------- MODULE ControllerWiring --------------------------
(***************************************************************************)
(* What makes the reconciler run, and what it leaves for others to see:    *)
(* the watches and the mapping SetupWithManager wires up, the work queue,  *)
(* the two informer caches behind it, the webhook its own updates must     *)
(* pass (Admission), and the gauge every reconcile refreshes.              *)
(*                                                                         *)
(* Several Applications share values Secrets and one worker.  Of a         *)
(* reconcile only what decides about the next one is kept: reads of the    *)
(* two caches at two moments, the spec and values recorded as applied, and *)
(* whether it ends in an error or not.  Helm is a call that succeeds or    *)
(* fails, and that a crash may cut short, which leaves a revision pending  *)
(* that Helm upgrades no more.  The queue is a set, because it holds a     *)
(* request once; a request added while it is being worked on waits for the *)
(* worker.  Retries wait for no back-off.                                  *)
(***************************************************************************)
EXTENDS Admission, Sequences, FiniteSets

CONSTANTS
    Apps,        \* Applications, by name
    Home,        \* the namespace each Application lives in
    Specs,       \* the specs users submit
    Contents,    \* what a values Secret may hold, by its hash
    Broken,      \* it is missing, lacks the key, or does not parse
    NoHash,      \* the hash where no Secret is referenced
    None,        \* no Application
    MaxEvents    \* bound: what users do, calls that fail, and crashes

ASSUME WiringAssumption ==
    /\ None \notin Apps /\ IsFiniteSet(Apps)
    /\ Specs \subseteq ApplicationSpec
    /\ Contents # {} /\ Broken \notin Contents /\ NoHash \notin Contents \cup {Broken}
    /\ MaxEvents \in Nat

VARIABLES
    apps, appCache, appLag,            \* stored, cached, on their way
    secrets, secretCache, secretLag,   \* likewise for values Secrets
    queue,                             \* requests due now
    pc, current, local, fresh, hash,   \* the reconcile that is running
    interrupted,                       \* releases whose newest revision is pending
    gauge,                             \* helmwarden_active_managed_apps
    events                             \* auxiliary: users' changes and faults so far

appVars == <<apps, appCache, appLag>>
secretVars == <<secrets, secretCache, secretLag>>
jobVars == <<pc, current, local, fresh, hash>>
vars == <<apps, appCache, appLag, secrets, secretCache, secretLag, queue,
          pc, current, local, fresh, hash, interrupted, gauge, events, webhook>>

----------------------------------------------------------------------------
SecretKeys == {Home[a] : a \in Apps} \X SecretNames

Hashes == Contents \cup {NoHash, Broken}

(* What the schema lets pass, and some such spec for objects that are not   *)
(* there.                                                                  *)
StoredSpec == {spec \in ApplicationSpec : SchemaAccepts(spec)}

AnySpec == CHOOSE spec \in StoredSpec : TRUE

Application ==
    [exists: BOOLEAN, gen: Nat, deleting: BOOLEAN, finalizer: BOOLEAN,
     spec: StoredSpec, obs: Nat, hash: Hashes, phase: {"", "Failed", "Applied"}]

Gone ==
    [exists |-> FALSE, gen |-> 0, deleting |-> FALSE, finalizer |-> FALSE,
     spec |-> AnySpec, obs |-> 0, hash |-> NoHash, phase |-> ""]

Live(a) == a.exists /\ ~a.deleting

(* What has been applied and left alone.                                   *)
Settled(spec, h) ==
    [exists |-> TRUE, gen |-> 1, deleting |-> FALSE, finalizer |-> TRUE,
     spec |-> spec, obs |-> 1, hash |-> h, phase |-> "Applied"]

HashIn(store, a, spec) == IF spec.ref = NoRef THEN NoHash ELSE store[<<Home[a], spec.ref>>]

InitialObjects(a) ==
    {Gone} \cup {Settled(spec, HashIn(secrets, a, spec)) :
                   spec \in {s \in Specs : SchemaAccepts(s) /\ HashIn(secrets, a, s) # Broken}}

(* Mutant: the new process waits for events.                               *)
RequestsAfterStart == {}

(* The initial lists enqueue every Application there is.                   *)
InitialRequests == {a \in Apps : apps[a].exists}

(* The operator starts over a cluster it has worked on before, or over an  *)
(* empty one.  Which contents come first is immaterial.                    *)
Init ==
    /\ secrets \in [SecretKeys -> {CHOOSE c \in Contents : TRUE, Broken}] /\ secretCache = secrets
    /\ secretLag = [s \in SecretKeys |-> <<>>]
    /\ apps \in {f \in [Apps -> UNION {InitialObjects(a) : a \in Apps}] :
                   \A a \in Apps : f[a] \in InitialObjects(a)}
    /\ appCache = apps /\ appLag = [a \in Apps |-> <<>>]
    /\ queue = InitialRequests
    /\ pc = "idle" /\ current = None /\ local = Gone /\ fresh = FALSE /\ hash = NoHash
    /\ interrupted = {} /\ gauge = [n \in Targets |-> 0]
    /\ webhook \in {"absent", "refusing"}
    /\ events = 0

Event == events < MaxEvents /\ events' = events + 1

StoreApp(a, obj) ==
    /\ apps' = [apps EXCEPT ![a] = obj]
    /\ appLag' = [appLag EXCEPT ![a] = Append(@, obj)]
    /\ UNCHANGED appCache

----------------------------------------------------------------------------
(* The watches.                                                            *)

(* Mutant: a predicate drops events that change no generation.             *)
EnqueueOnGenerationChange(old, new) == old.exists # new.exists \/ old.gen # new.gen

(* For(&Application{}): every event of an Application enqueues it.         *)
EnqueueOnEvent(old, new) == TRUE

(* Mutant: one of the Applications that share the Secret.                  *)
anyApplicationForSecret(s) ==
    LET users == {a \in Apps : appCache[a].exists /\ <<Home[a], appCache[a].spec.ref>> = s}
    IN  IF users = {} THEN {} ELSE {CHOOSE a \in users : TRUE}

(* The cached Applications of the Secret's namespace that name it.  The    *)
(* List reads a cache that is there before the first event is, so that the *)
(* error for which the code drops the event does not occur.                *)
applicationsForSecret(s) ==
    {a \in Apps : appCache[a].exists /\ <<Home[a], appCache[a].spec.ref>> = s}

DeliverApplication(a) ==
    /\ appLag[a] # <<>>
    /\ appCache' = [appCache EXCEPT ![a] = Head(appLag[a])]
    /\ appLag' = [appLag EXCEPT ![a] = Tail(@)]
    /\ queue' = IF EnqueueOnEvent(appCache[a], Head(appLag[a]))
                THEN queue \cup {a} ELSE queue
    /\ UNCHANGED <<apps, secretVars, jobVars, interrupted, gauge, events, webhook>>

DeliverSecret(s) ==
    /\ secretLag[s] # <<>>
    /\ secretCache' = [secretCache EXCEPT ![s] = Head(secretLag[s])]
    /\ secretLag' = [secretLag EXCEPT ![s] = Tail(@)]
    /\ queue' = queue \cup applicationsForSecret(s)
    /\ UNCHANGED <<appVars, secrets, jobVars, interrupted, gauge, events, webhook>>

(* A RequeueAfter comes due, or the informer resyncs: at any time, for any *)
(* Application there is, and nothing may rely on it.                       *)
Poll(a) ==
    /\ appCache[a].exists
    /\ queue' = queue \cup {a}
    /\ UNCHANGED <<appVars, secretVars, jobVars, interrupted, gauge, events, webhook>>

----------------------------------------------------------------------------
(* The reconcile.                                                          *)

Goto(next) == pc' = next /\ UNCHANGED <<current, local, fresh, hash>>

(* Reconcile is about to return; the gauge is refreshed on the way out.    *)
Leave ==
    /\ pc' = "refresh"
    /\ current' = None /\ local' = Gone /\ fresh' = FALSE /\ hash' = NoHash

(* Without an error, the next turn is an event's or a poll's.              *)
Done  == Leave /\ UNCHANGED queue
Retry == Leave /\ queue' = queue \cup {current}

(* Mutant: a refused write is given up.                                    *)
GiveUp == Done /\ UNCHANGED <<appVars, events>>

(* The write is refused: not the version that was read, or not admitted.   *)
Refuse == Retry /\ UNCHANGED <<appVars, events>>

(* It fails, before or after the API server stored it.                     *)
FailOn(obj) == Event /\ Retry /\ (StoreApp(current, obj) \/ UNCHANGED appVars)

Reconcile(a) ==
    /\ pc = "idle" /\ a \in queue
    /\ LET c == appCache[a]
           cleanup == c.exists /\ c.deleting /\ c.finalizer
       IN  \/ ~cleanup /\ ~Live(c) /\ pc' = "refresh"
           \/ cleanup /\ pc' = "finalize"
           \/ Live(c) /\ ~c.finalizer /\ pc' = "addFinalizer"
           \/ Live(c) /\ c.finalizer /\ pc' = "resolve"
    /\ IF pc' = "refresh" THEN UNCHANGED <<current, local, fresh, hash>>
       ELSE /\ current' = a /\ local' = appCache[a] /\ fresh' = (appLag[a] = <<>>)
            /\ UNCHANGED hash
    /\ queue' = queue \ {a}
    /\ UNCHANGED <<appVars, secretVars, interrupted, gauge, events, webhook>>

AddFinalizer ==
    /\ pc = "addFinalizer"
    /\ LET obj      == [local EXCEPT !.finalizer = TRUE]
           accepted == fresh /\ AdmitsUpdate(obj.spec)
       IN  \/ accepted /\ StoreApp(current, obj) /\ Done /\ UNCHANGED events
           \/ accepted /\ FailOn(obj)
           \/ ~accepted /\ Refuse
    /\ UNCHANGED <<secretVars, interrupted, gauge, webhook>>

needsApply(a, h) == a.obs # a.gen \/ a.hash # h

(* Read from the Secret cache, some time after the Application.            *)
resolveValues ==
    /\ pc = "resolve"
    /\ LET h == HashIn(secretCache, current, local.spec)
       IN  /\ hash' = h
           /\ \/ h = Broken /\ pc' = "fail"
              \/ h # Broken /\ needsApply(local, h) /\ pc' = "apply"
              \/ h # Broken /\ ~needsApply(local, h) /\ pc' = "health"
    /\ UNCHANGED <<appVars, secretVars, queue, current, local, fresh, interrupted,
                   gauge, events, webhook>>

(* The release the reconcile is about.                                     *)
Release == <<current, local.spec.namespace>>

(* ensureNamespace and InstallOrUpgrade.  A namespace that is no DNS label *)
(* cannot be created; of a version that is not semver either may come.     *)
Apply ==
    /\ pc = "apply"
    /\ \/ /\ local.spec.namespace \in Labels /\ Release \notin interrupted
          /\ Goto("record") /\ UNCHANGED events
       \/ /\ \/ local.spec.namespace \notin Labels \/ Release \in interrupted
             \/ local.spec.version # "semver"
          /\ Goto("fail") /\ UNCHANGED events
       \/ Event /\ Goto("fail")
    /\ UNCHANGED <<appVars, secretVars, queue, interrupted, gauge, webhook>>

(* A status write is not the webhook's business.  One that changes nothing *)
(* is no new version, but it is refused all the same if the object read is *)
(* not the stored one.                                                     *)
WriteStatus(obj, end) ==
    \/ fresh /\ obj # local /\ StoreApp(current, obj) /\ end /\ UNCHANGED events
    \/ fresh /\ obj = local /\ end /\ UNCHANGED <<appVars, events>>
    \/ fresh /\ FailOn(obj)
    \/ ~fresh /\ Refuse

Record ==
    /\ pc = "record"
    /\ WriteStatus([local EXCEPT !.obs = local.gen, !.hash = hash, !.phase = "Applied"],
                   Done)
    /\ UNCHANGED <<secretVars, interrupted, gauge, webhook>>

(* What the workloads' health makes of the status, a rollback included,    *)
(* which puts a finished revision on top; a status that stays the same is  *)
(* not written.                                                            *)
reconcileHealth ==
    /\ pc = "health"
    /\ \/ local.phase # "Applied" /\ WriteStatus([local EXCEPT !.phase = "Applied"], Done)
       \/ Done /\ UNCHANGED <<appVars, events>>
       \/ Event /\ Retry /\ UNCHANGED appVars
    /\ interrupted' \in {interrupted, interrupted \ {Release}}
    /\ UNCHANGED <<secretVars, gauge, webhook>>

(* Mutant: the error is recorded and not returned.                         *)
failSilently ==
    /\ pc = "fail"
    /\ WriteStatus([local EXCEPT !.phase = "Failed"], Done)
    /\ UNCHANGED <<secretVars, interrupted, gauge, webhook>>

fail ==
    /\ pc = "fail"
    /\ WriteStatus([local EXCEPT !.phase = "Failed"], Retry)
    /\ UNCHANGED <<secretVars, interrupted, gauge, webhook>>

(* reconcileDelete: the release is uninstalled, a pending revision too,    *)
(* and the finalizer dropped by an update like any other; or one of the    *)
(* calls before that fails.                                                *)
reconcileDelete ==
    /\ pc = "finalize"
    /\ LET accepted == fresh /\ AdmitsUpdate(local.spec)
       IN  \/ /\ \/ accepted /\ StoreApp(current, Gone) /\ Done /\ UNCHANGED events
                 \/ accepted /\ FailOn(Gone)
                 \/ ~accepted /\ Refuse
              /\ interrupted' = interrupted \ {Release}
           \/ Event /\ Retry /\ UNCHANGED <<appVars, interrupted>>
    /\ UNCHANGED <<secretVars, gauge, webhook>>

Counted(objects) ==
    [n \in Targets |-> Cardinality({a \in Apps : Live(objects[a]) /\ objects[a].spec.namespace = n})]

(* Mutant: without the Reset, a namespace that has none left keeps its     *)
(* last count.                                                             *)
refreshActiveGaugeWithoutReset ==
    /\ pc = "refresh"
    /\ gauge' = [n \in Targets |-> IF Counted(appCache)[n] = 0 THEN gauge[n]
                                   ELSE Counted(appCache)[n]]
    /\ pc' = "idle"
    /\ UNCHANGED <<appVars, secretVars, queue, current, local, fresh, hash,
                   interrupted, events, webhook>>

(* The deferred refresh: the cached list as it is when Reconcile returns   *)
(* (a List from a started cache does not fail either).                     *)
refreshActiveGauge ==
    /\ pc = "refresh"
    /\ gauge' = Counted(appCache)
    /\ pc' = "idle"
    /\ UNCHANGED <<appVars, secretVars, queue, current, local, fresh, hash,
                   interrupted, events, webhook>>

----------------------------------------------------------------------------
(* Users.                                                                  *)

UserWrite(a, obj) ==
    /\ Event /\ StoreApp(a, obj) /\ fresh' = (fresh /\ a # current)
    /\ UNCHANGED <<secretVars, queue, pc, current, local, hash, interrupted,
                   gauge, webhook>>

CreateApplication(a) ==
    /\ ~apps[a].exists
    /\ \E s \in Specs :
         /\ AdmitsCreate(s)
         /\ UserWrite(a, [Gone EXCEPT !.exists = TRUE, !.gen = 1, !.spec = s])

EditSpec(a) ==
    /\ apps[a].exists
    /\ \E s \in Specs \ {apps[a].spec} :
         AdmitsUpdate(s) /\ UserWrite(a, [apps[a] EXCEPT !.gen = @ + 1, !.spec = s])

DeleteApplication(a) ==
    /\ Live(apps[a])
    /\ UserWrite(a, IF apps[a].finalizer
                    THEN [apps[a] EXCEPT !.deleting = TRUE, !.gen = @ + 1]
                    ELSE Gone)

EditSecret(s) ==
    /\ Event
    /\ \E c \in (Contents \cup {Broken}) \ {secrets[s]} :
         /\ secrets' = [secrets EXCEPT ![s] = c]
         /\ secretLag' = [secretLag EXCEPT ![s] = Append(@, c)]
    /\ UNCHANGED <<secretCache, appVars, queue, jobVars, interrupted, gauge, webhook>>

----------------------------------------------------------------------------
(* The process.                                                            *)

(* The webhook server answers some time after the process starts: the      *)
(* readiness check does not wait for it.                                   *)
StartServing ==
    /\ webhook = "refusing" /\ webhook' = "answering"
    /\ UNCHANGED <<appVars, secretVars, queue, jobVars, interrupted, gauge, events>>

InstallWebhook ==
    /\ webhook = "absent" /\ webhook' = "refusing"
    /\ UNCHANGED <<appVars, secretVars, queue, jobVars, interrupted, gauge, events>>

(* Helm may have been at work: an install, an upgrade or a rollback.       *)
Interrupt ==
    \/ UNCHANGED interrupted
    \/ /\ pc \in {"apply", "health"} /\ local.spec.namespace \in Labels
       /\ interrupted' = interrupted \cup {Release}

(* The process dies and another one takes over, its metrics at zero.       *)
Crash ==
    /\ Event
    /\ Interrupt
    /\ appCache' = apps /\ appLag' = [a \in Apps |-> <<>>]
    /\ secretCache' = secrets /\ secretLag' = [s \in SecretKeys |-> <<>>]
    /\ queue' = InitialRequests
    /\ pc' = "idle" /\ current' = None /\ local' = Gone /\ fresh' = FALSE /\ hash' = NoHash
    /\ gauge' = [n \in Targets |-> 0]
    /\ webhook' = IF webhook = "absent" THEN "absent" ELSE "refusing"
    /\ UNCHANGED <<apps, secrets>>

----------------------------------------------------------------------------
Worker ==
    \/ AddFinalizer \/ resolveValues \/ Apply \/ Record \/ reconcileHealth \/ fail
    \/ reconcileDelete \/ refreshActiveGauge

Users(a) == CreateApplication(a) \/ EditSpec(a) \/ DeleteApplication(a)

Next ==
    \/ Worker \/ StartServing \/ InstallWebhook \/ Crash
    \/ \E a \in Apps : Reconcile(a) \/ DeliverApplication(a) \/ Poll(a) \/ Users(a)
    \/ \E s \in SecretKeys : DeliverSecret(s) \/ EditSecret(s)

Spec == Init /\ [][Next]_vars

Background ==
    \/ StartServing
    \/ \E a \in Apps : DeliverApplication(a)
    \/ \E s \in SecretKeys : DeliverSecret(s)

(* The worker goes on and gives every request its turn; watches deliver    *)
(* and the webhook server comes up.                                        *)
Fairness ==
    /\ WF_vars(Worker) /\ WF_vars(Background)
    /\ \A a \in Apps : SF_vars(Reconcile(a))

FairSpec == Spec /\ Fairness
----------------------------------------------------------------------------
PCs == {"idle", "addFinalizer", "resolve", "apply", "record", "health", "fail",
        "finalize", "refresh"}

AppsTyped ==
    /\ apps \in [Apps -> Application] /\ appCache \in [Apps -> Application]
    /\ appLag \in [Apps -> Seq(Application)]

SecretsTyped ==
    /\ secrets \in [SecretKeys -> Contents \cup {Broken}]
    /\ secretCache \in [SecretKeys -> Contents \cup {Broken}]
    /\ secretLag \in [SecretKeys -> Seq(Contents \cup {Broken})]

JobTyped ==
    /\ pc \in PCs /\ current \in Apps \cup {None} /\ local \in Application
    /\ fresh \in BOOLEAN /\ hash \in Hashes
    /\ pc \notin {"idle", "refresh"} <=> current # None

(* Every variable keeps its type; what is stored has passed the schema, and *)
(* a reconcile that is at work is at work on some Application.             *)
TypeOK ==
    /\ AppsTyped /\ SecretsTyped /\ JobTyped
    /\ queue \in SUBSET Apps /\ interrupted \in SUBSET (Apps \X Targets)
    /\ gauge \in [Targets -> Nat]
    /\ webhook \in {"absent", "refusing", "answering"}
    /\ events \in Nat

(* Nothing is on its way, nothing is due, and nothing runs.                *)
Drained ==
    /\ \A a \in Apps : appLag[a] = <<>>
    /\ \A s \in SecretKeys : secretLag[s] = <<>>
    /\ queue = {} /\ pc = "idle"

(* The stored generation and values are the ones recorded as applied.      *)
Applied(a) ==
    apps[a].obs = apps[a].gen /\ apps[a].hash = HashIn(secrets, a, apps[a].spec)

(* application_controller.go: the Update of the finalizer "re-triggers us", *)
(* and a Secret's change "re-triggers a reconcile even though the           *)
(* Application's own spec is unchanged".  Once the watches and the queue    *)
(* are drained, every live Application has its finalizer, its generation    *)
(* and the values its Secret holds applied: none is waiting for a poll,     *)
(* whichever cache was behind and whichever call to the API server or to    *)
(* Helm failed.                                                             *)
NothingMissed ==
    Drained => \A a \in Apps : Live(apps[a]) => apps[a].finalizer /\ Applied(a)

(* metrics.go: the gauge is "the current number of managed Applications",   *)
(* by target namespace, and "survives controller restarts": once drained,   *)
(* it agrees with the API server, although each refresh reads a cache.      *)
GaugeCurrent == Drained => gauge = Counted(apps)

ValidObject(obj) == obj.exists => validateApplication(obj.spec) = {}

(* Nothing stored, on its way, cached or read has a spec the webhook       *)
(* complains about.                                                        *)
AllValid ==
    /\ ValidObject(local)
    /\ \A a \in Apps :
         /\ ValidObject(apps[a]) /\ ValidObject(appCache[a])
         /\ \A i \in DOMAIN appLag[a] : ValidObject(appLag[a][i])

(* application_webhook.go: malformed specs are rejected "before a bad chart *)
(* version or namespace can reach the reconciler".  From the moment the     *)
(* webhook is in force and nothing invalid is left, no step of a user, of   *)
(* the operator or of a watch puts an invalid spec where it is read again.  *)
AdmissionHolds == [][webhook # "absent" /\ AllValid => AllValid']_vars

Rejected(a) == webhook # "absent" /\ validateApplication(apps[a].spec) # {}

(* A deletion completes, although the finalizer's removal is an update that *)
(* the operator's own webhook must admit - while it starts, this refuses    *)
(* everything - and although the cached Application is stale at times.  It  *)
(* may not when the webhook was installed over a spec that it rejects.      *)
DeletionsComplete ==
    \A a \in Apps : apps[a].deleting ~> (~apps[a].deleting \/ Rejected(a))

Workable(a) ==
    /\ Live(apps[a]) /\ validateApplication(apps[a].spec) = {}
    /\ HashIn(secrets, a, apps[a].spec) # Broken
    /\ <<a, apps[a].spec.namespace>> \notin interrupted

(* An Application left alone with a valid spec and readable values is      *)
(* applied, although its first updates may meet a webhook that does not    *)
(* answer yet, and the others that share its Secret and its worker may     *)
(* fail for ever.  Where a crash has left a revision pending it is not,    *)
(* unless a rollback or an uninstall has removed that since.               *)
EveryoneConverges == \A a \in Apps : <>[]Workable(a) => <>[]Applied(a)
=============================================================================
