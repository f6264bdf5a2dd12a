------------------------- MODULE NamespaceOwnership -------------------------
(***************************************************************************)
(* Target namespaces: ensureNamespace creates one on demand and marks it,  *)
(* maybeDeleteNamespace deletes a marked one with the last Application     *)
(* that targets it (internal/controller/application_controller.go), and    *)
(* the releases stored in a namespace die with it.                         *)
(*                                                                         *)
(* Several Applications share the namespaces and a single worker.  The     *)
(* worker reads Applications and namespaces from two informer caches, each *)
(* of which trails the API server object by object.  A write carries the   *)
(* version it was computed from, so it fails unless the object is still    *)
(* the one that was read; deleting a namespace carries none.  Each call is *)
(* a step, the reads of a cache included: watches deliver between what a   *)
(* reconcile reads and what it does about it.                              *)
(*                                                                         *)
(* Only what decides about namespaces is kept of an Application: gen       *)
(* against obs is half of the test for an install or upgrade, and changed  *)
(* values, the other half, or values that cannot be resolved may turn up   *)
(* as a fault.  Versions that agree in all that is kept count as one.  Of  *)
(* health a rollback is kept, as what repairs, or when it dies breaks, a   *)
(* stored release.  Which request the queue holds is left out: any         *)
(* Application may be reconciled at any time.                              *)
(***************************************************************************)
EXTENDS Integers, Sequences

CONSTANTS
    Apps,         \* Applications, by name
    Namespaces,   \* target namespaces, by name
    None,         \* no Application, no namespace
    MaxUid,       \* bound: how often one Application is (re)created
    MaxGen,       \* bound: edits of spec.namespace stop at this generation
    MaxFaults     \* bound: failed calls, changes of values and crashes

ASSUME NamespaceAssumption ==
    /\ None \notin Apps \cup Namespaces
    /\ MaxUid \in Nat /\ MaxGen \in Nat /\ MaxFaults \in Nat

VARIABLES
    apps, appCache, appLag,            \* stored, cached, on their way
    namespaces, nsCache, nsLag,        \* likewise for namespaces
    releases,                          \* <<a, n>>: n stores a's release
    interrupted,                       \* those whose newest revision is pending
    pc, current, local,                \* the reconcile that is running
    overtaken,                         \* auxiliary: see DeliverNamespace
    faults                             \* auxiliary: faults so far

appVars == <<apps, appCache, appLag>>
nsVars == <<namespaces, nsCache, nsLag>>
helmVars == <<releases, interrupted>>
jobVars == <<pc, current, local, overtaken>>
vars == <<apps, appCache, appLag, namespaces, nsCache, nsLag, releases, interrupted,
          pc, current, local, overtaken, faults>>

----------------------------------------------------------------------------
Application ==
    [exists: BOOLEAN, uid: Nat, gen: Nat, obs: Nat, deleting: BOOLEAN,
     finalizer: BOOLEAN, failed: BOOLEAN, target: Namespaces \cup {None}]

Gone(uid) ==
    [exists |-> FALSE, uid |-> uid, gen |-> 0, obs |-> 0, deleting |-> FALSE,
     finalizer |-> FALSE, failed |-> FALSE, target |-> None]

Live(a) == a.exists /\ ~a.deleting

Namespace == [st: {"absent", "active", "terminating"}, managed: BOOLEAN]

NoNamespace == [st |-> "absent", managed |-> FALSE]

(* Which namespaces exist before the operator does, unmarked.              *)
Init ==
    /\ apps = [a \in Apps |-> Gone(0)] /\ appCache = apps
    /\ appLag = [a \in Apps |-> <<>>]
    /\ namespaces \in [Namespaces -> {NoNamespace, [st |-> "active", managed |-> FALSE]}]
    /\ nsCache = namespaces
    /\ nsLag = [n \in Namespaces |-> <<>>]
    /\ releases = {} /\ interrupted = {}
    /\ pc = "idle" /\ current = None /\ local = Gone(0) /\ overtaken = FALSE
    /\ faults = 0

(* A call that fails, values that change or break, a crash, or a namespace *)
(* somebody else creates.                                                  *)
Fault == faults < MaxFaults /\ faults' = faults + 1

StoreApp(a, obj) ==
    /\ apps' = [apps EXCEPT ![a] = obj]
    /\ appLag' = [appLag EXCEPT ![a] = Append(@, obj)]
    /\ UNCHANGED appCache

StoreNamespace(n, obj) ==
    /\ namespaces' = [namespaces EXCEPT ![n] = obj]
    /\ nsLag' = [nsLag EXCEPT ![n] = Append(@, obj)]
    /\ UNCHANGED nsCache

Goto(next) == pc' = next /\ UNCHANGED <<current, local, overtaken>>

Return == pc' = "idle" /\ local' = Gone(0) /\ current' = None /\ overtaken' = FALSE

(* An Update of the object the reconcile holds: accepted if that is still  *)
(* the stored version, refused if not, and it may fail on the way.         *)
Update(obj) ==
    \/ apps[current] = local /\ StoreApp(current, obj) /\ UNCHANGED faults
    \/ apps[current] # local /\ UNCHANGED <<apps, appCache, appLag, faults>>
    \/ Fault /\ UNCHANGED appVars

----------------------------------------------------------------------------
(* Reconcile: read the cached Application and dispatch.  One that is gone, *)
(* finalized or applied needs nothing done here, unless its values have    *)
(* changed or can no longer be resolved.                                   *)
Reconcile(a) ==
    /\ pc = "idle"
    /\ appCache[a].exists
    /\ LET c == appCache[a]
       IN  \/ c.deleting /\ c.finalizer /\ pc' = "uninstall" /\ UNCHANGED faults
           \/ ~c.deleting /\ ~c.finalizer /\ pc' = "addFinalizer" /\ UNCHANGED faults
           \/ /\ ~c.deleting /\ c.finalizer
              /\ \/ c.obs # c.gen /\ pc' = "ensureNamespace" /\ UNCHANGED faults
                 \/ Fault /\ pc' \in {"ensureNamespace", "fail"}
    /\ current' = a /\ local' = appCache[a]
    /\ UNCHANGED <<appVars, nsVars, helmVars, overtaken>>

(* A rollback, of an unhealthy release, puts a finished revision on top.   *)
reconcileHealth(a) ==
    /\ pc = "idle"
    /\ LET c == appCache[a]
       IN  /\ Live(c) /\ c.finalizer /\ c.obs = c.gen
           /\ <<a, c.target>> \in interrupted
           /\ interrupted' = interrupted \ {<<a, c.target>>}
    /\ UNCHANGED <<appVars, nsVars, releases, jobVars, faults>>

AddFinalizer ==
    /\ pc = "addFinalizer"
    /\ Update([local EXCEPT !.finalizer = TRUE])
    /\ Return
    /\ UNCHANGED <<nsVars, helmVars>>

(* A namespace the cache does not show is to be created.                   *)
ensureNamespace ==
    /\ pc = "ensureNamespace"
    /\ \/ nsCache[local.target].st = "absent" /\ Goto("createNamespace")
       \/ nsCache[local.target].st # "absent" /\ Goto("install")
    /\ UNCHANGED <<appVars, nsVars, helmVars, faults>>

(* It is marked, unless it turns out to exist (AlreadyExists).             *)
Create(n) ==
    \/ namespaces[n].st = "absent" /\ StoreNamespace(n, [st |-> "active", managed |-> TRUE])
    \/ namespaces[n].st # "absent" /\ UNCHANGED nsVars

createNamespace ==
    /\ pc = "createNamespace"
    /\ \/ Create(local.target) /\ Goto("install") /\ UNCHANGED faults
       \/ Fault /\ Goto("fail") /\ (Create(local.target) \/ UNCHANGED nsVars)
    /\ UNCHANGED <<appVars, helmVars>>

(* Mutant: a release that exists is installed again, which Helm refuses.   *)
InstallOnly ==
    /\ pc = "install"
    /\ \/ /\ namespaces[local.target].st = "active"
          /\ <<current, local.target>> \notin releases
          /\ releases' = releases \cup {<<current, local.target>>}
          /\ Goto("recordApplied")
       \/ /\ namespaces[local.target].st # "active" \/ <<current, local.target>> \in releases
          /\ Goto("fail") /\ UNCHANGED releases
    /\ UNCHANGED <<appVars, nsVars, interrupted, faults>>

(* InstallOrUpgrade stores the release in the namespace.  Nothing can be   *)
(* created in one that is absent or terminating, Helm refuses a release    *)
(* whose newest revision is pending, and what fails on the way may have    *)
(* stored the release all the same.                                        *)
InstallOrUpgrade ==
    /\ pc = "install"
    /\ LET release == <<current, local.target>>
           possible == namespaces[local.target].st = "active" /\ release \notin interrupted
       IN  \/ /\ possible
              /\ releases' = releases \cup {release}
              /\ Goto("recordApplied") /\ UNCHANGED faults
           \/ /\ ~possible
              /\ Goto("fail") /\ UNCHANGED <<releases, faults>>
           \/ /\ possible /\ Fault
              /\ releases' = releases \cup {release}
              /\ Goto("fail")
           \/ Fault /\ Goto("fail") /\ UNCHANGED releases
    /\ UNCHANGED <<appVars, nsVars, interrupted>>

RecordApplied ==
    /\ pc = "recordApplied"
    /\ Update([local EXCEPT !.obs = local.gen, !.failed = FALSE])
    /\ Return
    /\ UNCHANGED <<nsVars, helmVars>>

(* fail records the error and returns it, which brings the request back.   *)
fail ==
    /\ pc = "fail"
    /\ \/ local.failed /\ UNCHANGED <<appVars, faults>>
       \/ ~local.failed /\ Update([local EXCEPT !.failed = TRUE])
    /\ Return
    /\ UNCHANGED <<nsVars, helmVars>>

----------------------------------------------------------------------------
(* reconcileDelete: uninstall, collect the namespace, drop the finalizer.  *)

(* Every stored revision goes, a pending one too.                          *)
Uninstall ==
    /\ pc = "uninstall"
    /\ LET release == {<<current, local.target>>}
       IN  \/ /\ releases' = releases \ release /\ interrupted' = interrupted \ release
              /\ Goto("maybeDeleteNamespace") /\ UNCHANGED faults
           \/ Fault /\ Return /\ UNCHANGED helmVars
    /\ UNCHANGED <<appVars, nsVars>>

(* Mutant: the annotation is not looked at.                                *)
maybeDeleteAnyNamespace ==
    /\ pc = "maybeDeleteNamespace"
    /\ Goto("otherApplications")
    /\ UNCHANGED <<appVars, nsVars, helmVars, faults>>

(* Is the cached namespace one the operator has marked?                    *)
maybeDeleteNamespace ==
    /\ pc = "maybeDeleteNamespace"
    /\ LET ns == nsCache[local.target]
           mine == ns.st # "absent" /\ ns.managed
       IN  \/ mine /\ Goto("otherApplications")
           \/ ~mine /\ Goto("removeFinalizer")
    /\ UNCHANGED <<appVars, nsVars, helmVars, faults>>

(* Mutant: only Applications with work left to do are counted.             *)
othersPending ==
    {b \in Apps : /\ Live(appCache[b]) /\ appCache[b].target = local.target
                  /\ ~(b = current /\ appCache[b].uid = local.uid)
                  /\ appCache[b].obs # appCache[b].gen}

(* The cached list by target namespace, without this Application (by UID)  *)
(* and without those being deleted.                                        *)
others ==
    {b \in Apps : /\ Live(appCache[b]) /\ appCache[b].target = local.target
                  /\ ~(b = current /\ appCache[b].uid = local.uid)}

otherApplicationsInNamespace ==
    /\ pc = "otherApplications"
    /\ \/ others = {} /\ Goto("deleteNamespace")
       \/ others # {} /\ Goto("removeFinalizer")
    /\ UNCHANGED <<appVars, nsVars, helmVars, faults>>

(* The Delete names the namespace and nothing more: whatever now bears the *)
(* name is deleted.                                                        *)
Delete(n) ==
    \/ namespaces[n].st = "active" /\ StoreNamespace(n, [namespaces[n] EXCEPT !.st = "terminating"])
    \/ namespaces[n].st # "active" /\ UNCHANGED nsVars

deleteNamespace ==
    /\ pc = "deleteNamespace"
    /\ \/ Delete(local.target) /\ Goto("removeFinalizer") /\ UNCHANGED faults
       \/ Fault /\ Return /\ (Delete(local.target) \/ UNCHANGED nsVars)
    /\ UNCHANGED <<appVars, helmVars>>

RemoveFinalizer ==
    /\ pc = "removeFinalizer"
    /\ Update(Gone(local.uid))
    /\ Return
    /\ UNCHANGED <<nsVars, helmVars>>

----------------------------------------------------------------------------
(* The environment.                                                        *)

CreateApplication(a) ==
    /\ ~apps[a].exists /\ apps[a].uid < MaxUid
    /\ \E n \in Namespaces :
         StoreApp(a, [Gone(apps[a].uid + 1) EXCEPT !.exists = TRUE, !.gen = 1, !.target = n])
    /\ UNCHANGED <<nsVars, helmVars, jobVars, faults>>

EditNamespace(a) ==
    /\ Live(apps[a]) /\ apps[a].gen < MaxGen
    /\ \E n \in Namespaces \ {apps[a].target} :
         StoreApp(a, [apps[a] EXCEPT !.gen = @ + 1, !.target = n])
    /\ UNCHANGED <<nsVars, helmVars, jobVars, faults>>

DeleteApplication(a) ==
    /\ Live(apps[a])
    /\ StoreApp(a, IF apps[a].finalizer
                   THEN [apps[a] EXCEPT !.deleting = TRUE, !.gen = @ + 1]
                   ELSE Gone(apps[a].uid))
    /\ UNCHANGED <<nsVars, helmVars, jobVars, faults>>

(* Somebody else creates the namespace.                                    *)
UserCreatesNamespace(n) ==
    /\ namespaces[n].st = "absent"
    /\ Fault
    /\ StoreNamespace(n, [st |-> "active", managed |-> FALSE])
    /\ UNCHANGED <<appVars, helmVars, jobVars>>

(* The namespace controller has removed all that was in the namespace.     *)
TerminationCompletes(n) ==
    /\ namespaces[n].st = "terminating"
    /\ StoreNamespace(n, NoNamespace)
    /\ releases' = {r \in releases : r[2] # n}
    /\ interrupted' = {r \in interrupted : r[2] # n}
    /\ UNCHANGED <<appVars, jobVars, faults>>

DeliverApplication(a) ==
    /\ appLag[a] # <<>>
    /\ appCache' = [appCache EXCEPT ![a] = Head(appLag[a])]
    /\ appLag' = [appLag EXCEPT ![a] = Tail(@)]
    /\ UNCHANGED <<apps, nsVars, helmVars, jobVars, faults>>

(* News that the namespace is gone may overtake a reconcile that has read  *)
(* it and is about to delete it.                                           *)
DeliverNamespace(n) ==
    /\ nsLag[n] # <<>>
    /\ nsCache' = [nsCache EXCEPT ![n] = Head(nsLag[n])]
    /\ nsLag' = [nsLag EXCEPT ![n] = Tail(@)]
    /\ overtaken' = IF /\ pc \in {"otherApplications", "deleteNamespace"}
                       /\ n = local.target /\ Head(nsLag[n]).st = "absent"
                    THEN TRUE ELSE overtaken
    /\ UNCHANGED <<namespaces, appVars, helmVars, pc, current, local, faults>>

(* What the process has begun and Helm has not finished stays pending: an  *)
(* install or upgrade, or a rollback.                                      *)
Interrupt ==
    \/ UNCHANGED helmVars
    \/ /\ pc = "install" /\ namespaces[local.target].st = "active"
       /\ releases' = releases \cup {<<current, local.target>>}
       /\ interrupted' = interrupted \cup {<<current, local.target>>}
    \/ /\ pc = "idle"
       /\ \E r \in releases :
            namespaces[r[2]].st = "active" /\ interrupted' = interrupted \cup {r}
       /\ UNCHANGED releases

(* The process dies; its successor lists everything afresh.                *)
Crash ==
    /\ Fault
    /\ Interrupt
    /\ Return
    /\ appCache' = apps /\ appLag' = [a \in Apps |-> <<>>]
    /\ nsCache' = namespaces /\ nsLag' = [n \in Namespaces |-> <<>>]
    /\ UNCHANGED <<apps, namespaces>>

----------------------------------------------------------------------------
Worker ==
    \/ AddFinalizer
    \/ ensureNamespace \/ createNamespace
    \/ InstallOrUpgrade \/ RecordApplied \/ fail
    \/ Uninstall
    \/ maybeDeleteNamespace \/ otherApplicationsInNamespace \/ deleteNamespace
    \/ RemoveFinalizer

Users(a) == CreateApplication(a) \/ EditNamespace(a) \/ DeleteApplication(a)

Next ==
    \/ Worker \/ Crash
    \/ \E a \in Apps :
         Reconcile(a) \/ reconcileHealth(a) \/ DeliverApplication(a) \/ Users(a)
    \/ \E n \in Namespaces :
         DeliverNamespace(n) \/ TerminationCompletes(n) \/ UserCreatesNamespace(n)

Spec == Init /\ [][Next]_vars

(* The worker goes on, the queue gives every Application its turn, watches *)
(* deliver, and the cluster finishes the terminations it begins.           *)
Fairness ==
    /\ WF_vars(Worker)
    /\ \A a \in Apps : SF_vars(Reconcile(a)) /\ WF_vars(DeliverApplication(a))
    /\ \A n \in Namespaces :
         WF_vars(DeliverNamespace(n)) /\ WF_vars(TerminationCompletes(n))

FairSpec == Spec /\ Fairness
----------------------------------------------------------------------------
PCs == {"idle", "addFinalizer", "ensureNamespace", "createNamespace", "install",
        "recordApplied", "fail", "uninstall", "maybeDeleteNamespace",
        "otherApplications", "deleteNamespace", "removeFinalizer"}

(* Every variable keeps its type.                                          *)
TypeOK ==
    /\ apps \in [Apps -> Application] /\ appCache \in [Apps -> Application]
    /\ appLag \in [Apps -> Seq(Application)]
    /\ namespaces \in [Namespaces -> Namespace] /\ nsCache \in [Namespaces -> Namespace]
    /\ nsLag \in [Namespaces -> Seq(Namespace)]
    /\ releases \in SUBSET (Apps \X Namespaces) /\ interrupted \in SUBSET releases
    /\ pc \in PCs /\ current \in Apps \cup {None} /\ local \in Application
    /\ overtaken \in BOOLEAN /\ faults \in Nat

(* No Application loses its release to another one's deletion: while the   *)
(* status of a live Application says its current spec is applied, its      *)
(* release is stored in its target namespace, and that namespace is not    *)
(* being deleted.  Both caches may be stale when maybeDeleteNamespace      *)
(* reads them, and the Delete comes later still.                           *)
AppliedReleaseKept ==
    \A a \in Apps :
      Live(apps[a]) /\ apps[a].obs = apps[a].gen
        => /\ <<a, apps[a].target>> \in releases
           /\ namespaces[apps[a].target].st = "active"

(* Whoever targets a namespace that is just being collected waits and gets *)
(* a new one: once left alone, every live Application is applied, except   *)
(* where a crash in the middle of a Helm operation has left a revision     *)
(* pending, which Helm does not upgrade and the operator does not repair.  *)
EveryoneIsApplied ==
    \A a \in Apps :
      <>[](Live(apps[a]) /\ <<a, apps[a].target>> \notin interrupted
             => apps[a].obs = apps[a].gen)

(* maybeDeleteNamespace "deletes the target namespace only if the operator *)
(* created it (carries the managed-by annotation)".                        *)
DeletesOnlyOwnNamespaces ==
    [][\A n \in Namespaces :
         namespaces[n].st = "active" /\ namespaces'[n].st = "terminating"
           => namespaces[n].managed]_vars

(* What is left of that promise with a cache that is stale, or read before *)
(* the Delete: a namespace that is not the operator's is deleted only in   *)
(* the place of an earlier one, either still unknown to the cache to be    *)
(* gone, or known only since the running reconcile has read the cache.     *)
(* Those that were there before the operator, or whose name it never used, *)
(* are safe.                                                               *)
DeletesForeignOnlyByReuse ==
    [][\A n \in Namespaces :
         /\ namespaces[n].st = "active" /\ ~namespaces[n].managed
         /\ namespaces'[n].st = "terminating"
         => overtaken \/ \E i \in 1 .. Len(nsLag[n]) : nsLag[n][i].st = "absent"]_vars
=============================================================================
