---------------------------- MODULE HealthProofs ----------------------------
(***************************************************************************)
(* What a health check's verdict is worth, for manifests of any length and *)
(* workloads that change between any two reads.                            *)
(***************************************************************************)
EXTENDS ReleaseHealth, WellFoundedInduction, TLAPS

(* The workload to read next is one that is left to read.                  *)
LEMMA FirstIsMember ==
    ASSUME NEW S \in SUBSET Docs, S # {}
    PROVE  First(S) \in S
<1> DEFINE R == OpToRel(<, Nat)
<1>1. R = {p \in Nat \X Nat : p[1] < p[2]}
  BY DEF OpToRel
<1>2. S \subseteq Nat
  BY MaxDocsAssumption DEF Docs
<1>3. IsWellFoundedOn(R, Nat)
  BY NatLessThanWellFounded
<1> HIDE DEF R
<1>4. PICK x \in S : \A y \in S : ~(<<y, x>> \in R)
  BY <1>2, <1>3, WFMin
<1>5. \A y \in S : x <= y
  <2>1. SUFFICES ASSUME NEW y \in S, y < x
                 PROVE  FALSE
    BY <1>2
  <2>2. <<y, x>> \in Nat \X Nat /\ <<y, x>>[1] < <<y, x>>[2]
    BY <1>2, <2>1
  <2>3. <<y, x>> \in R
    BY <1>1, <2>2
  <2>4. QED
    BY <1>4, <2>3
<1>6. QED
  BY <1>5 DEF First
----------------------------------------------------------------------------
(* What a running check knows of the workloads it has seen.                *)
CheckInv ==
    /\ verdict # "Running" => todo = {}
    /\ ~changed => regressed = {}
    /\ verdict = "Running" /\ aggregate = "Current"
         => \A w \in Seen \ regressed : live[w] = "Current"
    /\ verdict = "Running" /\ ~changed
         => /\ \A w \in Seen : live[w] # "Failed"
            /\ aggregate = "InProgress" => \E w \in Seen : live[w] # "Current"

HealthInv == TypeOK /\ CheckInv /\ SteadyVerdictIsRule

LEMMA HealthInit == Init => HealthInv
BY DEF Init, HealthInv, TypeOK, CheckInv, SteadyVerdictIsRule, Verdicts

LEMMA HealthBegin ==
    ASSUME HealthInv, BeginCheck
    PROVE  HealthInv'
<1> USE DEF HealthInv
<1>1. TypeOK'
  BY DEF BeginCheck, TypeOK, Verdicts
<1>2. CheckInv'
  BY DEF BeginCheck, CheckInv, Seen
<1>3. SteadyVerdictIsRule'
  BY DEF BeginCheck, SteadyVerdictIsRule, Rule
<1>4. QED
  BY <1>1, <1>2, <1>3

LEMMA HealthRead ==
    ASSUME HealthInv, ReadWorkload
    PROVE  HealthInv'
<1> USE DEF HealthInv
<1> DEFINE w == First(todo)
           W == workloadsFromManifest(manifest)
<1>1. todo \in SUBSET Docs /\ todo # {} /\ todo \subseteq W
  BY DEF ReadWorkload, TypeOK, workloadsFromManifest
<1>2. w \in todo /\ w \in W
  BY <1>1, FirstIsMember
<1>3. TypeOK'
  BY <1>1 DEF ReadWorkload, TypeOK, Verdicts
<1>4. verdict = "Running" /\ UNCHANGED <<manifest, live, changed, regressed>>
  BY DEF ReadWorkload
<1>5. \/ /\ verdict' = "Error" /\ todo' = {}
      \/ /\ live[w] = "Failed" /\ verdict' = "Failed" /\ todo' = {}
      \/ /\ live[w] = "Current" /\ todo' = todo \ {w} /\ UNCHANGED <<verdict, aggregate>>
      \/ /\ live[w] \notin {"Failed", "Current"}
         /\ aggregate' = "InProgress" /\ todo' = todo \ {w} /\ UNCHANGED verdict
  BY DEF ReadWorkload
<1>6. W' = W
  BY <1>4 DEF workloadsFromManifest
<1> HIDE DEF w, W
<1>7. todo' = todo \ {w} => Seen' = Seen \cup {w}
  BY <1>2, <1>6 DEF Seen, W
<1>8. CheckInv'
  BY <1>4, <1>5, <1>7 DEF CheckInv
<1>9. SteadyVerdictIsRule'
  BY <1>2, <1>4, <1>5 DEF SteadyVerdictIsRule, Rule, W
<1>10. QED
  BY <1>3, <1>8, <1>9

LEMMA HealthReturn ==
    ASSUME HealthInv, ReturnAggregate
    PROVE  HealthInv'
<1> USE DEF HealthInv
<1>1. TypeOK'
  BY DEF ReturnAggregate, TypeOK, Verdicts
<1>2. CheckInv'
  BY DEF ReturnAggregate, CheckInv, TypeOK
<1>3. Seen = workloadsFromManifest(manifest)
  BY DEF ReturnAggregate, Seen
<1>4. SteadyVerdictIsRule'
  BY <1>3 DEF ReturnAggregate, SteadyVerdictIsRule, CheckInv, Rule, TypeOK
<1>5. QED
  BY <1>1, <1>2, <1>4

LEMMA HealthEnvironment ==
    ASSUME HealthInv, WorkloadChanges \/ NewRevision
    PROVE  HealthInv'
<1> USE DEF HealthInv
<1>1. CASE WorkloadChanges
  <2>1. PICK d \in Docs, s \in KStatus :
          /\ live' = [live EXCEPT ![d] = s]
          /\ regressed' = IF verdict = "Running" /\ d \in Seen /\ live[d] = "Current"
                          THEN regressed \cup {d} ELSE regressed
    BY <1>1 DEF WorkloadChanges
  <2>2. changed' = TRUE /\ UNCHANGED <<manifest, todo, aggregate, verdict>>
    BY <1>1 DEF WorkloadChanges, checkVars
  <2>3. TypeOK'
    BY <2>1, <2>2 DEF TypeOK, workloadsFromManifest
  <2>4. Seen' = Seen
    BY <2>2 DEF Seen, workloadsFromManifest
  <2>5. ASSUME verdict' = "Running", aggregate' = "Current"
        PROVE  \A w \in (Seen \ regressed)' : live'[w] = "Current"
    <3>1. \A w \in Seen \ regressed : live[w] = "Current"
      BY <2>2, <2>5 DEF CheckInv
    <3>2. \A w \in Seen \ regressed' : w \in Seen \ regressed /\ w # d
      BY <2>1, <2>2, <2>5, <3>1
    <3>3. \A w \in Seen \ regressed' : live'[w] = live[w]
      BY <2>1, <3>2 DEF TypeOK, Seen, workloadsFromManifest
    <3>4. QED
      BY <2>4, <3>1, <3>2, <3>3
  <2>6. CheckInv' /\ SteadyVerdictIsRule'
    BY <2>2, <2>5 DEF CheckInv, SteadyVerdictIsRule
  <2>7. QED
    BY <2>3, <2>6
<1>2. CASE NewRevision
  <2>1. TypeOK'
    BY <1>2 DEF NewRevision, TypeOK, CheckInv, Verdicts
  <2>2. CheckInv' /\ SteadyVerdictIsRule'
    BY <1>2 DEF NewRevision, CheckInv, SteadyVerdictIsRule
  <2>3. QED
    BY <2>1, <2>2
<1>3. QED
  BY <1>1, <1>2

LEMMA HealthNext == HealthInv /\ [Next]_vars => HealthInv'
<1>1. ASSUME HealthInv, UNCHANGED vars
      PROVE  HealthInv'
  BY <1>1 DEF HealthInv, vars, TypeOK, CheckInv, SteadyVerdictIsRule, Seen, Rule,
              workloadsFromManifest
<1>2. QED
  BY <1>1, HealthBegin, HealthRead, HealthReturn, HealthEnvironment DEF Next

(* What a running check knows, and what a finished one said, stays true.   *)
THEOREM HealthInvariant == Spec => []HealthInv
BY HealthInit, HealthNext, PTL DEF Spec

(* No check leaves the variables' types: the loop reads only workloads of  *)
(* the manifest it began with, and returns one of the three verdicts or an *)
(* error.                                                                  *)
THEOREM HealthTypes == Spec => []TypeOK
BY HealthInvariant, PTL DEF HealthInv

(* releaseHealth computes the documented rule whenever the workloads hold  *)
(* still while it looks, for every manifest.                               *)
THEOREM SteadyVerdict == Spec => []SteadyVerdictIsRule
BY HealthInvariant, PTL DEF HealthInv

(* A Current verdict is wrong only about workloads that went bad again     *)
(* after the check had read them as Current.                               *)
THEOREM CurrentVerdict == Spec => CurrentUnlessRegressed
<1>1. ASSUME HealthInv, [Next]_vars, verdict' = "Current", verdict # "Current"
      PROVE  \A w \in workloadsFromManifest(manifest') \ regressed' : live'[w] = "Current"
  <2>1. CASE BeginCheck
    BY <1>1, <2>1 DEF BeginCheck
  <2>2. CASE ReturnAggregate
    BY <1>1, <2>2 DEF ReturnAggregate, HealthInv, CheckInv, Seen
  <2>3. CASE ReadWorkload
    BY <1>1, <2>3 DEF ReadWorkload
  <2>4. CASE WorkloadChanges \/ NewRevision \/ UNCHANGED vars
    BY <1>1, <2>4 DEF WorkloadChanges, NewRevision, vars, checkVars
  <2>5. QED
    BY <1>1, <2>1, <2>2, <2>3, <2>4 DEF Next
<1>2. QED
  BY <1>1, HealthInvariant, PTL DEF Spec, CurrentUnlessRegressed

(* A Failed verdict is given at a moment when the release is Failed.       *)
THEOREM FailedVerdict == Spec => FailedIsWitnessed
<1>1. ASSUME HealthInv, [Next]_vars, verdict' = "Failed", verdict # "Failed"
      PROVE  Rule(manifest', live') = "Failed"
  <2>1. CASE ReadWorkload
    <3>1. todo \in SUBSET Docs /\ todo # {} /\ todo \subseteq workloadsFromManifest(manifest)
      BY <1>1, <2>1 DEF ReadWorkload, HealthInv, TypeOK, workloadsFromManifest
    <3>2. First(todo) \in workloadsFromManifest(manifest)
      BY <3>1, FirstIsMember
    <3>3. live[First(todo)] = "Failed" /\ UNCHANGED <<manifest, live>>
      BY <1>1, <2>1 DEF ReadWorkload
    <3>4. QED
      BY <3>2, <3>3 DEF Rule
  <2>2. CASE ReturnAggregate
    BY <1>1, <2>2 DEF ReturnAggregate, HealthInv, TypeOK
  <2>3. CASE BeginCheck
    BY <1>1, <2>3 DEF BeginCheck
  <2>4. CASE WorkloadChanges \/ NewRevision \/ UNCHANGED vars
    BY <1>1, <2>4 DEF WorkloadChanges, NewRevision, vars, checkVars
  <2>5. QED
    BY <1>1, <2>1, <2>2, <2>3, <2>4 DEF Next
<1>2. QED
  BY <1>1, HealthInvariant, PTL DEF Spec, FailedIsWitnessed
=============================================================================
