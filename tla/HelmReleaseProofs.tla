------------------------- MODULE HelmReleaseProofs -------------------------
(***************************************************************************)
(* What the operations on a release's history preserve, for histories of   *)
(* any size: they stay sets of releases, keep a newest revision, give the  *)
(* new revision the next number, never lose the one a rollback needs, and  *)
(* keep no more than the limit when they prune.                            *)
(***************************************************************************)
EXTENDS HelmRelease, FiniteSetTheorems, WellFoundedInduction, TLAPS

(* A history that holds anything has a newest revision.  (For a finite set *)
(* this is a fact of arithmetic; as an invariant it needs no induction.)   *)
HasNewest(h) == h # {} => \E r \in h : \A s \in h : s.rev <= r.rev

History == {h \in SUBSET Release : HasNewest(h)}

(* LastRev is 0 for no history, else the largest revision number.          *)
LEMMA LastRevProperties ==
    ASSUME NEW h \in History
    PROVE  /\ LastRev(h) \in Nat
           /\ \A r \in h : r.rev <= LastRev(h)
           /\ h # {} => \E r \in h : r.rev = LastRev(h)
<1>1. CASE h = {}
  BY <1>1 DEF LastRev
<1>2. CASE h # {}
  <2>1. PICK r \in h : \A s \in h : s.rev <= r.rev
    BY <1>2 DEF History, HasNewest
  <2>2. r.rev \in Revisions(h) /\ \A m \in Revisions(h) : m <= r.rev
    BY <2>1 DEF Revisions
  <2>3. LastRev(h) \in Revisions(h) /\ \A m \in Revisions(h) : m <= LastRev(h)
    BY <1>2, <2>2 DEF LastRev
  <2>4. QED
    BY <2>3, <1>2 DEF Revisions, History, Release
<1>3. QED
  BY <1>1, <1>2

(* Changing statuses changes neither the numbers nor whether there are any.*)
LEMMA SetStatusProperties ==
    ASSUME NEW h \in History, NEW S, NEW st \in ReleaseStatus
    PROVE  /\ SetStatus(h, S, st) \in History
           /\ SetStatus(h, S, st) = {} <=> h = {}
<1> DEFINE f(r) == IF r \in S THEN [r EXCEPT !.st = st] ELSE r
<1>1. \A r \in h : f(r) \in Release /\ f(r).rev = r.rev
  BY DEF History, Release
<1>2. SetStatus(h, S, st) = {f(r) : r \in h}
  BY DEF SetStatus
<1>3. HasNewest(SetStatus(h, S, st))
  <2>1. SUFFICES ASSUME h # {}
                 PROVE  \E r \in {f(q) : q \in h} : \A s \in {f(q) : q \in h} : s.rev <= r.rev
    BY <1>2 DEF HasNewest
  <2>2. PICK r \in h : \A s \in h : s.rev <= r.rev
    BY <2>1 DEF History, HasNewest
  <2>3. \A s \in {f(q) : q \in h} : s.rev <= f(r).rev
    BY <1>1, <2>2
  <2>4. QED
    BY <2>3
<1>4. QED
  BY <1>1, <1>2, <1>3 DEF History

(* A history that gets a revision numbered beyond all it keeps.            *)
LEMMA ExtendHistory ==
    ASSUME NEW h \in History, NEW k \in SUBSET h,
           NEW new \in Release, new.rev = LastRev(h) + 1
    PROVE  k \cup {new} \in History /\ k \cup {new} # {}
<1>1. \A r \in k \cup {new} : r.rev <= new.rev
  BY LastRevProperties DEF History, Release
<1>2. QED
  BY <1>1 DEF History, HasNewest

(* InstallOrUpgrade stores a well-formed, non-empty history.               *)
LEMMA BeginApplyProperties ==
    ASSUME NEW h \in History, NEW c \in Charts, NEW v \in Values \cup {NoValues}
    PROVE  BeginApply(h, c, v) \in History /\ BeginApply(h, c, v) # {}
<1>1. CASE h = {}
  <2> DEFINE new == [rev |-> 1, chart |-> c, values |-> v, st |-> "pending-install"]
  <2>1. new \in Release /\ new.rev = 1
    BY DEF Release, ReleaseStatus, PendingStatus
  <2>2. LastRev(h) = 0
    BY <1>1 DEF LastRev
  <2>3. BeginApply(h, c, v) = {} \cup {new}
    BY <1>1 DEF BeginApply, releaseExists
  <2> HIDE DEF new
  <2>4. {} \in SUBSET h /\ new.rev = LastRev(h) + 1
    BY <2>1, <2>2
  <2>5. QED
    BY <2>1, <2>3, <2>4, ExtendHistory
<1>2. CASE h # {}
  <2> DEFINE new == [rev |-> LastRev(h) + 1, chart |-> c, values |-> v,
                     st |-> "pending-upgrade"]
             k == RemoveLeastRecent(h, MaxHistory - 1)
  <2>1. new \in Release /\ new.rev = LastRev(h) + 1
    BY LastRevProperties DEF Release, ReleaseStatus, PendingStatus
  <2>2. k \in SUBSET h
    BY DEF RemoveLeastRecent
  <2>3. BeginApply(h, c, v) = k \cup {new}
    BY <1>2 DEF BeginApply, releaseExists
  <2> HIDE DEF new, k
  <2>4. QED
    BY <2>1, <2>2, <2>3, ExtendHistory
<1>3. QED
  BY <1>1, <1>2

LEMMA FinishApplyProperties ==
    ASSUME NEW h \in History
    PROVE  FinishApply(h) \in History /\ (FinishApply(h) = {} <=> h = {})
<1> DEFINE k == SetStatus(h, Replaced(h), "superseded")
<1>1. "superseded" \in ReleaseStatus /\ "deployed" \in ReleaseStatus
  BY DEF ReleaseStatus
<1>2. k \in History /\ (k = {} <=> h = {})
  BY <1>1, SetStatusProperties
<1>3. FinishApply(h) = SetStatus(k, {Get(h)}, "deployed")
  BY DEF FinishApply
<1> HIDE DEF k
<1>4. QED
  BY <1>1, <1>2, <1>3, SetStatusProperties

LEMMA FailApplyProperties ==
    ASSUME NEW h \in History
    PROVE  FailApply(h) \in History /\ (FailApply(h) = {} <=> h = {})
BY SetStatusProperties DEF FailApply, ReleaseStatus

LEMMA BeginRollbackProperties ==
    ASSUME NEW h \in History
    PROVE  BeginRollback(h) \in History /\ (BeginRollback(h) = {} <=> h = {})
<1> DEFINE copy(t) == [t EXCEPT !.rev = LastRev(h) + 1, !.st = "pending-rollback"]
           N == {copy(t) : t \in RollbackTarget(h)}
<1>1. \A t \in RollbackTarget(h) : copy(t) \in Release /\ copy(t).rev = LastRev(h) + 1
  <2>1. LastRev(h) \in Nat
    BY LastRevProperties
  <2>2. RollbackTarget(h) \subseteq Release
    BY DEF RollbackTarget, History
  <2>3. LastRev(h) + 1 \in Nat \ {0} /\ "pending-rollback" \in ReleaseStatus
    BY <2>1 DEF ReleaseStatus, PendingStatus
  <2>4. QED
    BY <2>2, <2>3 DEF Release
<1>2. BeginRollback(h) = h \cup N
  BY DEF BeginRollback
<1>3. \A n \in N : n \in Release /\ n.rev = LastRev(h) + 1
  BY <1>1
<1>4. N # {} => h # {}
  BY DEF RollbackTarget
<1> HIDE DEF N
<1>5. HasNewest(h \cup N)
  <2>1. CASE N = {}
    BY <2>1 DEF History
  <2>2. CASE N # {}
    <3>1. PICK n \in N : TRUE
      BY <2>2
    <3>2. \A r \in h \cup N : r.rev <= n.rev
      BY <1>3, <3>1, LastRevProperties DEF History, Release
    <3>3. QED
      BY <3>1, <3>2 DEF HasNewest
  <2>3. QED
    BY <2>1, <2>2
<1>6. QED
  BY <1>2, <1>3, <1>4, <1>5 DEF History

LEMMA FinishRollbackProperties ==
    ASSUME NEW h \in History
    PROVE  FinishRollback(h) \in History /\ (FinishRollback(h) = {} <=> h = {})
<1> DEFINE k == SetStatus(h, Deployed(h), "superseded")
<1>1. "superseded" \in ReleaseStatus /\ "deployed" \in ReleaseStatus
  BY DEF ReleaseStatus
<1>2. k \in History /\ (k = {} <=> h = {})
  BY <1>1, SetStatusProperties
<1>3. FinishRollback(h) = SetStatus(k, {Get(h)}, "deployed")
  BY DEF FinishRollback
<1> HIDE DEF k
<1>4. QED
  BY <1>1, <1>2, <1>3, SetStatusProperties

LEMMA FailRollbackProperties ==
    ASSUME NEW h \in History
    PROVE  FailRollback(h) \in History /\ (FailRollback(h) = {} <=> h = {})
<1> DEFINE k == SetStatus(h, {r \in h : r.rev = LastRev(h) - 1}, "superseded")
<1>1. "superseded" \in ReleaseStatus /\ "failed" \in ReleaseStatus
  BY DEF ReleaseStatus
<1>2. k \in History /\ (k = {} <=> h = {})
  BY <1>1, SetStatusProperties
<1>3. FailRollback(h) = SetStatus(k, {Get(h)}, "failed")
  BY DEF FailRollback
<1> HIDE DEF k
<1>4. QED
  BY <1>1, <1>2, <1>3, SetStatusProperties

LEMMA UninstallProperties ==
    ASSUME NEW h \in History
    PROVE  /\ FinishUninstall(h) = {} /\ FinishUninstall(h) \in History
           /\ FailUninstall(h) \in History /\ (FailUninstall(h) = {} <=> h = {})
<1>1. "uninstalling" \in ReleaseStatus
  BY DEF ReleaseStatus
<1>2. {} \in History
  BY DEF History, HasNewest
<1>3. QED
  BY <1>1, <1>2, SetStatusProperties DEF FinishUninstall, FailUninstall

----------------------------------------------------------------------------
(* The revision a rollback aims at.                                        *)

SoundHistory(h) == h \in History /\ IsFiniteSet(h) /\ WellNumbered(h) /\ TargetRetained(h)

LEMMA LastRevIs ==
    ASSUME NEW h \in History, NEW r \in h, \A s \in h : s.rev <= r.rev
    PROVE  LastRev(h) = r.rev
<1>1. PICK q \in h : q.rev = LastRev(h)
  BY LastRevProperties
<1>2. r.rev <= LastRev(h) /\ LastRev(h) <= r.rev
  BY <1>1, LastRevProperties
<1>3. r.rev \in Nat /\ LastRev(h) \in Nat
  BY LastRevProperties DEF History, Release
<1> QED  BY <1>2, <1>3

LEMMA EmptyIsSound == SoundHistory({})
<1>1. {} \in History /\ IsFiniteSet({})
  BY FS_EmptySet DEF History, HasNewest
<1> QED  BY <1>1 DEF SoundHistory, WellNumbered, TargetRetained, LastRev

LEMMA SetStatusIsSound ==
    ASSUME NEW h, SoundHistory(h), NEW S, NEW st \in ReleaseStatus
    PROVE  SoundHistory(SetStatus(h, S, st))
<1> DEFINE f == [r \in h |-> IF r \in S THEN [r EXCEPT !.st = st] ELSE r]
           T == SetStatus(h, S, st)
<1>1. h \in History /\ \A r \in h : f[r].rev = r.rev
  BY DEF SoundHistory, History, Release
<1>2. T = {f[r] : r \in h}
  BY DEF SetStatus
<1>3. T \in History /\ (T = {} <=> h = {})
  BY <1>1, SetStatusProperties
<1> HIDE DEF T
<1>4. IsFiniteSet(T)
  <2>1. f \in Surjection(h, T)
    BY <1>2 DEF Surjection
  <2> QED  BY <2>1, FS_Surjection DEF SoundHistory
<1>5. WellNumbered(T)
  <2>1. ASSUME NEW q \in h, NEW r \in h, f[q].rev = f[r].rev PROVE f[q] = f[r]
    <3>1. q = r
      BY <1>1, <2>1 DEF SoundHistory, WellNumbered
    <3> QED  BY <3>1
  <2> HIDE DEF f
  <2> QED  BY <1>2, <2>1 DEF WellNumbered
<1>6. TargetRetained(T)
  <2>1. CASE h = {}
    BY <1>3, <2>1 DEF TargetRetained, LastRev
  <2>2. CASE h # {}
    <3>1. PICK r \in h : r.rev = LastRev(h) /\ \A q \in h : q.rev <= r.rev
      BY <1>1, <2>2, LastRevProperties
    <3>2. f[r] \in T /\ \A q \in T : q.rev <= f[r].rev
      BY <1>1, <1>2, <3>1
    <3>3. LastRev(T) = LastRev(h)
      BY <1>1, <1>3, <3>1, <3>2, LastRevIs
    <3>4. ASSUME NEW q \in RollbackTarget(h) PROVE f[q] \in RollbackTarget(T)
      BY <1>1, <1>2, <3>3 DEF RollbackTarget
    <3> QED  BY <3>3, <3>4 DEF SoundHistory, TargetRetained
  <2> QED  BY <2>1, <2>2
<1> QED  BY <1>3, <1>4, <1>5, <1>6 DEF SoundHistory, T

(* Making room spares the newest revision: at most one older one, the last *)
(* deployed, is spared before its turn.                                    *)
LEMMA NewestIsKept ==
    ASSUME NEW h, SoundHistory(h), NEW r \in h, r.rev = LastRev(h),
           NEW max \in Nat, max >= 2
    PROVE  r \in RemoveLeastRecent(h, max)
<1> DEFINE kept    == {q \in Deployed(h) : \A d \in Deployed(h) : d.rev <= q.rev}
           victims == h \ kept
           older   == {v \in victims : v.rev < r.rev}
<1>1. /\ h \in History /\ IsFiniteSet(h) /\ WellNumbered(h)
      /\ \A q \in h : q.rev \in Nat
  BY DEF SoundHistory, History, Release
<1>2. Deployed(h) \subseteq h /\ kept \subseteq h
  BY DEF Deployed
<1>3. kept = {} \/ \E k \in h : kept = {k}
  <2>1. ASSUME NEW k \in kept, NEW q \in kept PROVE q = k
    <3>1. k \in h /\ q \in h /\ k.rev <= q.rev /\ q.rev <= k.rev
      BY <1>2, <2>1
    <3>2. k.rev = q.rev
      BY <1>1, <3>1
    <3> QED  BY <1>1, <3>1, <3>2 DEF WellNumbered
  <2> QED  BY <1>2, <2>1
<1>4. Cardinality(h) \in Nat /\ IsFiniteSet(victims)
      /\ Cardinality(victims) \in Nat /\ Cardinality(victims) >= Cardinality(h) - 1
  <2>1. Cardinality(h) \in Nat
    BY <1>1, FS_CardinalityType
  <2>2. CASE kept = {}
    <3>1. victims = h
      BY <2>2
    <3>2. Cardinality(h) >= Cardinality(h) - 1
      BY <2>1
    <3> HIDE DEF victims
    <3> QED  BY <1>1, <2>1, <3>1, <3>2
  <2>3. ASSUME NEW k \in h, kept = {k}
        PROVE  /\ IsFiniteSet(victims) /\ Cardinality(victims) = Cardinality(h) - 1
               /\ Cardinality(victims) \in Nat
    <3>1. victims = h \ {k}
      BY <2>3
    <3>2. IsFiniteSet(h \ {k}) /\ Cardinality(h \ {k}) = Cardinality(h) - 1
      BY <1>1, FS_RemoveElement
    <3>3. Cardinality(h \ {k}) \in Nat
      BY <3>2, FS_CardinalityType
    <3> QED  BY <3>1, <3>2, <3>3
  <2> QED  BY <1>3, <2>1, <2>2, <2>3
<1>5. CASE r \in victims
  <2>1. older = victims \ {r}
    <3>1. ASSUME NEW v \in victims, v # r PROVE v.rev < r.rev
      <4>1. v \in h /\ v.rev # r.rev
        BY <1>1, <3>1 DEF WellNumbered
      <4>2. v.rev <= r.rev
        BY <1>1, <4>1, LastRevProperties
      <4> QED  BY <1>1, <4>1, <4>2
    <3>2. ~(r.rev < r.rev)
      BY <1>1
    <3> QED  BY <3>1, <3>2
  <2>2. Cardinality(older) = Cardinality(victims) - 1
    <3> HIDE DEF older, victims
    <3>1. Cardinality(victims \ {r}) = Cardinality(victims) - 1
      BY <1>4, <1>5, FS_RemoveElement
    <3> QED  BY <2>1, <3>1
  <2>3. ~(Cardinality(older) < Cardinality(h) - max)
    <3> DEFINE a == Cardinality(older)
               b == Cardinality(victims)
               c == Cardinality(h)
    <3>1. a = b - 1 /\ b \in Nat /\ c \in Nat /\ b >= c - 1
      BY <1>4, <2>2
    <3> HIDE DEF a, b, c
    <3>2. ~(a < c - max)
      BY <3>1
    <3> QED  BY <3>2 DEF a, c
  <2> QED  BY <2>3 DEF RemoveLeastRecent
<1>6. CASE r \notin victims
  BY <1>6 DEF RemoveLeastRecent
<1> QED  BY <1>5, <1>6

LEMMA ExtensionIsSound ==
    ASSUME NEW h, SoundHistory(h), NEW k \in SUBSET h,
           NEW new \in Release, new.rev = LastRev(h) + 1,
           h # {} => \E r \in k : r.rev = LastRev(h)
    PROVE  SoundHistory(k \cup {new})
<1>1. /\ h \in History /\ k \cup {new} \in History /\ LastRev(h) \in Nat
      /\ \A r \in h : r.rev \in Nat /\ r.rev <= LastRev(h)
  BY ExtendHistory, LastRevProperties DEF SoundHistory, History, Release
<1>2. IsFiniteSet(k \cup {new})
  BY FS_Subset, FS_AddElement DEF SoundHistory
<1>3. WellNumbered(k \cup {new})
  BY <1>1 DEF SoundHistory, WellNumbered
<1>4. LastRev(k \cup {new}) = new.rev
  <2>1. \A r \in k \cup {new} : r.rev <= new.rev
    BY <1>1
  <2> QED  BY <1>1, <2>1, LastRevIs
<1>5. TargetRetained(k \cup {new})
  <2> SUFFICES ASSUME LastRev(k \cup {new}) > 1 PROVE RollbackTarget(k \cup {new}) # {}
    BY DEF TargetRetained
  <2>1. LastRev(h) # 0
    BY <1>1, <1>4
  <2>2. h # {}
    BY <2>1 DEF LastRev
  <2>3. PICK r \in k : r.rev = LastRev(h)
    BY <2>2
  <2>4. r.rev = LastRev(k \cup {new}) - 1
    BY <1>1, <1>4, <2>3
  <2> QED  BY <2>4 DEF RollbackTarget
<1> QED  BY <1>1, <1>2, <1>3, <1>5 DEF SoundHistory

LEMMA BeginApplyIsSound ==
    ASSUME NEW h, SoundHistory(h), NEW c \in Charts, NEW v \in Values \cup {NoValues}
    PROVE  SoundHistory(BeginApply(h, c, v))
<1>a. h \in History /\ LastRev(h) \in Nat
  BY LastRevProperties DEF SoundHistory
<1>1. CASE h = {}
  <2> DEFINE new == [rev |-> 1, chart |-> c, values |-> v, st |-> "pending-install"]
  <2>1. new \in Release /\ new.rev = LastRev(h) + 1
    BY <1>1 DEF Release, ReleaseStatus, PendingStatus, LastRev
  <2>2. BeginApply(h, c, v) = {} \cup {new}
    BY <1>1 DEF BeginApply, releaseExists
  <2> HIDE DEF new
  <2>3. SoundHistory({} \cup {new})
    BY <1>1, <2>1, ExtensionIsSound
  <2> QED  BY <2>2, <2>3
<1>2. CASE h # {}
  <2> DEFINE new == [rev |-> LastRev(h) + 1, chart |-> c, values |-> v,
                     st |-> "pending-upgrade"]
             k == RemoveLeastRecent(h, MaxHistory - 1)
  <2>1. new \in Release /\ new.rev = LastRev(h) + 1
    BY <1>a DEF Release, ReleaseStatus, PendingStatus
  <2>2. BeginApply(h, c, v) = k \cup {new} /\ k \in SUBSET h
    BY <1>2 DEF BeginApply, releaseExists, RemoveLeastRecent
  <2>3. \E r \in k : r.rev = LastRev(h)
    <3>1. PICK r \in h : r.rev = LastRev(h)
      BY <1>2, <1>a, LastRevProperties
    <3>2. MaxHistory - 1 \in Nat /\ MaxHistory - 1 >= 2
      BY MaxHistoryAssumption
    <3> QED  BY <3>1, <3>2, NewestIsKept
  <2> HIDE DEF new, k
  <2> QED  BY <2>1, <2>2, <2>3, ExtensionIsSound
<1> QED  BY <1>1, <1>2

LEMMA BeginRollbackIsSound ==
    ASSUME NEW h, SoundHistory(h) PROVE SoundHistory(BeginRollback(h))
<1>1. h \in History /\ LastRev(h) \in Nat
  BY LastRevProperties DEF SoundHistory
<1>2. CASE RollbackTarget(h) = {}
  <2>1. BeginRollback(h) = h
    BY <1>2 DEF BeginRollback
  <2> QED  BY <2>1
<1>3. ASSUME NEW t \in RollbackTarget(h) PROVE SoundHistory(BeginRollback(h))
  <2> DEFINE new == [t EXCEPT !.rev = LastRev(h) + 1, !.st = "pending-rollback"]
  <2>1. t \in h /\ t \in Release
    BY <1>1 DEF RollbackTarget, History
  <2>2. RollbackTarget(h) = {t}
    BY <1>3 DEF RollbackTarget, SoundHistory, WellNumbered
  <2>3. BeginRollback(h) = h \cup {new}
    BY <2>2 DEF BeginRollback
  <2>4. LastRev(h) + 1 \in Nat \ {0} /\ "pending-rollback" \in ReleaseStatus
    BY <1>1 DEF ReleaseStatus, PendingStatus
  <2>5. new \in Release /\ new.rev = LastRev(h) + 1
    BY <2>1, <2>4 DEF Release
  <2>6. h # {} => \E r \in h : r.rev = LastRev(h)
    BY <1>1, LastRevProperties
  <2> HIDE DEF new
  <2> QED  BY <2>3, <2>5, <2>6, ExtensionIsSound
<1> QED  BY <1>2, <1>3

(* Every operation the reconciler calls leaves the history sound.          *)
LEMMA OperationsAreSound ==
    ASSUME NEW h, SoundHistory(h)
    PROVE  /\ \A c \in Charts, v \in Values \cup {NoValues} : SoundHistory(BeginApply(h, c, v))
           /\ SoundHistory(FinishApply(h)) /\ SoundHistory(FailApply(h))
           /\ SoundHistory(BeginRollback(h)) /\ SoundHistory(FinishRollback(h))
           /\ SoundHistory(FailRollback(h)) /\ SoundHistory(FailUninstall(h))
           /\ SoundHistory(FinishUninstall(h))
<1>1. {"superseded", "deployed", "failed", "uninstalling"} \subseteq ReleaseStatus
  BY DEF ReleaseStatus
<1>2. SoundHistory(FinishApply(h)) /\ SoundHistory(FailApply(h))
  BY <1>1, SetStatusIsSound DEF FinishApply, FailApply
<1>3. SoundHistory(FinishRollback(h)) /\ SoundHistory(FailRollback(h))
  BY <1>1, SetStatusIsSound DEF FinishRollback, FailRollback
<1>4. SoundHistory(FailUninstall(h)) /\ SoundHistory(FinishUninstall(h))
  BY <1>1, SetStatusIsSound, EmptyIsSound DEF FailUninstall, FinishUninstall
<1> QED  BY <1>2, <1>3, <1>4, BeginApplyIsSound, BeginRollbackIsSound

----------------------------------------------------------------------------
(* What Get returns.                                                       *)

LEMMA GetIs ==
    ASSUME NEW h, SoundHistory(h), NEW r \in h, \A s \in h : s.rev <= r.rev
    PROVE  Get(h) = r
<1>1. r.rev = LastRev(h)
  BY LastRevIs DEF SoundHistory
<1>2. \A q \in h : q.rev = LastRev(h) => q = r
  BY <1>1 DEF SoundHistory, WellNumbered
<1> QED  BY <1>1, <1>2 DEF Get

LEMMA GetProperties ==
    ASSUME NEW h, SoundHistory(h), h # {}
    PROVE  Get(h) \in h /\ \A s \in h : s.rev <= Get(h).rev
<1>1. PICK r \in h : r.rev = LastRev(h) /\ \A s \in h : s.rev <= r.rev
  BY LastRevProperties DEF SoundHistory
<1> QED  BY <1>1, GetIs

(* The chart and the values of two revisions are the same.                 *)
SameContent(q, r) == q.chart = r.chart /\ q.values = r.values

(* A change of statuses does not change what the newest revision runs.     *)
LEMMA SetStatusKeepsContent ==
    ASSUME NEW h, SoundHistory(h), h # {}, NEW S, NEW st \in ReleaseStatus
    PROVE  /\ SameContent(Get(SetStatus(h, S, st)), Get(h))
           /\ SetStatus(h, S, st) # {}
<1> DEFINE f(r) == IF r \in S THEN [r EXCEPT !.st = st] ELSE r
           T == SetStatus(h, S, st)
<1>1. \A r \in h : f(r).rev = r.rev /\ SameContent(f(r), r)
  BY DEF SoundHistory, History, Release, SameContent
<1>2. T = {f(r) : r \in h}
  BY DEF SetStatus
<1>3. SoundHistory(T)
  BY SetStatusIsSound
<1> HIDE DEF T
<1>4. f(Get(h)) \in T /\ \A q \in T : q.rev <= f(Get(h)).rev
  BY <1>1, <1>2, GetProperties
<1>5. Get(T) = f(Get(h))
  BY <1>3, <1>4, GetIs
<1> QED  BY <1>1, <1>4, <1>5, GetProperties DEF T

(* After InstallOrUpgrade the newest revision runs what it was given.      *)
LEMMA BeginApplyContent ==
    ASSUME NEW h, SoundHistory(h), NEW c \in Charts, NEW v \in Values \cup {NoValues}
    PROVE  Get(BeginApply(h, c, v)).chart = c /\ Get(BeginApply(h, c, v)).values = v
<1> DEFINE B == BeginApply(h, c, v)
<1>1. SoundHistory(B)
  BY BeginApplyIsSound
<1>2. \E r \in B : r.chart = c /\ r.values = v /\ \A s \in B : s.rev <= r.rev
  <2>1. CASE h = {}
    BY <2>1 DEF BeginApply, releaseExists
  <2>2. CASE h # {}
    <3> DEFINE new == [rev |-> LastRev(h) + 1, chart |-> c, values |-> v,
                       st |-> "pending-upgrade"]
               k == RemoveLeastRecent(h, MaxHistory - 1)
    <3>1. B = k \cup {new} /\ k \subseteq h
      BY <2>2 DEF BeginApply, releaseExists, RemoveLeastRecent
    <3>2. new.rev = LastRev(h) + 1 /\ new.chart = c /\ new.values = v
      OBVIOUS
    <3> HIDE DEF new, k, B
    <3>3. LastRev(h) \in Nat /\ \A s \in h : s.rev \in Nat /\ s.rev <= LastRev(h)
      BY LastRevProperties DEF SoundHistory, History, Release
    <3>4. \A s \in B : s.rev <= new.rev
      BY <3>1, <3>2, <3>3
    <3> QED  BY <3>1, <3>2, <3>4
  <2> QED  BY <2>1, <2>2
<1> QED  BY <1>1, <1>2, GetIs

LEMMA OperationsKeepContent ==
    ASSUME NEW h, SoundHistory(h), h # {}
    PROVE  \A k \in {FinishApply(h), FailApply(h), FinishRollback(h), FailRollback(h),
                     FailUninstall(h)} :
             SameContent(Get(k), Get(h))
<1>1. {"superseded", "deployed", "failed", "uninstalling"} \subseteq ReleaseStatus
  BY DEF ReleaseStatus
<1>2. ASSUME NEW S, NEW U, NEW st \in {"deployed", "failed"}
      PROVE  SameContent(Get(SetStatus(SetStatus(h, S, "superseded"), U, st)), Get(h))
  <2> DEFINE k == SetStatus(h, S, "superseded")
  <2>1. SoundHistory(k) /\ k # {} /\ SameContent(Get(k), Get(h))
    BY <1>1, SetStatusIsSound, SetStatusKeepsContent
  <2> HIDE DEF k
  <2>2. SameContent(Get(SetStatus(k, U, st)), Get(k))
    BY <1>1, <2>1, SetStatusKeepsContent
  <2> QED  BY <2>1, <2>2 DEF k, SameContent
<1>3. SameContent(Get(FinishApply(h)), Get(h)) /\ SameContent(Get(FinishRollback(h)), Get(h))
      /\ SameContent(Get(FailRollback(h)), Get(h))
  BY <1>2 DEF FinishApply, FinishRollback, FailRollback
<1>4. SameContent(Get(FailApply(h)), Get(h)) /\ SameContent(Get(FailUninstall(h)), Get(h))
  BY <1>1, SetStatusKeepsContent DEF FailApply, FailUninstall
<1> QED  BY <1>3, <1>4
----------------------------------------------------------------------------
(* How large a history gets.                                               *)

(* A set of numbers that has any has a least one.                          *)
LEMMA LeastNumber ==
    ASSUME NEW T, T \subseteq Nat, T # {} PROVE \E x \in T : \A y \in T : x <= y
<1> DEFINE R == OpToRel(<, Nat)
<1>1. IsWellFoundedOn(R, Nat)
  BY NatLessThanWellFounded
<1>2. \A x, y \in Nat : x < y => <<x, y>> \in R
  BY DEF OpToRel
<1> HIDE DEF R
<1>3. PICK x \in T : \A y \in T : ~ (<<y, x>> \in R)
  BY <1>1, WFMin
<1>4. \A y \in T : ~ (y < x)
  BY <1>2, <1>3
<1> QED  BY <1>4, SMT

(* Making room brings a history down to the limit: all that are older than *)
(* the oldest one spared go, unless only the last deployed one is spared.  *)
LEMMA RoomIsMade ==
    ASSUME NEW h, SoundHistory(h), NEW max \in Nat, max >= 1
    PROVE  Cardinality(RemoveLeastRecent(h, max)) <= max
<1> DEFINE kept     == {q \in Deployed(h) : \A d \in Deployed(h) : d.rev <= q.rev}
           victims  == h \ kept
           Older(r) == {v \in victims : v.rev < r.rev}
           gone     == {r \in victims : Cardinality(Older(r)) < Cardinality(h) - max}
           spared   == victims \ gone
<1>1. /\ IsFiniteSet(h) /\ Cardinality(h) \in Nat /\ WellNumbered(h)
      /\ \A q \in h : q.rev \in Nat
  BY FS_CardinalityType DEF SoundHistory, History, Release
<1>2. kept \subseteq h /\ gone \subseteq h /\ victims \subseteq h
  BY DEF Deployed
<1>3. RemoveLeastRecent(h, max) = h \ gone
  BY DEF RemoveLeastRecent
<1>4. CASE spared = {}
  <2>1. ASSUME NEW k \in kept, NEW q \in kept PROVE q = k
    <3>1. k \in h /\ q \in h /\ k.rev <= q.rev /\ q.rev <= k.rev
      BY <1>2, <2>1
    <3>2. k.rev = q.rev
      BY <1>1, <3>1
    <3> QED  BY <1>1, <3>1, <3>2 DEF WellNumbered
  <2>2. kept = {} \/ \E k \in kept : kept = {k}
    BY <2>1
  <2>3. h \ gone = {} \/ \E k : h \ gone = {k} \/ h \ gone = {}
    BY <1>4, <2>2
  <2> HIDE DEF kept, gone
  <2>4. Cardinality(h \ gone) \in {0, 1}
    BY <2>3, FS_EmptySet, FS_Singleton
  <2> QED  BY <1>3, <2>4
<1>5. CASE spared # {}
  <2> DEFINE N == {r.rev : r \in spared}
  <2>1. PICK r \in spared : \A q \in spared : r.rev <= q.rev
    <3>1. N \subseteq Nat /\ N # {}
      BY <1>1, <1>2, <1>5
    <3>2. PICK x \in N : \A y \in N : x <= y
      BY <3>1, LeastNumber
    <3> HIDE DEF spared
    <3>3. PICK r \in spared : r.rev = x
      BY <3>2
    <3>4. \A q \in spared : r.rev <= q.rev
      BY <3>2, <3>3
    <3> QED  BY <3>4
  <2>2. Older(r) \subseteq gone
    BY <1>1, <2>1
  <2>3. IsFiniteSet(gone) /\ Cardinality(Older(r)) <= Cardinality(gone)
    <3> HIDE DEF Older, gone
    <3> QED  BY <1>1, <1>2, <2>2, FS_Subset
  <2>4. ~(Cardinality(Older(r)) < Cardinality(h) - max)
    BY <2>1
  <2>5. Cardinality(Older(r)) \in Nat /\ Cardinality(gone) \in Nat
    <3> HIDE DEF Older, gone
    <3> QED  BY <2>2, <2>3, FS_Subset, FS_CardinalityType
  <2>6. Cardinality(h \ gone) = Cardinality(h) - Cardinality(gone)
    <3>1. h \cap gone = gone
      BY <1>2
    <3> HIDE DEF gone
    <3> QED  BY <1>1, <3>1, FS_Difference
  <2>7. Cardinality(h \ gone) <= max
    <3> DEFINE a == Cardinality(Older(r))
               b == Cardinality(gone)
               c == Cardinality(h)
    <3>1. a \in Nat /\ b \in Nat /\ c \in Nat /\ a <= b /\ ~(a < c - max)
      BY <1>1, <2>3, <2>4, <2>5
    <3> HIDE DEF a, b, c
    <3>2. c - b <= max
      BY <3>1
    <3> QED  BY <2>6, <3>2 DEF b, c
  <2> QED  BY <1>3, <2>7
<1> QED  BY <1>4, <1>5

LEMMA SetStatusBound ==
    ASSUME NEW h, SoundHistory(h), NEW S, NEW st
    PROVE  /\ IsFiniteSet(SetStatus(h, S, st))
           /\ Cardinality(SetStatus(h, S, st)) <= Cardinality(h)
<1> DEFINE f == [r \in h |-> IF r \in S THEN [r EXCEPT !.st = st] ELSE r]
           T == SetStatus(h, S, st)
<1>1. f \in Surjection(h, T)
  BY DEF Surjection, SetStatus
<1> HIDE DEF f, T
<1>2. IsFiniteSet(T) /\ Cardinality(T) <= Cardinality(h)
  BY <1>1, FS_Surjection DEF SoundHistory
<1> QED  BY <1>2 DEF T

(* An install or upgrade leaves at most MaxHistory revisions, a rollback   *)
(* adds at most one, and nothing else adds any.                            *)
LEMMA BeginApplyBound ==
    ASSUME NEW h, SoundHistory(h), NEW c \in Charts, NEW v \in Values \cup {NoValues}
    PROVE  Cardinality(BeginApply(h, c, v)) <= MaxHistory
<1>1. CASE h = {}
  <2> DEFINE new == [rev |-> 1, chart |-> c, values |-> v, st |-> "pending-install"]
  <2>1. BeginApply(h, c, v) = {new}
    BY <1>1 DEF BeginApply, releaseExists
  <2> HIDE DEF new
  <2>2. Cardinality({new}) = 1
    BY FS_Singleton
  <2> QED  BY <2>1, <2>2, MaxHistoryAssumption
<1>2. CASE h # {}
  <2> DEFINE new == [rev |-> LastRev(h) + 1, chart |-> c, values |-> v,
                     st |-> "pending-upgrade"]
             k == RemoveLeastRecent(h, MaxHistory - 1)
  <2>1. BeginApply(h, c, v) = k \cup {new} /\ k \in SUBSET h
    BY <1>2 DEF BeginApply, releaseExists, RemoveLeastRecent
  <2>2. MaxHistory - 1 \in Nat /\ MaxHistory - 1 >= 1
    BY MaxHistoryAssumption
  <2>3. Cardinality(k) <= MaxHistory - 1
    BY <2>2, RoomIsMade
  <2> HIDE DEF new, k
  <2>4. IsFiniteSet(k) /\ Cardinality(k) \in Nat
    BY <2>1, FS_Subset, FS_CardinalityType DEF SoundHistory
  <2>5. Cardinality(k \cup {new}) \in {Cardinality(k), Cardinality(k) + 1}
    BY <2>4, FS_AddElement
  <2>6. Cardinality(k) <= MaxHistory /\ Cardinality(k) + 1 <= MaxHistory
    BY <2>3, <2>4, MaxHistoryAssumption
  <2> QED  BY <2>1, <2>5, <2>6
<1> QED  BY <1>1, <1>2

LEMMA BeginRollbackBound ==
    ASSUME NEW h, SoundHistory(h)
    PROVE  Cardinality(BeginRollback(h)) <= Cardinality(h) + 1
<1>1. IsFiniteSet(h) /\ Cardinality(h) \in Nat
  BY FS_CardinalityType DEF SoundHistory
<1>2. CASE RollbackTarget(h) = {}
  <2>1. BeginRollback(h) = h
    BY <1>2 DEF BeginRollback
  <2> QED  BY <1>1, <2>1
<1>3. ASSUME NEW t \in RollbackTarget(h)
      PROVE  Cardinality(BeginRollback(h)) <= Cardinality(h) + 1
  <2> DEFINE new == [t EXCEPT !.rev = LastRev(h) + 1, !.st = "pending-rollback"]
  <2>1. RollbackTarget(h) = {t}
    BY <1>3 DEF RollbackTarget, SoundHistory, WellNumbered
  <2>2. BeginRollback(h) = h \cup {new}
    BY <2>1 DEF BeginRollback
  <2> HIDE DEF new
  <2>3. Cardinality(h \cup {new}) \in {Cardinality(h), Cardinality(h) + 1}
    BY <1>1, FS_AddElement
  <2> QED  BY <1>1, <2>2, <2>3
<1> QED  BY <1>2, <1>3

LEMMA OperationsBound ==
    ASSUME NEW h, SoundHistory(h)
    PROVE  \A k \in {FinishApply(h), FailApply(h), FinishRollback(h), FailRollback(h),
                     FailUninstall(h), FinishUninstall(h)} :
             Cardinality(k) <= Cardinality(h)
<1>1. {"superseded", "deployed", "failed", "uninstalling"} \subseteq ReleaseStatus
  BY DEF ReleaseStatus
<1>2. ASSUME NEW S, NEW U, NEW st
      PROVE  Cardinality(SetStatus(SetStatus(h, S, "superseded"), U, st)) <= Cardinality(h)
  <2> DEFINE k == SetStatus(h, S, "superseded")
             l == SetStatus(k, U, st)
  <2>1. SoundHistory(k) /\ Cardinality(k) <= Cardinality(h)
    BY <1>1, SetStatusIsSound, SetStatusBound
  <2> HIDE DEF k
  <2>2. Cardinality(l) <= Cardinality(k) /\ IsFiniteSet(l)
    BY <2>1, SetStatusBound
  <2> HIDE DEF l
  <2>3. Cardinality(h) \in Nat /\ Cardinality(k) \in Nat /\ Cardinality(l) \in Nat
    BY <2>1, <2>2, FS_CardinalityType DEF SoundHistory
  <2>4. Cardinality(l) <= Cardinality(h)
    BY <2>1, <2>2, <2>3
  <2> QED  BY <2>4 DEF k, l
<1>3. /\ Cardinality(FinishApply(h)) <= Cardinality(h)
      /\ Cardinality(FinishRollback(h)) <= Cardinality(h)
      /\ Cardinality(FailRollback(h)) <= Cardinality(h)
  BY <1>2 DEF FinishApply, FinishRollback, FailRollback
<1>4. /\ Cardinality(FailApply(h)) <= Cardinality(h)
      /\ Cardinality(FailUninstall(h)) <= Cardinality(h)
  BY SetStatusBound DEF FailApply, FailUninstall
<1>5. Cardinality(FinishUninstall(h)) <= Cardinality(h)
  <2>1. Cardinality({}) = 0 /\ Cardinality(h) \in Nat
    BY FS_EmptySet, FS_CardinalityType DEF SoundHistory
  <2> QED  BY <2>1 DEF FinishUninstall
<1> QED  BY <1>3, <1>4, <1>5

LEMMA SetStatusKeepsLastRev ==
    ASSUME NEW h, SoundHistory(h), NEW S, NEW st \in ReleaseStatus
    PROVE  LastRev(SetStatus(h, S, st)) = LastRev(h)
<1> DEFINE f(r) == IF r \in S THEN [r EXCEPT !.st = st] ELSE r
           T == SetStatus(h, S, st)
<1>1. h \in History /\ \A r \in h : f(r).rev = r.rev
  BY DEF SoundHistory, History, Release
<1>2. T = {f(r) : r \in h}
  BY DEF SetStatus
<1>3. T \in History /\ (T = {} <=> h = {})
  BY <1>1, SetStatusProperties
<1> HIDE DEF T
<1>4. CASE h = {}
  BY <1>3, <1>4 DEF LastRev, T
<1>5. CASE h # {}
  <2>1. PICK r \in h : r.rev = LastRev(h) /\ \A q \in h : q.rev <= r.rev
    BY <1>1, <1>5, LastRevProperties
  <2>2. f(r) \in T /\ \A q \in T : q.rev <= f(r).rev
    BY <1>1, <1>2, <2>1
  <2>3. LastRev(T) = f(r).rev
    BY <1>3, <2>2, LastRevIs
  <2> QED  BY <1>1, <2>1, <2>3 DEF T
<1> QED  BY <1>4, <1>5

(* Numbers are never taken back, except by an uninstall.                   *)
LEMMA OperationsKeepLastRev ==
    ASSUME NEW h, SoundHistory(h)
    PROVE  /\ \A k \in {FinishApply(h), FailApply(h), FinishRollback(h), FailRollback(h),
                        FailUninstall(h)} : LastRev(k) = LastRev(h)
           /\ \A c \in Charts, v \in Values \cup {NoValues} :
                LastRev(BeginApply(h, c, v)) >= LastRev(h)
           /\ LastRev(BeginRollback(h)) >= LastRev(h)
<1>1. {"superseded", "deployed", "failed", "uninstalling"} \subseteq ReleaseStatus
  BY DEF ReleaseStatus
<1>2. ASSUME NEW S, NEW U, NEW st \in {"deployed", "failed"}
      PROVE  LastRev(SetStatus(SetStatus(h, S, "superseded"), U, st)) = LastRev(h)
  <2> DEFINE k == SetStatus(h, S, "superseded")
  <2>1. SoundHistory(k) /\ LastRev(k) = LastRev(h)
    BY <1>1, SetStatusIsSound, SetStatusKeepsLastRev
  <2> HIDE DEF k
  <2>2. LastRev(SetStatus(k, U, st)) = LastRev(k)
    BY <1>1, <2>1, SetStatusKeepsLastRev
  <2> QED  BY <2>1, <2>2 DEF k
<1>3. /\ LastRev(FinishApply(h)) = LastRev(h) /\ LastRev(FinishRollback(h)) = LastRev(h)
      /\ LastRev(FailRollback(h)) = LastRev(h)
  BY <1>2 DEF FinishApply, FinishRollback, FailRollback
<1>4. LastRev(FailApply(h)) = LastRev(h) /\ LastRev(FailUninstall(h)) = LastRev(h)
  BY <1>1, SetStatusKeepsLastRev DEF FailApply, FailUninstall
<1>5. ASSUME NEW k, SoundHistory(k), h # {} => \E r \in k : r.rev = LastRev(h)
      PROVE  LastRev(k) >= LastRev(h)
  <2>1. LastRev(k) \in Nat /\ \A r \in k : r.rev <= LastRev(k)
    BY <1>5, LastRevProperties DEF SoundHistory
  <2>2. h = {} => LastRev(h) = 0
    BY DEF LastRev
  <2> QED  BY <1>5, <2>1, <2>2
<1>6. ASSUME h # {} PROVE \E r \in h : r.rev = LastRev(h)
  BY <1>6, LastRevProperties DEF SoundHistory
<1>7. ASSUME NEW c \in Charts, NEW v \in Values \cup {NoValues}
      PROVE  LastRev(BeginApply(h, c, v)) >= LastRev(h)
  <2>1. h # {} => \E r \in BeginApply(h, c, v) : r.rev = LastRev(h)
    <3> SUFFICES ASSUME h # {} PROVE \E r \in BeginApply(h, c, v) : r.rev = LastRev(h)
      OBVIOUS
    <3>1. PICK r \in h : r.rev = LastRev(h)
      BY <1>6
    <3>2. MaxHistory - 1 \in Nat /\ MaxHistory - 1 >= 2
      BY MaxHistoryAssumption
    <3>3. r \in RemoveLeastRecent(h, MaxHistory - 1)
      BY <3>1, <3>2, NewestIsKept
    <3> QED  BY <3>1, <3>3 DEF BeginApply, releaseExists
  <2> QED  BY <1>5, <2>1, BeginApplyIsSound
<1>8. LastRev(BeginRollback(h)) >= LastRev(h)
  BY <1>5, <1>6, BeginRollbackIsSound DEF BeginRollback
<1> QED  BY <1>3, <1>4, <1>7, <1>8
=============================================================================
