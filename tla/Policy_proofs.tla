---------------------------- MODULE Policy_proofs ----------------------------
(***************************************************************************)
(* What plan_acquire's answers are worth, for any roles, sizes, cards and  *)
(* snapshots: a plan makes room and its victims are the due ones, and a    *)
(* refusal could not have been a plan.  Planner_proofs and Broker_proofs   *)
(* build on these lemmas.                                                  *)
(***************************************************************************)
EXTENDS Policy, FiniteSetTheorems, WellFoundedInduction, TLAPS

(* Lemmas about Python's sum() over a set of roles.                        *)
LEMMA SumMono ==
    ASSUME NEW T \in SUBSET Role, NEW S \in SUBSET T PROVE SumMb[S] <= SumMb[T]
  <1>1. S \cap (T \ S) = {} /\ S \cup (T \ S) = T
    OBVIOUS
  <1>2. SumMb[T] = SumMb[S] + SumMb[T \ S]
    BY <1>1, SumAssumption
  <1> QED
    BY <1>2, SumAssumption

LEMMA SumApart ==
    ASSUME NEW S \in SUBSET Role, NEW T \in SUBSET Role, S \cap T = {}
    PROVE  /\ SumMb[S] \in Nat /\ SumMb[T] \in Nat
           /\ SumMb[S \cup T] = SumMb[S] + SumMb[T]
  BY SumAssumption

LEMMA CardMono ==
    ASSUME NEW g, NEW T \in SUBSET Role, NEW S \in SUBSET T
    PROVE  SumMb[OnCard(S, g)] <= SumMb[OnCard(T, g)]
  <1>1. OnCard(T, g) \in SUBSET Role /\ OnCard(S, g) \in SUBSET OnCard(T, g)
    BY DEF OnCard
  <1> QED
    BY <1>1, SumMono
-----------------------------------------------------------------------------
(* The roles are finitely many, so a set of sets of them has a smallest    *)
(* member, one that no other is a proper part of.                          *)
LEMMA SmallestSet ==
    ASSUME NEW Sets, Sets \subseteq SUBSET Role, Sets # {}
    PROVE  \E V \in Sets : \A W \in Sets : W \subseteq V => W = V
  <1>1. FiniteSubsetsOf(Role) = SUBSET Role
    BY FiniteAssumption, FS_Subset, FS_FiniteSubsetsOfFinite
  <1>2. IsWellFoundedOn(StrictSubsetOrdering(Role), SUBSET Role)
    BY <1>1, FS_StrictSubsetOrderingWellFounded
  <1>3. PICK V \in Sets : \A W \in Sets : ~(<<W, V>> \in StrictSubsetOrdering(Role))
    BY <1>2, WFMin, Zenon
  <1>4. ASSUME NEW W \in Sets, W \subseteq V PROVE W = V
    BY <1>3, <1>4 DEF StrictSubsetOrdering
  <1> QED
    BY <1>4

(* Among some workers there is one that no other was used after.           *)
LEMMA NewestOf ==
    ASSUME NEW W \in SUBSET Role, NEW older, ClockOrder(W, older),
           NEW V \in SUBSET W, V # {}
    PROVE  \E last \in V : \A v \in V : <<last, v>> \notin older
  <1> DEFINE After(v) == {w \in V : <<v, w>> \in older}
             Sets == {After(v) : v \in V}
  <1>1. PICK A \in Sets : \A B \in Sets : B \subseteq A => B = A
    <2>1. Sets \subseteq SUBSET Role /\ Sets # {}
      OBVIOUS
    <2> HIDE DEF Sets
    <2> QED
      BY <2>1, SmallestSet
  <1>2. PICK last \in V : A = After(last)
    OBVIOUS
  <1>3. ASSUME NEW v \in V, <<last, v>> \in older PROVE FALSE
    <2>1. v \notin After(v)
      BY DEF ClockOrder
    <2>2. After(v) \subseteq After(last)
      BY <1>3 DEF ClockOrder
    <2>3. After(v) \in Sets /\ v \in After(last)
      BY <1>3
    <2> QED
      BY <1>1, <1>2, <2>1, <2>2, <2>3
  <1> QED
    BY <1>3
-----------------------------------------------------------------------------
(* The victims of the LRU loop are candidates that no older candidate is   *)
(* kept beside, and they free what is missing.                             *)
LEMMA VictimsKind ==
    ASSUME NEW snap, IsSnapshot(snap), NEW r \in Role, NEW V \in LruVictims(snap, r)
    PROVE  /\ V \subseteq LruCandidates(snap, r)
           /\ IsLruPrefix(snap, V, LruCandidates(snap, r))
           /\ LoadedMb[r] - FreeAfterHardMb(snap, r) <= SumMb[V]
  <1>1. CASE LoadedMb[r] - FreeAfterHardMb(snap, r) <= 0
    BY <1>1, SumAssumption DEF LruVictims, IsLruPrefix
  <1>2. CASE ~(LoadedMb[r] - FreeAfterHardMb(snap, r) <= 0)
    BY <1>2 DEF LruVictims
  <1> QED
    BY <1>1, <1>2

(* The books of r's card, seen from a snapshot.                            *)
LEMMA CardBooks ==
    ASSUME NEW snap, IsSnapshot(snap), NEW r \in Role, GpuOf[r] # NoGpu
    PROVE  /\ LoadedMb[r] \in Nat
           /\ FreeMb(snap, GpuOf[r]) \in Int
           /\ SumMb[OnCard(FilterEvictable(snap, r), GpuOf[r])] \in Nat
           /\ LoadedMb[r] - FreeAfterHardMb(snap, r) \in Int
  <1> DEFINE g == GpuOf[r]
  <1>1. LoadedMb[r] \in Nat /\ Budget[g] \in Nat
    BY ConfigAssumption DEF RoleTable
  <1>2. /\ OnCard(snap.workers, g) \in SUBSET Role /\ OnCard(snap.starting, g) \in SUBSET Role
        /\ OnCard(FilterEvictable(snap, r), g) \in SUBSET Role
    BY DEF IsSnapshot, OnCard, FilterEvictable
  <1>3. /\ SumMb[OnCard(snap.workers, g)] \in Nat /\ SumMb[OnCard(snap.starting, g)] \in Nat
        /\ SumMb[OnCard(FilterEvictable(snap, r), g)] \in Nat
    BY <1>2, SumAssumption
  <1> QED
    BY <1>1, <1>3 DEF FreeMb, UsedMb, FreeAfterHardMb

(* If all the candidates together free enough, the loop stops at some      *)
(* prefix of them.                                                         *)
LEMMA EnoughFound ==
    ASSUME NEW snap, IsSnapshot(snap), NEW r \in Role, GpuOf[r] # NoGpu,
           SumMb[LruCandidates(snap, r)] >= LoadedMb[r] - FreeAfterHardMb(snap, r)
    PROVE  LruVictims(snap, r) # {}
  <1> DEFINE C == LruCandidates(snap, r)
             missing == LoadedMb[r] - FreeAfterHardMb(snap, r)
             Enough == {V \in SUBSET C : IsLruPrefix(snap, V, C) /\ SumMb[V] >= missing}
  <1>1. CASE missing <= 0
    BY <1>1 DEF LruVictims
  <1>2. CASE ~(missing <= 0)
    <2>1. C \in SUBSET Role /\ C \in SUBSET snap.workers
      BY DEF IsSnapshot, LruCandidates, OnCard
    <2>2. C \in Enough
      BY DEF IsLruPrefix
    <2>3. PICK V \in Enough : \A W \in Enough : W \subseteq V => W = V
      <3>1. Enough \subseteq SUBSET Role /\ Enough # {}
        BY <2>1, <2>2
      <3> HIDE DEF Enough, C
      <3> QED
        BY <3>1, SmallestSet
    <2>4. V \in SUBSET C /\ IsLruPrefix(snap, V, C) /\ SumMb[V] >= missing
      OBVIOUS
    <2>5. V # {}
      BY <1>2, <2>4, SumAssumption
    <2>6. PICK last \in V : \A v \in V : <<last, v>> \notin snap.older
      BY <2>1, <2>4, <2>5, NewestOf DEF IsSnapshot
    <2>7. IsLruPrefix(snap, V \ {last}, C)
      BY <2>4, <2>6 DEF IsLruPrefix
    <2>8. V \ {last} \notin Enough
      BY <2>3, <2>6
    <2>9. SumMb[V \ {last}] < missing
      <3>1. ~(SumMb[V \ {last}] >= missing)
        BY <2>4, <2>7, <2>8
      <3>2. V \ {last} \in SUBSET Role
        BY <2>1, <2>4
      <3>3. SumMb[V \ {last}] \in Nat
        BY <3>2, SumAssumption
      <3>4. missing \in Int
        BY CardBooks
      <3> HIDE DEF missing
      <3> QED
        BY <3>1, <3>3, <3>4
    <2>10. V \in LruVictims(snap, r)
      BY <1>2, <2>4, <2>6, <2>7, <2>9 DEF LruVictims
    <2> QED
      BY <2>10
  <1> QED
    BY <1>1, <1>2
-----------------------------------------------------------------------------
(* A plan for a role that is not resident, taken apart.                    *)
LEMMA ColdPlan ==
    ASSUME NEW snap, NEW r \in Role, r \notin snap.workers, NEW pl \in PlanAcquire(snap, r)
    PROVE  /\ GpuOf[r] \in Gpu /\ GpuOf[r] # NoGpu
           /\ \E V \in LruVictims(snap, r) :
                 pl = MakePlan(snap, r, FilterEvictable(snap, r) \cup V, {r})
  BY ConfigAssumption DEF PlanAcquire

(* Once the victims are gone the target fits on its own card.              *)
LEMMA PlanMakesRoom ==
    ASSUME NEW snap, IsSnapshot(snap), NEW r \in Role, r \notin snap.workers,
           NEW pl \in PlanAcquire(snap, r)
    PROVE  MakesRoom(snap, r, pl.evict)
  <1> DEFINE g == GpuOf[r]
             Hard == OnCard(FilterEvictable(snap, r), g)
             Old == OnCard(snap.workers, g)
             New == OnCard(snap.workers \ pl.evict, g)
             Due == OnCard(snap.starting, g)
             Left == [snap EXCEPT !.workers = @ \ pl.evict]
  <1>1. PICK V \in LruVictims(snap, r) :
           pl = MakePlan(snap, r, FilterEvictable(snap, r) \cup V, {r})
    BY ColdPlan
  <1>2. pl.evict = FilterEvictable(snap, r) \cup V
    BY <1>1 DEF MakePlan
  <1>3. V \subseteq LruCandidates(snap, r)
    BY VictimsKind
  <1>4. LoadedMb[r] - FreeAfterHardMb(snap, r) <= SumMb[V]
    BY VictimsKind
  <1>5. /\ V \in SUBSET Role /\ Hard \in SUBSET Role /\ New \in SUBSET Role
        /\ Due \in SUBSET Role
        /\ V \cap Hard = {} /\ (Hard \cup V) \cap New = {}
        /\ Old = (Hard \cup V) \cup New
    BY <1>2, <1>3 DEF IsSnapshot, OnCard, FilterEvictable, LruCandidates
  <1>6. UsedMb(snap, g) = SumMb[Old] + SumMb[Due]
    BY DEF UsedMb
  <1>7. UsedMb(Left, g) = SumMb[New] + SumMb[Due]
    <2>1. Left.workers = snap.workers \ pl.evict /\ Left.starting = snap.starting
      BY DEF IsSnapshot
    <2> QED
      BY <2>1 DEF UsedMb
  <1>8. Budget[g] \in Nat /\ LoadedMb[r] \in Nat
    BY ColdPlan, ConfigAssumption DEF RoleTable
  <1>9. SumMb[Hard] \in Nat /\ SumMb[V] \in Nat /\ SumMb[New] \in Nat /\ SumMb[Due] \in Nat
    BY <1>5, SumAssumption
  <1>10. SumMb[Old] = SumMb[Hard] + SumMb[V] + SumMb[New]
    <2> HIDE DEF Hard, Old, New
    <2>1. SumMb[Old] = SumMb[Hard \cup V] + SumMb[New]
      BY <1>5, SumApart
    <2>2. SumMb[Hard \cup V] = SumMb[Hard] + SumMb[V]
      BY <1>5, SumApart
    <2> QED
      BY <2>1, <2>2
  <1>11. FreeAfterHardMb(snap, r) = Budget[g] - (SumMb[Old] + SumMb[Due]) + SumMb[Hard]
    BY <1>6 DEF FreeAfterHardMb, FreeMb
  <1>12. FreeMb(Left, g) = Budget[g] - (SumMb[New] + SumMb[Due])
    BY <1>7 DEF FreeMb
  <1> HIDE DEF g, Hard, Old, New, Due, Left
  <1>13. FreeMb(Left, g) >= LoadedMb[r]
    BY <1>4, <1>8, <1>9, <1>10, <1>11, <1>12
  <1> QED
    BY <1>13 DEF g, Left, MakesRoom

(* The victims are those the hard evictions name and a prefix of the least *)
(* recently used, none pinned, none held but by an eviction's name.        *)
LEMMA PlanIsDue ==
    ASSUME NEW snap, IsSnapshot(snap), NEW r \in Role, NEW pl \in PlanAcquire(snap, r)
    PROVE  /\ pl.evict \subseteq snap.workers
           /\ AreDue(snap, r, pl.evict)
  <1>1. CASE r \in snap.workers
    <2>1. pl.evict = {}
      BY <1>1 DEF PlanAcquire, MakePlan
    <2> QED
      BY <2>1 DEF AreDue
  <1>2. CASE r \notin snap.workers
    <2>1. PICK V \in LruVictims(snap, r) :
             pl = MakePlan(snap, r, FilterEvictable(snap, r) \cup V, {r})
      BY <1>2, ColdPlan
    <2>2. pl.evict = FilterEvictable(snap, r) \cup V
      BY <2>1 DEF MakePlan
    <2>3. V \subseteq LruCandidates(snap, r) /\ IsLruPrefix(snap, V, LruCandidates(snap, r))
      BY VictimsKind
    <2> QED
      BY <1>2, <2>2, <2>3 DEF AreDue, FilterEvictable, LruCandidates, IsLruPrefix, OnCard
  <1> QED
    BY <1>1, <1>2

(* No refusal could have been avoided by stopping more of what may be      *)
(* stopped on the target's card.                                           *)
LEMMA RefusalIsFinal ==
    ASSUME NEW snap, IsSnapshot(snap), NEW r \in Enabled, PlanAcquire(snap, r) = {},
           GpuOf[r] # NoGpu
    PROVE  Hopeless(snap, r)
  <1> DEFINE g == GpuOf[r]
             Stoppable == {w \in OnCard(snap.workers, g) \ snap.pinned :
                              w \in snap.held => w \in EvictOn[r]}
             Hard == OnCard(FilterEvictable(snap, r), g)
             C == LruCandidates(snap, r)
  <1>0. r \in Role
    BY ConfigAssumption DEF RoleTable
  <1>1. r \notin snap.workers /\ LruVictims(snap, r) = {}
    BY DEF PlanAcquire
  <1>2. /\ Hard \in SUBSET Role /\ C \in SUBSET Role /\ Hard \cap C = {}
        /\ Stoppable = Hard \cup C
    BY <1>1 DEF IsSnapshot, OnCard, FilterEvictable, LruCandidates
  <1>3. LoadedMb[r] \in Nat /\ FreeMb(snap, g) \in Int
    BY <1>0, CardBooks
  <1>4. ~(SumMb[C] >= LoadedMb[r] - FreeAfterHardMb(snap, r))
    BY <1>0, <1>1, EnoughFound
  <1>5. FreeAfterHardMb(snap, r) = FreeMb(snap, g) + SumMb[Hard]
    BY DEF FreeAfterHardMb
  <1>6. FreeMb(snap, g) + SumMb[Stoppable] < LoadedMb[r]
    <2> HIDE DEF g, Hard, C, Stoppable
    <2>1. SumMb[Hard] \in Nat /\ SumMb[C] \in Nat /\ SumMb[Stoppable] = SumMb[Hard] + SumMb[C]
      BY <1>2, SumApart
    <2> QED
      BY <1>3, <1>4, <1>5, <2>1
  <1> QED
    BY <1>6 DEF Hopeless
=============================================================================
