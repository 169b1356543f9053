---------------------------- MODULE Planner_proofs ----------------------------
(***************************************************************************)
(* Theorems about every plan there is: Planner starts from any snapshot    *)
(* State can be in, and its loop over a sorted list is the source's.       *)
(***************************************************************************)
EXTENDS Planner, Policy_proofs

(* The question and its answer.                                            *)
Asked ==
    asked # NoRole =>
        /\ asked \in Enabled /\ asked \in Role
        /\ refused <=> PlanAcquire(st, asked) = {}
        /\ ~refused => plan \in PlanAcquire(st, asked)

AInv == IsSnapshot(st) /\ Asked

(* Whatever the times of last use, "before" is an order a clock can make.  *)
LEMMA RanksOrder ==
    ASSUME NEW W \in SUBSET Role, NEW older \in Orders(W) PROVE ClockOrder(W, older)
  <1>1. PICK rank \in [W -> 1 .. Cardinality(W)] : older = OrderBy(W, rank)
    BY DEF Orders
  <1>2. Cardinality(W) \in Nat
    BY FiniteAssumption, FS_Subset, FS_CardinalityType
  <1>3. \A w \in W : rank[w] \in Int
    BY <1>2
  <1> QED
    BY <1>1, <1>3 DEF OrderBy, ClockOrder

(* And the other way round: rank a worker by how many were used before it. *)
LEMMA OrderHasRanks ==
    ASSUME NEW W \in SUBSET Role, NEW older, ClockOrder(W, older) PROVE older \in Orders(W)
  <1> DEFINE Before(w) == {v \in W : <<v, w>> \in older}
             rank == [w \in W |-> Cardinality(Before(w)) + 1]
  <1>1. IsFiniteSet(W) /\ Cardinality(W) \in Nat
    BY FiniteAssumption, FS_Subset, FS_CardinalityType
  <1>2. ASSUME NEW w \in W
        PROVE  /\ IsFiniteSet(Before(w)) /\ Cardinality(Before(w)) \in Nat
               /\ rank[w] \in 1 .. Cardinality(W)
    <2>1. Before(w) \in SUBSET W /\ w \notin Before(w)
      BY DEF ClockOrder
    <2> HIDE DEF Before
    <2>2. IsFiniteSet(Before(w)) /\ Cardinality(Before(w)) <= Cardinality(W)
      BY <1>1, <2>1, FS_Subset
    <2>3. Cardinality(Before(w)) # Cardinality(W)
      BY <1>1, <2>1, FS_Subset
    <2>4. Cardinality(Before(w)) \in Nat
      BY <2>2, FS_CardinalityType
    <2> QED
      BY <1>1, <2>2, <2>3, <2>4
  <1>3. ASSUME NEW a \in W, NEW b \in W, <<a, b>> \in older PROVE rank[a] < rank[b]
    <2>1. Before(a) \in SUBSET Before(b) /\ Before(a) # Before(b)
      <3>1. <<b, a>> \notin older /\ <<a, a>> \notin older
        BY <1>3 DEF ClockOrder
      <3>2. ASSUME NEW v \in W, <<v, a>> \in older PROVE <<v, b>> \in older
        BY <3>1, <3>2 DEF ClockOrder
      <3>3. a \in Before(b) /\ a \notin Before(a)
        BY <1>3, <3>1
      <3> QED
        BY <3>2, <3>3
    <2>2. Cardinality(Before(a)) < Cardinality(Before(b))
      <3> HIDE DEF Before
      <3>1. /\ Cardinality(Before(a)) <= Cardinality(Before(b))
            /\ Cardinality(Before(a)) # Cardinality(Before(b))
        BY <1>2, <2>1, FS_Subset
      <3> QED
        BY <1>2, <3>1
    <2> HIDE DEF Before
    <2> QED
      BY <1>2, <2>2
  <1>4. ASSUME NEW a \in W, NEW b \in W, <<a, b>> \notin older PROVE ~(rank[a] < rank[b])
    <2>1. Before(b) \in SUBSET Before(a)
      BY <1>4 DEF ClockOrder
    <2>2. Cardinality(Before(b)) <= Cardinality(Before(a))
      <3> HIDE DEF Before
      <3> QED
        BY <1>2, <2>1, FS_Subset
    <2> HIDE DEF Before
    <2> QED
      BY <1>2, <2>2
  <1>5. rank \in [W -> 1 .. Cardinality(W)]
    BY <1>2
  <1> HIDE DEF rank
  <1>6. older = OrderBy(W, rank)
    BY <1>3, <1>4 DEF OrderBy, ClockOrder
  <1> QED
    BY <1>5, <1>6 DEF Orders

(* Planner asks about exactly the snapshots that State can be in.          *)
THEOREM EverySnapshot ==
    Init <=> IsSnapshot(st) /\ asked = NoRole /\ refused = FALSE /\ plan = NoPlan
  <1>1. ASSUME Init PROVE IsSnapshot(st)
    <2>1. PICK W \in SUBSET Role : \E S \in SUBSET (Role \ W), P \in SUBSET Role,
                                      H \in SUBSET Role, o \in Orders(W) :
             st = [workers |-> W, starting |-> S, pinned |-> P, held |-> H, older |-> o]
      BY <1>1 DEF Init
    <2>2. PICK S \in SUBSET (Role \ W), P \in SUBSET Role, H \in SUBSET Role, o \in Orders(W) :
             st = [workers |-> W, starting |-> S, pinned |-> P, held |-> H, older |-> o]
      BY <2>1
    <2>3. ClockOrder(W, o)
      BY RanksOrder
    <2>4. o \in SUBSET (Role \X Role)
      BY <2>3 DEF ClockOrder
    <2>5. /\ st.workers = W /\ st.starting = S /\ st.older = o
          /\ st \in [workers : SUBSET Role, starting : SUBSET Role, pinned : SUBSET Role,
                     held : SUBSET Role, older : SUBSET (Role \X Role)]
      BY <2>2, <2>4
    <2> QED
      BY <2>3, <2>5 DEF IsSnapshot
  <1>2. ASSUME IsSnapshot(st), asked = NoRole, refused = FALSE, plan = NoPlan PROVE Init
    <2>1. st.older \in Orders(st.workers)
      BY <1>2, OrderHasRanks DEF IsSnapshot
    <2>2. /\ st.workers \in SUBSET Role /\ st.starting \in SUBSET (Role \ st.workers)
          /\ st.pinned \in SUBSET Role /\ st.held \in SUBSET Role
          /\ st = [workers |-> st.workers, starting |-> st.starting, pinned |-> st.pinned,
                   held |-> st.held, older |-> st.older]
      BY <1>2 DEF IsSnapshot
    <2> QED
      BY <1>2, <2>1, <2>2 DEF Init
  <1> QED
    BY <1>1, <1>2 DEF Init

LEMMA AskedHolds == Spec => []AInv
  <1>1. Init => AInv
    BY EverySnapshot DEF AInv, Asked
  <1>2. AInv /\ [Next]_<<st, asked, refused, plan>> => AInv'
    <2> SUFFICES ASSUME AInv, [Next]_<<st, asked, refused, plan>> PROVE AInv'
      OBVIOUS
    <2>1. st' = st
      BY DEF Next, Ask
    <2>2. IsSnapshot(st)'
      BY <2>1 DEF AInv, IsSnapshot, ClockOrder
    <2>3. ASSUME NEW r \in Role, Ask(r) PROVE Asked'
      BY <2>1, <2>3, ConfigAssumption DEF Ask, Asked
    <2>4. CASE UNCHANGED <<st, asked, refused, plan>>
      BY <2>2, <2>4, Zenon DEF AInv, Asked
    <2> QED
      BY <2>2, <2>3, <2>4 DEF AInv, Next
  <1> QED
    BY <1>1, <1>2, PTL DEF Spec
-----------------------------------------------------------------------------
(* Once the victims are gone the target fits on its own card.              *)
THEOREM PlansFit == Spec => []PlanFits
  <1>1. AInv => PlanFits
    BY PlanMakesRoom DEF AInv, Asked, Cold, PlanFits
  <1> QED
    BY <1>1, AskedHolds, PTL

(* The victims are those the hard evictions name and a prefix of the least *)
(* recently used, none pinned, none held but by an eviction's name.        *)
THEOREM VictimsDue == Spec => []EvictionsDue
  <1>1. AInv => EvictionsDue
    BY PlanIsDue DEF AInv, Asked, Cold, EvictionsDue
  <1> QED
    BY <1>1, AskedHolds, PTL

(* No refusal could have been avoided by stopping more of what may be      *)
(* stopped on the target's card.                                           *)
THEOREM RefusalsJustified == Spec => []RefusalJustified
  <1>1. AInv => RefusalJustified
    BY RefusalIsFinal DEF AInv, Asked, Cold, RefusalJustified
  <1> QED
    BY <1>1, AskedHolds, PTL
-----------------------------------------------------------------------------
(* Lists that the sort can make.                                           *)

LEMMA SortedKind ==
    ASSUME NEW older, NEW S \in SUBSET Role, NEW s \in SortedLists(older, S)
    PROVE  /\ Cardinality(S) \in Nat
           /\ DOMAIN s = 1 .. Cardinality(S)
           /\ \A i \in DOMAIN s : s[i] \in S
           /\ \A x \in S : \E i \in DOMAIN s : s[i] = x
           /\ \A i, j \in DOMAIN s : s[i] = s[j] => i = j
           /\ \A i, j \in DOMAIN s : i < j => <<s[j], s[i]>> \notin older
  BY FiniteAssumption, FS_Subset, FS_CardinalityType
  DEF SortedLists, Bijection, Injection, Surjection, IsInjective

(* s and then t.                                                           *)
Joined(s, p, t, q) == [i \in 1 .. p + q |-> IF i <= p THEN s[i] ELSE t[i - p]]

(* Nothing in T is in S, or was used before anything in S.                 *)
Follows(older, S, T) == S \cap T = {} /\ \A x \in S, y \in T : <<y, x>> \notin older

(* A sorted list can be carried on with roles that follow.                 *)
LEMMA SortedExtends ==
    ASSUME NEW older, NEW S \in SUBSET Role, NEW T \in SUBSET Role, Follows(older, S, T),
           NEW s \in SortedLists(older, S), SortedLists(older, T) # {}
    PROVE  \E u \in SortedLists(older, S \cup T) :
              \A n \in 0 .. Cardinality(S) : Firsts(u, n) = Firsts(s, n)
  <1> USE DEF Follows
  <1>0. PICK t \in SortedLists(older, T) : TRUE
    OBVIOUS
  <1> DEFINE p == Cardinality(S)
             q == Cardinality(T)
             u == Joined(s, p, t, q)
  <1>1. /\ p \in Nat /\ DOMAIN s = 1 .. p
        /\ \A i \in DOMAIN s : s[i] \in S
        /\ \A x \in S : \E i \in DOMAIN s : s[i] = x
        /\ \A i, j \in DOMAIN s : s[i] = s[j] => i = j
        /\ \A i, j \in DOMAIN s : i < j => <<s[j], s[i]>> \notin older
    BY SortedKind
  <1>2. /\ q \in Nat /\ DOMAIN t = 1 .. q
        /\ \A i \in DOMAIN t : t[i] \in T
        /\ \A x \in T : \E i \in DOMAIN t : t[i] = x
        /\ \A i, j \in DOMAIN t : t[i] = t[j] => i = j
        /\ \A i, j \in DOMAIN t : i < j => <<t[j], t[i]>> \notin older
    BY SortedKind
  <1>3. Cardinality(S \cup T) = p + q
    <2>1. IsFiniteSet(S) /\ IsFiniteSet(T)
      BY FiniteAssumption, FS_Subset
    <2>2. Cardinality(S \cup T) = p + q - Cardinality({})
      BY <2>1, FS_Union
    <2> QED
      BY <2>2, <1>1, <1>2, FS_EmptySet
  <1> HIDE DEF p, q
  <1>4. /\ DOMAIN u = 1 .. p + q
        /\ \A i \in 1 .. p : i \in DOMAIN u /\ u[i] = s[i]
        /\ \A i \in 1 .. q : p + i \in DOMAIN u /\ u[p + i] = t[i]
        /\ \A i \in DOMAIN u : i > p => i - p \in 1 .. q /\ u[i] = t[i - p]
        /\ \A i \in DOMAIN u : ~(i > p) => i \in 1 .. p
    BY <1>1, <1>2 DEF Joined
  <1>5. u \in [1 .. p + q -> S \cup T]
    <2>1. \A i \in 1 .. p + q : u[i] \in S \cup T
      BY <1>1, <1>2, <1>4
    <2>2. u = [i \in 1 .. p + q |-> u[i]]
      BY DEF Joined
    <2> HIDE DEF u
    <2> QED
      BY <2>1, <2>2
  <1> HIDE DEF u
  <1>6. \A x \in S \cup T : \E i \in 1 .. p + q : u[i] = x
    <2>1. ASSUME NEW x \in S PROVE \E i \in DOMAIN u : u[i] = x
      BY <1>1, <1>4
    <2>2. ASSUME NEW x \in T PROVE \E i \in DOMAIN u : u[i] = x
      BY <1>2, <1>4
    <2> QED
      BY <2>1, <2>2, <1>4
  <1>7. ASSUME NEW i \in DOMAIN u, NEW j \in DOMAIN u, u[i] = u[j] PROVE i = j
    <2>1. CASE i > p /\ j > p
      <3>1. i - p = j - p
        BY <1>2, <1>4, <1>7, <2>1
      <3> QED
        BY <3>1, <1>1, <1>2, <1>4
    <2>2. CASE ~(i > p) /\ ~(j > p)
      BY <1>1, <1>4, <1>7, <2>2
    <2>3. CASE i > p /\ ~(j > p)
      BY <1>1, <1>2, <1>4, <1>7, <2>3
    <2>4. CASE ~(i > p) /\ j > p
      BY <1>1, <1>2, <1>4, <1>7, <2>4
    <2> QED
      BY <2>1, <2>2, <2>3, <2>4
  <1>8. ASSUME NEW i \in DOMAIN u, NEW j \in DOMAIN u, i < j PROVE <<u[j], u[i]>> \notin older
    <2>1. CASE i > p /\ j > p
      <3>1. i - p < j - p
        BY <1>1, <1>2, <1>4, <1>8
      <3> QED
        BY <3>1, <1>2, <1>4, <2>1
    <2>2. CASE ~(j > p)
      <3>1. ~(i > p)
        BY <1>1, <1>2, <1>4, <1>8, <2>2
      <3> QED
        BY <3>1, <1>1, <1>4, <1>8, <2>2
    <2>3. CASE ~(i > p) /\ j > p
      BY <1>1, <1>2, <1>4, <2>3
    <2> QED
      BY <2>1, <2>2, <2>3
  <1>9. u \in SortedLists(older, S \cup T)
    BY <1>3, <1>4, <1>5, <1>6, <1>7, <1>8
    DEF SortedLists, Bijection, Injection, Surjection, IsInjective
  <1>10. \A n \in 0 .. p : Firsts(u, n) = Firsts(s, n)
    BY <1>1, <1>4 DEF Firsts
  <1> QED
    BY <1>9, <1>10 DEF p
LEMMA FirstsAll ==
    ASSUME NEW older, NEW S \in SUBSET Role, NEW s \in SortedLists(older, S)
    PROVE  Cardinality(S) \in Nat /\ Firsts(s, Cardinality(S)) = S
  BY SortedKind DEF Firsts

LEMMA SortedNone == ASSUME NEW older PROVE SortedLists(older, {}) # {}
  <1>1. [i \in 1 .. 0 |-> i] \in SortedLists(older, {})
    BY FS_EmptySet DEF SortedLists, Bijection, Injection, Surjection, IsInjective
  <1> QED
    BY <1>1

LEMMA SortedOne == ASSUME NEW older, NEW x PROVE SortedLists(older, {x}) # {}
  <1>1. [i \in 1 .. 1 |-> x] \in SortedLists(older, {x})
    BY FS_Singleton DEF SortedLists, Bijection, Injection, Surjection, IsInjective
  <1> QED
    BY <1>1

(* The sort has something to return: else take a smallest set it fails on, *)
(* and put its newest member behind the list of the others.                *)
LEMMA SortedExists ==
    ASSUME NEW W \in SUBSET Role, NEW older, ClockOrder(W, older), NEW S \in SUBSET W
    PROVE  SortedLists(older, S) # {}
  <1> DEFINE Bad == {T \in SUBSET W : SortedLists(older, T) = {}}
  <1> SUFFICES ASSUME Bad # {} PROVE FALSE
    OBVIOUS
  <1>1. PICK T \in Bad : \A U \in Bad : U \subseteq T => U = T
    <2>1. Bad \subseteq SUBSET Role
      OBVIOUS
    <2> HIDE DEF Bad
    <2> QED
      BY <2>1, SmallestSet
  <1>2. T \in SUBSET W /\ T # {}
    BY SortedNone
  <1>3. PICK last \in T : \A x \in T : <<last, x>> \notin older
    BY <1>2, NewestOf
  <1>4. PICK s \in SortedLists(older, T \ {last}) : TRUE
    BY <1>1, <1>2, <1>3
  <1>5. PICK t \in SortedLists(older, {last}) : TRUE
    <2>1. SortedLists(older, {last}) # {}
      BY SortedOne, Zenon
    <2> QED
      BY <2>1
  <1>6. SortedLists(older, (T \ {last}) \cup {last}) # {}
    <2> DEFINE A == T \ {last}
               B == {last}
    <2>1. A \in SUBSET Role /\ B \in SUBSET Role /\ Follows(older, A, B)
      BY <1>2, <1>3 DEF Follows
    <2>2. s \in SortedLists(older, A) /\ SortedLists(older, B) # {}
      BY <1>4, <1>5
    <2> HIDE DEF Bad, A, B
    <2>3. SortedLists(older, A \cup B) # {}
      BY <2>1, <2>2, SortedExtends
    <2> QED
      BY <2>3 DEF A, B
  <1>7. (T \ {last}) \cup {last} = T
    BY <1>3
  <1> QED
    BY <1>6, <1>7

(* The first of a sorted list are a prefix by age, and one more each.      *)
LEMMA FirstsKind ==
    ASSUME NEW snap, NEW C \in SUBSET Role, NEW s \in SortedLists(snap.older, C),
           NEW n \in 0 .. Cardinality(C)
    PROVE  /\ Firsts(s, 0) = {}
           /\ Firsts(s, n) \subseteq C /\ IsLruPrefix(snap, Firsts(s, n), C)
           /\ n # 0 => /\ s[n] \in Firsts(s, n)
                       /\ n - 1 \in 0 .. Cardinality(C)
                       /\ Firsts(s, n) \ {s[n]} = Firsts(s, n - 1)
  <1>1. /\ Cardinality(C) \in Nat
        /\ DOMAIN s = 1 .. Cardinality(C)
        /\ \A i \in DOMAIN s : s[i] \in C
        /\ \A x \in C : \E i \in DOMAIN s : s[i] = x
        /\ \A i, j \in DOMAIN s : s[i] = s[j] => i = j
        /\ \A i, j \in DOMAIN s : i < j => <<s[j], s[i]>> \notin snap.older
    BY SortedKind
  <1>2. Firsts(s, n) \subseteq C
    BY <1>1 DEF Firsts
  <1>3. ASSUME NEW v \in Firsts(s, n), NEW c \in C, <<c, v>> \in snap.older
        PROVE  c \in Firsts(s, n)
    <2>1. PICK i \in 1 .. n : s[i] = v
      BY DEF Firsts
    <2>2. PICK j \in DOMAIN s : s[j] = c
      BY <1>1
    <2>3. ~(i < j)
      BY <1>1, <1>3, <2>1, <2>2
    <2> QED
      BY <1>1, <2>1, <2>2, <2>3 DEF Firsts
  <1>4. ASSUME n # 0 PROVE /\ s[n] \in Firsts(s, n)
                           /\ n - 1 \in 0 .. Cardinality(C)
                           /\ Firsts(s, n) \ {s[n]} = Firsts(s, n - 1)
    <2>1. n \in 1 .. n /\ 1 .. n \subseteq DOMAIN s /\ n - 1 \in 0 .. Cardinality(C)
      BY <1>1, <1>4
    <2>2. \A i \in 1 .. n : s[i] = s[n] => i = n
      BY <1>1, <2>1
    <2>3. \A i \in 1 .. n : i # n <=> i \in 1 .. n - 1
      BY <1>1, <1>4
    <2>4. 1 .. n - 1 \subseteq 1 .. n
      BY <1>1
    <2> QED
      BY <2>1, <2>2, <2>3, <2>4 DEF Firsts
  <1>5. Firsts(s, 0) = {}
    BY DEF Firsts
  <1>6. IsLruPrefix(snap, Firsts(s, n), C)
    BY <1>3 DEF IsLruPrefix
  <1> QED
    BY <1>2, <1>4, <1>5, <1>6
-----------------------------------------------------------------------------
(* What the source's loop returns for some list the sort can make is a set *)
(* of victims that LruVictims names.                                       *)
LEMMA LoopIsLru ==
    ASSUME NEW snap, IsSnapshot(snap), NEW r \in Role, GpuOf[r] # NoGpu,
           NEW s \in SortedLists(snap.older, LruCandidates(snap, r)),
           NEW V \in LoopVictims(s, LoadedMb[r] - FreeAfterHardMb(snap, r))
    PROVE  V \in LruVictims(snap, r)
  <1> DEFINE C == LruCandidates(snap, r)
             missing == LoadedMb[r] - FreeAfterHardMb(snap, r)
  <1>1. C \in SUBSET Role
    BY DEF IsSnapshot, LruCandidates, OnCard
  <1>2. missing \in Int
    BY CardBooks
  <1>3. Cardinality(C) \in Nat /\ DOMAIN s = 1 .. Cardinality(C)
    BY <1>1, SortedKind
  <1> HIDE DEF missing
  <1>4. PICK n \in 0 .. Cardinality(C) :
           /\ V = Firsts(s, n)
           /\ SumMb[Firsts(s, n)] >= missing
           /\ \A m \in 0 .. n - 1 : SumMb[Firsts(s, m)] < missing
    BY <1>3 DEF LoopVictims, missing
  <1> HIDE DEF C
  <1>5. Firsts(s, 0) = {} /\ SumMb[{}] = 0
    BY SumAssumption DEF Firsts
  <1>6. CASE missing <= 0
    <2>1. n = 0
      <3> SUFFICES ASSUME n # 0 PROVE FALSE
        OBVIOUS
      <3>1. 0 \in 0 .. n - 1
        BY <1>3
      <3>2. 0 < missing
        BY <3>1, <1>4, <1>5
      <3> QED
        BY <3>2, <1>2, <1>6
    <2> QED
      BY <2>1, <1>4, <1>5, <1>6 DEF LruVictims, missing
  <1>7. CASE ~(missing <= 0)
    <2>1. n # 0
      BY <1>2, <1>4, <1>5, <1>7
    <2>2. /\ V \subseteq C /\ IsLruPrefix(snap, V, C)
          /\ s[n] \in V /\ n - 1 \in 0 .. Cardinality(C) /\ V \ {s[n]} = Firsts(s, n - 1)
      BY <1>1, <1>4, <2>1, FirstsKind DEF C
    <2>3. IsLruPrefix(snap, V \ {s[n]}, C)
      <3>1. IsLruPrefix(snap, Firsts(s, n - 1), C)
        BY <1>1, <2>2, FirstsKind DEF C
      <3> QED
        BY <3>1, <2>2
    <2>4. n - 1 \in 0 .. n - 1
      BY <1>3, <2>1
    <2>5. SumMb[V \ {s[n]}] < missing
      BY <1>4, <2>2, <2>4
    <2> QED
      BY <1>4, <1>7, <2>2, <2>3, <2>5 DEF LruVictims, missing, C
  <1> QED
    BY <1>6, <1>7

(* And the other way round: the victims but the last, the last, and those  *)
(* that are kept make a list in the order of the sort.                     *)
LEMMA LruIsLoop ==
    ASSUME NEW snap, IsSnapshot(snap), NEW r \in Role, GpuOf[r] # NoGpu,
           NEW V \in LruVictims(snap, r)
    PROVE  \E s \in SortedLists(snap.older, LruCandidates(snap, r)) :
              V \in LoopVictims(s, LoadedMb[r] - FreeAfterHardMb(snap, r))
  <1> DEFINE C == LruCandidates(snap, r)
             missing == LoadedMb[r] - FreeAfterHardMb(snap, r)
             older == snap.older
  <1>1. C \in SUBSET Role /\ C \in SUBSET snap.workers
    BY DEF IsSnapshot, LruCandidates, OnCard
  <1>2. missing \in Int
    BY CardBooks
  <1>3. \A S \in SUBSET C : SortedLists(older, S) # {}
    BY <1>1, SortedExists DEF IsSnapshot
  <1>4. CASE missing <= 0
    <2>1. PICK s \in SortedLists(older, C) : TRUE
      BY <1>3
    <2>2. V = {} /\ Firsts(s, 0) = {} /\ SumMb[{}] = 0
      BY <1>4, SumAssumption DEF LruVictims, Firsts
    <2>3. SumMb[Firsts(s, 0)] >= missing /\ \A m \in 0 .. 0 - 1 : FALSE
      BY <1>2, <1>4, <2>2
    <2>4. V \in LoopVictims(s, missing)
      BY <2>2, <2>3 DEF LoopVictims
    <2> QED
      BY <2>1, <2>4
  <1>5. CASE ~(missing <= 0)
    <2>1. /\ V \in SUBSET C /\ IsLruPrefix(snap, V, C) /\ SumMb[V] >= missing
          /\ \E last \in V : /\ IsLruPrefix(snap, V \ {last}, C)
                             /\ SumMb[V \ {last}] < missing
      BY <1>5 DEF LruVictims
    <2>2. PICK last \in V : /\ IsLruPrefix(snap, V \ {last}, C)
                            /\ SumMb[V \ {last}] < missing
      BY <2>1
    <2> DEFINE A == V \ {last}
               B == {last}
               D == C \ V
    <2> HIDE DEF C, missing, older
    <2>3. /\ A \in SUBSET Role /\ B \in SUBSET Role /\ A \cup B = V
          /\ V \in SUBSET Role /\ D \in SUBSET Role /\ V \cup D = C
          /\ A \in SUBSET C /\ B \in SUBSET C /\ D \in SUBSET C
      BY <1>1, <2>1
    <2>4. Follows(older, A, B) /\ Follows(older, V, D)
      BY <2>1, <2>2 DEF Follows, IsLruPrefix, older
    <2>5. SumMb[A] < missing
      BY <2>2
    <2>6. Cardinality(V) = Cardinality(A) + 1
      <3>1. IsFiniteSet(V)
        BY <2>3, FiniteAssumption, FS_Subset
      <3>2. Cardinality(V) \in Nat /\ Cardinality(A) = Cardinality(V) - 1
        BY <2>2, <3>1, FS_CardinalityType, FS_RemoveElement
      <3> QED
        BY <3>2
    <2> HIDE DEF A, B, D
    <2>7. PICK a \in SortedLists(older, A) : TRUE
      BY <1>3, <2>3
    <2>8. SortedLists(older, B) # {} /\ SortedLists(older, D) # {}
      BY <1>3, <2>3
    <2>9. PICK v \in SortedLists(older, A \cup B) :
             \A n \in 0 .. Cardinality(A) : Firsts(v, n) = Firsts(a, n)
      BY <2>3, <2>4, <2>7, <2>8, SortedExtends
    <2>10. PICK s \in SortedLists(older, V \cup D) :
             \A n \in 0 .. Cardinality(V) : Firsts(s, n) = Firsts(v, n)
      <3>1. v \in SortedLists(older, V)
        BY <2>3, <2>9
      <3> QED
        BY <2>3, <2>4, <2>8, <3>1, SortedExtends
    <2>11. /\ Cardinality(A) \in Nat /\ Firsts(a, Cardinality(A)) = A
           /\ Firsts(v, Cardinality(V)) = V
      BY <2>3, <2>7, <2>9, FirstsAll
    <2>12. Firsts(s, Cardinality(V)) = V /\ Firsts(s, Cardinality(A)) = A
      BY <2>6, <2>9, <2>10, <2>11
    <2>13. s \in SortedLists(older, C) /\ DOMAIN s = 1 .. Cardinality(C)
      BY <1>1, <2>3, <2>10, SortedKind
    <2>14. Cardinality(V) \in {0} \cup DOMAIN s
      <3>1. Cardinality(C) \in Nat /\ Cardinality(V) <= Cardinality(C)
        BY <1>1, <2>3, FiniteAssumption, FS_Subset, FS_CardinalityType
      <3> QED
        BY <3>1, <2>6, <2>11, <2>13
    <2>15. ASSUME NEW m \in 0 .. Cardinality(V) - 1 PROVE SumMb[Firsts(s, m)] < missing
      <3>1. Firsts(s, m) \in SUBSET A
        BY <2>6, <2>11, <2>12 DEF Firsts
      <3>2. Firsts(s, m) \in SUBSET Role
        BY <3>1, <2>3
      <3>3. SumMb[Firsts(s, m)] <= SumMb[A]
        BY <3>1, <2>3, SumMono
      <3>4. SumMb[Firsts(s, m)] \in Nat /\ SumMb[A] \in Nat
        BY <3>2, <2>3, SumAssumption
      <3> QED
        BY <1>2, <2>5, <3>3, <3>4
    <2>16. V \in LoopVictims(s, missing)
      BY <2>1, <2>12, <2>14, <2>15 DEF LoopVictims
    <2> QED
      BY <2>13, <2>16 DEF C, missing, older
  <1> QED
    BY <1>4, <1>5
(* The sets of victims the model names without a list are those the        *)
(* source's loop returns over the lists the sort can make.                 *)
THEOREM LoopIsExact == Spec => []LoopAgrees
  <1>1. AInv => LoopAgrees
    <2> SUFFICES ASSUME AInv, Cold, GpuOf[asked] # NoGpu
                 PROVE  LruVictims(st, asked) =
                          UNION {LoopVictims(s, LoadedMb[asked] - FreeAfterHardMb(st, asked)) :
                                    s \in SortedLists(st.older, LruCandidates(st, asked))}
      BY DEF LoopAgrees
    <2> QED
      BY LoopIsLru, LruIsLoop DEF AInv, Asked, Cold
  <1> QED
    BY <1>1, AskedHolds, PTL
=============================================================================
