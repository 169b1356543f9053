--------------------------- MODULE Placement_proofs ---------------------------
(***************************************************************************)
(* The charge and the pin of a worker agree, for every set of cards,       *)
(* selectors and ledger entries.                                           *)
(***************************************************************************)
EXTENDS Placement, FiniteSetTheorems, WellFoundedInduction, NaturalsInduction, TLAPS

Typed ==
    /\ installed \in SUBSET Card
    /\ charge \in [Role -> Card \cup {NoCard}]
    /\ visible \in [Role -> SUBSET Card]

(* The charge is computed from the inventory of the broker's start, the    *)
(* pin from the present one: they agree as long as these two are the same. *)
PInv ==
    /\ Typed
    /\ ledger # {} => ledger = installed
    /\ ChargedWherePlaced

(* A singleton is all that OnlyOf takes a card from.                       *)
LEMMA OnlyCard ==
    ASSUME NEW S \in SUBSET Card, OnlyOf(S) # NoCard
    PROVE  S = {OnlyOf(S)}
  <1>1. IsFiniteSet(S)
    BY PlacementAssumption, FS_Subset
  <1>2. Cardinality(S) = 1
    BY DEF OnlyOf
  <1>3. PICK g : S = {g}
    BY <1>1, <1>2, FS_Singleton
  <1> QED
    BY <1>2, <1>3 DEF OnlyOf

LEMMA OnlyOfType ==
    ASSUME NEW S \in SUBSET Card PROVE OnlyOf(S) \in Card \cup {NoCard}
  <1>1. CASE OnlyOf(S) = NoCard
    BY <1>1
  <1>2. CASE OnlyOf(S) # NoCard
    <2>1. S = {OnlyOf(S)}
      BY <1>2, OnlyCard
    <2> QED
      BY <2>1
  <1> QED
    BY <1>1, <1>2

LEMMA ResolveType ==
    ASSUME NEW sel, NEW inv \in SUBSET Card
    PROVE  ResolvePlacement(sel, inv) \in Card \cup {NoCard}
  <1> DEFINE hits == {i \in DOMAIN sel : MatchSelector(sel[i], inv) # {}}
             first == CHOOSE i \in hits : \A j \in hits : i <= j
  <1>1. MatchSelector(sel[first], inv) \in SUBSET Card
    BY DEF MatchSelector
  <1>2. ResolvePlacement(sel, inv) \in {OnlyOf(inv), OnlyOf(MatchSelector(sel[first], inv))}
    BY DEF ResolvePlacement
  <1> QED
    BY <1>1, <1>2, OnlyOfType

(* What the container is given is what its role is charged to.             *)
LEMMA PinIsCharge ==
    ASSUME NEW r \in Role, installed \in SUBSET Card, ledger = installed,
           GpuForRole(r) # NoCard, NEW cards \in DeviceRequestsFor(r)
    PROVE  cards = {GpuForRole(r)}
  <1>1. CASE cfg[r] = <<>> /\ Cardinality(installed) = 1
    <2>1. ResolvePlacement(cfg[r], installed) = OnlyOf(installed)
      BY <1>1 DEF ResolvePlacement
    <2>2. installed = {OnlyOf(installed)}
      BY <2>1, OnlyCard DEF GpuForRole
    <2> QED
      BY <1>1, <2>1, <2>2 DEF DeviceRequestsFor, GpuForRole
  <1>2. CASE ~(cfg[r] = <<>> /\ Cardinality(installed) = 1)
    BY <1>2 DEF DeviceRequestsFor, GpuForRole
  <1> QED
    BY <1>1, <1>2

LEMMA PStep == ASSUME PInv, [Next]_vars PROVE PInv'
  <1> USE DEF PInv, Typed, ChargedWherePlaced
  <1>1. CASE Boot
    <2>1. \A r \in Role : ResolvePlacement(yaml[r], installed) \in Card \cup {NoCard}
      BY ResolveType
    <2>2. Typed' /\ ledger' = installed'
      BY <1>1, <2>1 DEF Boot
    <2>3. \A r \in Role \ inherited' : charge'[r] = NoCard
      BY <1>1 DEF Boot
    <2> QED
      BY <2>2, <2>3
  <1>2. ASSUME NEW r \in Role, Start(r) PROVE PInv'
    <2>1. ledger = installed /\ GpuForRole(r) # NoCard
      BY <1>2 DEF Start
    <2>2. GpuForRole(r) \in Card
      BY <2>1, ResolveType DEF GpuForRole
    <2>3. visible' = [visible EXCEPT ![r] = {GpuForRole(r)}]
      BY <1>2, <2>1, PinIsCharge DEF Start
    <2>4. charge' = [charge EXCEPT ![r] = GpuForRole(r)]
          /\ UNCHANGED <<installed, ledger, inherited>>
      BY <1>2 DEF Start
    <2> QED
      BY <2>1, <2>2, <2>3, <2>4
  <1>3. ASSUME NEW r \in Role, Stop(r) PROVE PInv'
    BY <1>3 DEF Stop
  <1>4. CASE Down
    BY <1>4 DEF Down
  <1>5. CASE UNCHANGED <<installed, ledger, charge, visible, inherited>>
    BY <1>5
  <1> QED
    BY <1>1, <1>2, <1>3, <1>4, <1>5 DEF Next, Edit, vars

(* A role is never budgeted against one card and placed on another by the  *)
(* broker that starts it.                                                  *)
THEOREM ChargeIsPlacement == Spec => []ChargedWherePlaced
  <1>1. Init => PInv
    BY DEF Init, PInv, Typed, ChargedWherePlaced
  <1>2. PInv /\ [Next]_vars => PInv'
    BY PStep
  <1>3. PInv => ChargedWherePlaced
    BY DEF PInv
  <1> QED
    BY <1>1, <1>2, <1>3, PTL DEF Spec
-----------------------------------------------------------------------------
(* What this broker started runs where its selector resolves.              *)
Resolved ==
    /\ cfg \in [Role -> Selectors] /\ yaml \in [Role -> Selectors]
    /\ ledger # {} =>
          \A r \in Running \ inherited : charge[r] = GpuForRole(r) /\ charge[r] # NoCard

RInv == PInv /\ Resolved

LEMMA RStep == ASSUME RInv, [Next]_vars PROVE RInv'
  <1> USE DEF RInv, Resolved, Running, GpuForRole
  <1>1. PInv'
    BY PStep
  <1>2. CASE Boot
    BY <1>1, <1>2 DEF Boot
  <1>3. ASSUME NEW r \in Role, Start(r) PROVE RInv'
    BY <1>1, <1>3 DEF Start, PInv, Typed
  <1>4. ASSUME NEW r \in Role, Stop(r) PROVE RInv'
    BY <1>1, <1>4 DEF Stop, PInv, Typed
  <1>5. CASE Down
    BY <1>1, <1>5 DEF Down
  <1>6. ASSUME NEW r \in Role, Edit(r) PROVE RInv'
    BY <1>1, <1>6 DEF Edit
  <1>7. CASE UNCHANGED vars
    BY <1>1, <1>7 DEF vars
  <1> QED
    BY <1>2, <1>3, <1>4, <1>5, <1>6, <1>7 DEF Next

LEMMA LeastIndex ==
    ASSUME NEW S \in SUBSET Nat, S # {}
    PROVE  \E i \in S : \A j \in S : i <= j
  <1>1. \E i \in S : \A j \in S : ~(<<j, i>> \in OpToRel(<, Nat))
    BY NatLessThanWellFounded, WFMin, Zenon
  <1>2. PICK i \in S : \A j \in S : ~(<<j, i>> \in OpToRel(<, Nat))
    BY <1>1
  <1>3. ASSUME NEW j \in S PROVE i <= j
    <2>1. ~(j < i)
      BY <1>2, Zenon DEF OpToRel
    <2> QED
      BY <2>1
  <1> QED
    BY <1>3

(* The first entry that names a card decides; so no entry before or at an  *)
(* ambiguous one may be passed over.                                       *)
LEMMA FirstDecides ==
    ASSUME NEW sel \in Selectors, NEW inv \in SUBSET Card,
           ResolvePlacement(sel, inv) # NoCard,
           NEW i \in DOMAIN sel, Cardinality(MatchSelector(sel[i], inv)) > 1
    PROVE  \E j \in 1 .. i - 1 : MatchSelector(sel[j], inv) = {ResolvePlacement(sel, inv)}
  <1> DEFINE hits == {k \in DOMAIN sel : MatchSelector(sel[k], inv) # {}}
             first == CHOOSE k \in hits : \A j \in hits : k <= j
  <1>1. sel \in Seq(Key) /\ DOMAIN sel \subseteq Nat \ {0}
    BY PlacementAssumption
  <1>2. MatchSelector(sel[i], inv) # {} /\ i \in hits
    BY FS_EmptySet
  <1>3. first \in hits /\ first <= i
    BY <1>1, <1>2, LeastIndex
  <1>4. MatchSelector(sel[first], inv) \in SUBSET Card
    BY DEF MatchSelector
  <1>5. ResolvePlacement(sel, inv) = OnlyOf(MatchSelector(sel[first], inv))
    BY <1>2 DEF ResolvePlacement
  <1>6. MatchSelector(sel[first], inv) = {ResolvePlacement(sel, inv)}
    BY <1>4, <1>5, OnlyCard
  <1>7. Cardinality(MatchSelector(sel[first], inv)) = 1
    BY <1>5 DEF OnlyOf
  <1> HIDE DEF first
  <1>8. first # i
    BY <1>7
  <1>9. first \in 1 .. i - 1
    BY <1>1, <1>3, <1>8
  <1> QED
    BY <1>6, <1>9

(* Two cards that one entry of a selector names are never told apart by a  *)
(* later one.                                                              *)
THEOREM NoGuessing == Spec => []NoAmbiguousPlacement
  <1>1. Init => RInv
    BY DEF Init, RInv, PInv, Typed, ChargedWherePlaced, Resolved, Running
  <1>2. RInv /\ [Next]_vars => RInv'
    BY RStep
  <1>3. RInv => NoAmbiguousPlacement
    <2> SUFFICES ASSUME RInv, NEW r \in Running \ inherited, ledger # {},
                        NEW i \in DOMAIN cfg[r],
                        Cardinality(MatchSelector(cfg[r][i], ledger)) > 1
                 PROVE  \E j \in 1 .. i - 1 : MatchSelector(cfg[r][j], ledger) = visible[r]
      BY DEF NoAmbiguousPlacement
    <2>1. cfg[r] \in Selectors /\ ledger \in SUBSET Card
      BY DEF RInv, Resolved, PInv, Typed, Running
    <2>2. GpuForRole(r) # NoCard /\ visible[r] = {GpuForRole(r)}
      BY DEF RInv, Resolved, PInv, ChargedWherePlaced, Running
    <2> QED
      BY <2>1, <2>2, FirstDecides DEF GpuForRole
  <1> QED
    BY <1>1, <1>2, <1>3, PTL DEF Spec
=============================================================================
