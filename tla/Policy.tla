------------------------------- MODULE Policy -------------------------------
(***************************************************************************)
(* broker/policy.py: what an /acquire has to do, as a function of a        *)
(* snapshot of State taken under State.lock.  A snapshot is a record:      *)
(*   workers   the resident roles          starting  roles with a ticket   *)
(*   pinned    State.pinned_roles          held      roles with a handle   *)
(*   older     <<a, b>> when a's last_request_at is before b's             *)
(* Two workers touched in the same instant are unordered in `older`: the   *)
(* sort of _lru_eviction_candidates may then list them either way.         *)
(*                                                                         *)
(* plan_acquire is a set here: empty when the plan is infeasible, else one *)
(* plan per order the LRU sort may produce.                                *)
(***************************************************************************)
EXTENDS BrokerConfig

(* Mutant of UsedMb: starts in flight are not reserved.                    *)
ResidentMb(st, g) == SumMb[OnCard(st.workers, g)]

UsedMb(st, g) ==
    SumMb[OnCard(st.workers, g)] + SumMb[OnCard(st.starting, g)]

FreeMb(st, g) == Budget[g] - UsedMb(st, g)

(* Mutant of FilterEvictable: a client's hold protects its role here too.  *)
UnheldEvictable(st, r) == (EvictOn[r] \cap st.workers) \ (st.pinned \cup st.held)
(* Mutant of FilterEvictable: a pin does not.                              *)
LoadedEvictable(st, r) == EvictOn[r] \cap st.workers

(* evict_on_acquire is a contract about co-residency: a pin overrides it, a *)
(* client's hold does not.                                                 *)
FilterEvictable(st, r) == (EvictOn[r] \cap st.workers) \ st.pinned

(* Mutant of FreeAfterHardMb: VRAM pools across cards.                     *)
PooledAfterHardMb(st, r) == FreeMb(st, GpuOf[r]) + SumMb[FilterEvictable(st, r)]

(* What the hard evictions free on the target's own card.                  *)
FreeAfterHardMb(st, r) ==
    FreeMb(st, GpuOf[r]) + SumMb[OnCard(FilterEvictable(st, r), GpuOf[r])]

(* Mutants of LruCandidates: holds are not respected; cards are not told   *)
(* apart.                                                                  *)
UnpinnedCandidates(st, r) ==
    OnCard(st.workers, GpuOf[r]) \ (st.pinned \cup FilterEvictable(st, r) \cup {r})
PooledCandidates(st, r) ==
    st.workers \ (st.pinned \cup st.held \cup FilterEvictable(st, r) \cup {r})

LruCandidates(st, r) ==
    OnCard(st.workers, GpuOf[r])
        \ (st.pinned \cup st.held \cup FilterEvictable(st, r) \cup {r})

(* Mutant of IsLruPrefix: any candidates, whatever their age.              *)
AnySubset(st, V, C) == V \subseteq C

(* The sets of candidates a prefix of the sorted list can be.              *)
IsLruPrefix(st, V, C) ==
    \A v \in V, c \in C : <<c, v>> \in st.older => c \in V

(* Mutant of LruVictims: the loop goes on until more than enough is free.  *)
LruVictimsStrict(st, r) ==
    LET C == LruCandidates(st, r)
        missing == LoadedMb[r] - FreeAfterHardMb(st, r)
    IN  IF missing < 0 THEN {{}}
        ELSE {V \in SUBSET C :
                /\ IsLruPrefix(st, V, C)
                /\ SumMb[V] > missing
                /\ \E last \in V : /\ IsLruPrefix(st, V \ {last}, C)
                                   /\ SumMb[V \ {last}] <= missing}

(* The loop takes candidates, oldest first, until the target fits.         *)
LruVictims(st, r) ==
    LET C == LruCandidates(st, r)
        missing == LoadedMb[r] - FreeAfterHardMb(st, r)
    IN  IF missing <= 0 THEN {{}}
        ELSE {V \in SUBSET C :
                /\ IsLruPrefix(st, V, C)
                /\ SumMb[V] >= missing
                /\ \E last \in V : /\ IsLruPrefix(st, V \ {last}, C)
                                   /\ SumMb[V \ {last}] < missing}

(* _split_implies: a role another acquire is already starting is neither   *)
(* warmed nor touched.  Neither its size nor its `enabled` flag is read.   *)
ToWarm(st, r) == Implies[r] \ (st.starting \cup st.workers)
ToTouch(st, r) == (Implies[r] \cap st.workers) \ st.starting

MakePlan(st, r, evict, target) ==
    [evict |-> evict, start |-> target \cup ToWarm(st, r), touch |-> ToTouch(st, r)]

PlanAcquire(st, r) ==
    IF r \notin Enabled THEN {}
    ELSE IF r \in st.workers THEN {MakePlan(st, r, {}, {})}
    ELSE IF GpuOf[r] = NoGpu THEN {}
    ELSE {MakePlan(st, r, FilterEvictable(st, r) \cup V, {r}) : V \in LruVictims(st, r)}

Plan == [evict : SUBSET Role, start : SUBSET Role, touch : SUBSET Role]
NoPlan == [evict |-> {}, start |-> {}, touch |-> {}]
WithEvict(pl, E) == [evict |-> E, start |-> pl.start, touch |-> pl.touch]
-----------------------------------------------------------------------------
(* The vocabulary of the properties.                                       *)

(* `older` puts the workers W in an order a clock can put them in.         *)
ClockOrder(W, older) ==
    /\ older \subseteq W \X W
    /\ \A e \in older : <<e[2], e[1]>> \notin older
    /\ \A e \in older, w \in W : <<e[1], w>> \in older \/ <<w, e[2]>> \in older

(* What a snapshot of State can be.                                        *)
IsSnapshot(st) ==
    /\ st \in [workers : SUBSET Role, starting : SUBSET Role, pinned : SUBSET Role,
              held : SUBSET Role, older : SUBSET (Role \X Role)]
    /\ st.starting \cap st.workers = {}
    /\ ClockOrder(st.workers, st.older)

(* Once the workers E are gone r fits on its own card.                     *)
MakesRoom(st, r, E) ==
    FreeMb([st EXCEPT !.workers = @ \ E], GpuOf[r]) >= LoadedMb[r]

(* The workers E may be stopped for r: none is pinned, none is held unless *)
(* evict_on_acquire names it, and none goes while an idle one of the card  *)
(* stays that was used less recently and would have done.                  *)
AreDue(st, r, E) ==
    /\ E \cap st.pinned = {}
    /\ E \cap st.held \subseteq EvictOn[r]
    /\ \A w \in OnCard(st.workers, GpuOf[r]) \ (st.pinned \cup st.held) :
          \A v \in E \ EvictOn[r] : <<w, v>> \in st.older => w \in E

(* Stopping every worker of the card that may be stopped would not make    *)
(* room for r.                                                             *)
Hopeless(st, r) ==
    LET Stoppable == {w \in OnCard(st.workers, GpuOf[r]) \ st.pinned :
                         w \in st.held => w \in EvictOn[r]}
    IN  FreeMb(st, GpuOf[r]) + SumMb[Stoppable] < LoadedMb[r]
=============================================================================
