------------------------------ MODULE Planner ------------------------------
(***************************************************************************)
(* plan_acquire asked once, about any snapshot State can be in: any roles  *)
(* resident and starting, any pinned and held (also ones that are not      *)
(* resident), in any order of last use, ties included.  One step asks for  *)
(* one role and records the plan.                                          *)
(***************************************************************************)
EXTENDS Policy, Functions

CONSTANT NoRole

ASSUME PlannerAssumption == NoRole \notin Role

VARIABLES st, asked, refused, plan

(* The orders last_request_at can put W in.                                *)
OrderBy(W, rank) == {e \in W \X W : rank[e[1]] < rank[e[2]]}
Orders(W) == {OrderBy(W, rank) : rank \in [W -> 1 .. Cardinality(W)]}

Init ==
    /\ \E W \in SUBSET Role :
          \E S \in SUBSET (Role \ W), P \in SUBSET Role, H \in SUBSET Role, o \in Orders(W) :
             st = [workers |-> W, starting |-> S, pinned |-> P, held |-> H, older |-> o]
    /\ asked = NoRole /\ refused = FALSE /\ plan = NoPlan

Ask(r) ==
    /\ asked = NoRole /\ r \in Enabled \ st.starting
    /\ asked' = r
    /\ refused' = (PlanAcquire(st, r) = {})
    /\ IF refused' THEN UNCHANGED plan ELSE plan' \in PlanAcquire(st, r)
    /\ UNCHANGED st

Next == \E r \in Role : Ask(r)
Spec == Init /\ [][Next]_<<st, asked, refused, plan>>
-----------------------------------------------------------------------------
(* The loop of plan_acquire as the source runs it, over a list that the    *)
(* sort has put in order: the victims are its shortest prefix that frees   *)
(* enough.                                                                 *)
SortedLists(older, S) ==
    {s \in Bijection(1 .. Cardinality(S), S) :
        \A i, j \in DOMAIN s : i < j => <<s[j], s[i]>> \notin older}
Firsts(s, n) == {s[i] : i \in 1 .. n}
LoopVictims(s, missing) ==
    {Firsts(s, n) : n \in {k \in {0} \cup DOMAIN s :
                             /\ SumMb[Firsts(s, k)] >= missing
                             /\ \A m \in 0 .. k - 1 : SumMb[Firsts(s, m)] < missing}}
-----------------------------------------------------------------------------
Cold == asked # NoRole /\ asked \notin st.workers

(* A plan that starts the target leaves room for it on its own card once   *)
(* the evictions are done: what is freed on the other card does not count. *)
PlanFits == Cold /\ ~refused => MakesRoom(st, asked, plan.evict)

(* A refusal is final: no choice of victims would have made room either.   *)
(* (A role without a card is refused anyway.)                              *)
RefusalJustified == Cold /\ refused => GpuOf[asked] = NoGpu \/ Hopeless(st, asked)

(* A plan stops nothing that is pinned, nor a held worker that             *)
(* evict_on_acquire does not name; and it stops no worker while keeping an *)
(* idle one of the card that was used less recently and would have done.   *)
EvictionsDue == Cold /\ ~refused => AreDue(st, asked, plan.evict)

(* The sets of victims that LruVictims names without an order of its own   *)
(* are those the source's loop returns over the lists the sort can make:   *)
(* none if even the whole list does not free enough, else one per list.    *)
LoopAgrees ==
    Cold /\ GpuOf[asked] # NoGpu =>
        LruVictims(st, asked) =
            UNION {LoopVictims(s, LoadedMb[asked] - FreeAfterHardMb(st, asked)) :
                      s \in SortedLists(st.older, LruCandidates(st, asked))}
=============================================================================
