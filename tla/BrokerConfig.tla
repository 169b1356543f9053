---------------------------- MODULE BrokerConfig ----------------------------
(***************************************************************************)
(* What the broker reads at startup and never changes afterwards: the role *)
(* table of config/roles.yaml (broker/config.py) and the card ledger that  *)
(* gpu_ledger.resolve builds from nvidia-smi and `gpu.cards`.              *)
(***************************************************************************)
EXTENDS Integers, FiniteSets

CONSTANTS
    Role,      \* the keys of BrokerConfig.roles
    Gpu,       \* the cards of State.gpu_budgets
    NoGpu,     \* GpuOf of a role whose selector resolves to no card
    LoadedMb,  \* RoleConfig.loaded_mb
    SumMb,     \* the loaded_mb total of a set of roles
    Budget,    \* GpuBudget.budget_mb
    GpuOf,     \* State.gpu_for_role: a function of the startup inventory
    Implies,   \* RoleConfig.implies
    EvictOn,   \* RoleConfig.evict_on_acquire
    Enabled,   \* the roles with enabled: true
    HasIdle    \* the roles whose idle_shutdown_seconds is neither 0 nor null

(* What RoleConfig and BrokerConfig let pass.                              *)
RoleTable ==
    /\ LoadedMb \in [Role -> Nat]
    /\ Implies \in [Role -> SUBSET Role]
    /\ EvictOn \in [Role -> SUBSET Role]
    /\ Enabled \subseteq Role
    /\ HasIdle \subseteq Role

ASSUME ConfigAssumption ==
    /\ RoleTable
    /\ NoGpu \notin Gpu
    /\ Budget \in [Gpu -> Nat]
    /\ GpuOf \in [Role -> Gpu \cup {NoGpu}]

ASSUME FiniteAssumption == IsFiniteSet(Role)

(* No role implies itself: roles.yaml never does, and the loader does not  *)
(* look.                                                                   *)
ASSUME ImpliesAssumption == \A r \in Role : r \notin Implies[r]

(* SumMb is Python's sum() over a set of roles.  Stating it by additivity  *)
(* lets theorems use it without induction over the set.                    *)
ASSUME SumAssumption ==
    /\ SumMb \in [SUBSET Role -> Nat]
    /\ SumMb[{}] = 0
    /\ \A r \in Role : SumMb[{r}] = LoadedMb[r]
    /\ \A S, T \in SUBSET Role :
          S \cap T = {} => SumMb[S \cup T] = SumMb[S] + SumMb[T]

OnCard(S, g) == {r \in S : GpuOf[r] = g}
-----------------------------------------------------------------------------
(* What a role table has to satisfy for the broker to keep its books; the  *)
(* loader checks neither.                                                  *)

(* Every role that another one implies resolves to a card.                 *)
Placeable == \A r \in Role : \A i \in Implies[r] : GpuOf[i] # NoGpu

(* Implied roles are started unchecked: whatever fits on a card beside a   *)
(* role must still fit with everything the role implies.                   *)
WarmFits ==
    \A r \in Role, g \in Gpu : \A S \in SUBSET Role :
        r \in S /\ SumMb[OnCard(S, g)] <= Budget[g]
            => SumMb[OnCard(S \cup Implies[r], g)] <= Budget[g]
=============================================================================
