------------------------------ MODULE MCBroker ------------------------------
(***************************************************************************)
(* Role tables and card ledgers to check Broker with.  Sizes are in        *)
(* GiB-like units; what matters is which roles fit together on a card.     *)
(***************************************************************************)
EXTENDS Broker, FiniteSetsExt, TLC

CONSTANTS a, b, c, d, p1, p2, p3, g1, g2

Clients == Permutations({p1, p2, p3} \cap Proc)

Sum(sizes) == [S \in SUBSET DOMAIN sizes |-> MapThenSumSet(LAMBDA r : sizes[r], S)]
NoRoles == [r \in Role |-> {}]

(* Tight: one card.  a and b evict each other although both would fit, and *)
(* d has to push out c alone or a (or b) and c, by age.                    *)
TightMb == (a :> 1) @@ (b :> 1) @@ (c :> 2) @@ (d :> 3)
TightSum == Sum(TightMb)
TightBudget == (g1 :> 4)
OneCard == [r \in Role |-> g1]
TightEvict == [NoRoles EXCEPT ![a] = {b}, ![b] = {a}]

(* Split: two cards.  a warms b, and both fit on g1; c and d take turns on *)
(* g2, and c evicts b although that frees nothing on its own card.         *)
UnitMb == [r \in Role |-> 1]
UnitSum == Sum(UnitMb)
SplitBudget == (g1 :> 2) @@ (g2 :> 1)
TwoCards == (a :> g1) @@ (b :> g1) @@ (c :> g2) @@ (d :> g2)
SplitImplies == [NoRoles EXCEPT ![a] = {b}]
SplitEvict == [NoRoles EXCEPT ![c] = {b}]

(* Broken: b is warmed by a but resolves to no card; c excludes a on g1. *)
BrokenMb == (a :> 2) @@ (b :> 1) @@ (c :> 1)
BrokenSum == Sum(BrokenMb)
BrokenBudget == (g1 :> 2)
BrokenCards == [OneCard EXCEPT ![b] = NoGpu]

(* Live: one card with room for two of the roles.                          *)
LiveBudget == (g1 :> 2)

(* The four sized roles of config/roles.yaml in MiB: a rerank, b embed,    *)
(* c llm_small, d llm_large.                                               *)
YamlMb == (a :> 1200) @@ (b :> 1200) @@ (c :> 9800) @@ (d :> 21000)
YamlSum == Sum(YamlMb)
YamlEvict == (a :> {}) @@ (b :> {}) @@ (c :> {d}) @@ (d :> {a, b, c})

(* They share SASHA's 3060, 12288 MiB less the ledger's 1024: its only     *)
(* card, so the fallback puts all of them there.                           *)
SashaBudget == (g1 :> 11264)

(* Or Scully's 3090, 24576 MiB less 1024.  There the shipped role table    *)
(* meets the conditions of the theorems of Ledger_proofs.                  *)
YamlCards == [r \in DOMAIN YamlMb |-> g1]
YamlImplies == (a :> {b}) @@ (b :> {}) @@ (c :> {}) @@ (d :> {})
OnHost(mb) == INSTANCE BrokerConfig WITH
    Role <- DOMAIN YamlMb, Gpu <- {g1}, LoadedMb <- YamlMb, SumMb <- YamlSum,
    Budget <- (g1 :> mb), GpuOf <- YamlCards, Implies <- YamlImplies,
    EvictOn <- YamlEvict, Enabled <- DOMAIN YamlMb, HasIdle <- DOMAIN YamlMb
ASSUME OnScully == OnHost(23552)!WarmFits /\ OnHost(23552)!Placeable
ASSUME OnSasha == ~OnHost(11264)!WarmFits
=============================================================================
