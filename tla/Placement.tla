------------------------------ MODULE Placement ------------------------------
(***************************************************************************)
(* broker/gpu_ledger.py: which installed cards the broker budgets, and on  *)
(* which one a role runs.  A role is charged by State.gpu_for_role, from   *)
(* the inventory read when the broker started, and its container is pinned *)
(* by DockerManager._device_requests_for, from the inventory read now.     *)
(*                                                                         *)
(* Containers outlive the broker, and roles.yaml is read when it starts.   *)
(* A selector is the list of its entries: <<>> is none, a string is a list *)
(* of one.                                                                 *)
(***************************************************************************)
EXTENDS Integers, FiniteSets, Sequences

CONSTANTS
    Role, Card, NoCard,
    Key,        \* what a selector entry or a ledger key can say
    UuidOf,     \* the key that is a card's full UUID
    NamedBy,    \* the cards whose name contains the key
    LedgerKeys, \* gpu.cards
    ReservedMb, \* reserved_for_host_mb, by ledger key
    TotalMb,    \* memory.total, by card
    Selectors   \* the gpu_selectors to consider

ASSUME PlacementAssumption ==
    /\ NoCard \notin Card /\ IsFiniteSet(Card)
    /\ UuidOf \in [Card -> Key]
    /\ \A g, h \in Card : UuidOf[g] = UuidOf[h] => g = h
    /\ NamedBy \in [Key -> SUBSET Card]
    /\ LedgerKeys \subseteq Key
    /\ ReservedMb \in [LedgerKeys -> Nat]
    /\ TotalMb \in [Card -> Nat]
    /\ Selectors \subseteq Seq(Key)

VARIABLES
    installed,  \* the cards nvidia-smi reports
    yaml,       \* each role's gpu_selector in roles.yaml
    cfg,        \* the same, as the broker read it
    ledger,     \* State.gpu_budgets; {} while the broker is down
    charge,     \* Worker.gpu_uuid of the resident workers, else NoCard
    visible,    \* the cards each running container was given, else {}
    inherited   \* the workers found running when the broker came up

vars == <<installed, yaml, cfg, ledger, charge, visible, inherited>>
-----------------------------------------------------------------------------
MatchSelector(key, inv) ==
    LET exact == {g \in inv : UuidOf[g] = key}
    IN  IF exact # {} THEN exact ELSE NamedBy[key] \cap inv

Resolves(inv) ==
    /\ inv # {}
    /\ \A k \in LedgerKeys : Cardinality(MatchSelector(k, inv)) <= 1
    /\ \A k \in LedgerKeys : \A g \in MatchSelector(k, inv) : ReservedMb[k] < TotalMb[g]
    /\ \A j, k \in LedgerKeys :
          j # k => MatchSelector(j, inv) \cap MatchSelector(k, inv) = {}
    /\ \A g \in inv : \E k \in LedgerKeys : g \in MatchSelector(k, inv)

OnlyOf(S) == IF Cardinality(S) = 1 THEN CHOOSE g \in S : TRUE ELSE NoCard

(* Mutant of ResolvePlacement: an ambiguous entry is passed over.          *)
ResolveSkipping(sel, inv) ==
    LET hits == {i \in DOMAIN sel : Cardinality(MatchSelector(sel[i], inv)) = 1}
    IN  IF hits = {} THEN OnlyOf(inv)
        ELSE OnlyOf(MatchSelector(sel[CHOOSE i \in hits : \A j \in hits : i <= j], inv))

(* The first entry that names a card decides, and fails if it names        *)
(* several; if none does, the only card installed is taken.                *)
ResolvePlacement(sel, inv) ==
    LET hits == {i \in DOMAIN sel : MatchSelector(sel[i], inv) # {}}
    IN  IF hits = {} THEN OnlyOf(inv)
        ELSE OnlyOf(MatchSelector(sel[CHOOSE i \in hits : \A j \in hits : i <= j], inv))

GpuForRole(r) == ResolvePlacement(cfg[r], ledger)

(* Mutant of DeviceRequestsFor: every card the selector names is handed to *)
(* the container.                                                          *)
DeviceRequestsAll(r) ==
    IF cfg[r] = <<>> THEN {installed}
    ELSE {UNION {MatchSelector(cfg[r][i], installed) : i \in DOMAIN cfg[r]}}

(* Every card for a role without a selector while there is one card, else  *)
(* the one it resolves to; no choice at all when it resolves to none.      *)
DeviceRequestsFor(r) ==
    IF cfg[r] = <<>> /\ Cardinality(installed) = 1 THEN {installed}
    ELSE {{g} : g \in {ResolvePlacement(cfg[r], installed)} \ {NoCard}}
-----------------------------------------------------------------------------
Running == {r \in Role : visible[r] # {}}

Init ==
    /\ installed \in SUBSET Card
    /\ yaml \in [Role -> Selectors] /\ cfg = yaml
    /\ ledger = {}
    /\ charge = [r \in Role |-> NoCard]
    /\ visible = [r \in Role |-> {}]
    /\ inherited = {}

(* _build_state: read roles.yaml, resolve the ledger, take up the running  *)
(* containers.  The broker does not come up if a card or one of those      *)
(* workers cannot be placed.                                               *)
Boot ==
    /\ ledger = {} /\ Resolves(installed)
    /\ cfg' = yaml
    /\ \A r \in Running : ResolvePlacement(yaml[r], installed) # NoCard
    /\ ledger' = installed
    /\ charge' = [r \in Role |-> IF r \in Running
                                 THEN ResolvePlacement(yaml[r], installed) ELSE NoCard]
    /\ inherited' = Running
    /\ UNCHANGED <<installed, yaml, visible>>

(* A cold start: charged in begin_start, pinned in start_worker.           *)
Start(r) ==
    /\ ledger # {} /\ charge[r] = NoCard
    /\ GpuForRole(r) # NoCard
    /\ \E cards \in DeviceRequestsFor(r) : visible' = [visible EXCEPT ![r] = cards]
    /\ charge' = [charge EXCEPT ![r] = GpuForRole(r)]
    /\ UNCHANGED <<installed, yaml, cfg, ledger, inherited>>

Stop(r) ==
    /\ ledger # {} /\ charge[r] # NoCard
    /\ visible' = [visible EXCEPT ![r] = {}]
    /\ charge' = [charge EXCEPT ![r] = NoCard]
    /\ inherited' = inherited \ {r}
    /\ UNCHANGED <<installed, yaml, cfg, ledger>>

(* The broker stops or dies; its containers run on.                        *)
Down ==
    /\ ledger # {}
    /\ ledger' = {} /\ charge' = [r \in Role |-> NoCard] /\ inherited' = {}
    /\ UNCHANGED <<installed, yaml, cfg, visible>>

(* The operator edits roles.yaml, to be read at the next start.            *)
Edit(r) ==
    /\ \E s \in Selectors \ {yaml[r]} : yaml' = [yaml EXCEPT ![r] = s]
    /\ UNCHANGED <<installed, cfg, ledger, charge, visible, inherited>>

Next == Boot \/ Down \/ \E r \in Role : Start(r) \/ Stop(r) \/ Edit(r)
Spec == Init /\ [][Next]_vars
-----------------------------------------------------------------------------
(* A container this broker started sees the one card its role is charged   *)
(* to, whatever the selectors, the cards and the restarts before it.  One  *)
(* it inherited may not: see the README.                                   *)
ChargedWherePlaced ==
    \A r \in Role \ inherited : charge[r] # NoCard => visible[r] = {charge[r]}

(* No ambiguity is passed over: two cards with one of the names a role     *)
(* asks for are never told apart by an entry further down its list.        *)
NoAmbiguousPlacement ==
    \A r \in Running \ inherited : ledger # {} =>
        \A i \in DOMAIN cfg[r] :
            Cardinality(MatchSelector(cfg[r][i], ledger)) > 1 =>
                \E j \in 1 .. i - 1 : MatchSelector(cfg[r][j], ledger) = visible[r]
=============================================================================
