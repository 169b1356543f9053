------------------------------ MODULE Residency ------------------------------
(***************************************************************************)
(* What the broker promises about the models on the cards, in whole steps: *)
(* no requests, locks, plans, threads or clocks.  Broker implements it,    *)
(* see Broker!Refines and Ledger_proofs.                                   *)
(***************************************************************************)
EXTENDS BrokerConfig

CONSTANTS
    Proc,      \* the clients
    NoRole,
    Pinnable   \* the roles an operator may pin

VARIABLES
    resident,  \* the roles whose model is loaded, as far as the broker knows
    reserved,  \* the roles a start in flight has reserved VRAM for
    pinned,
    holds      \* the role each client holds, or NoRole

vars == <<resident, reserved, pinned, holds>>

Charged == resident \cup reserved

Fits(S) == \A g \in Gpu : SumMb[OnCard(S, g)] <= Budget[g]

(* Two roles that evict each other.  A pin suspends the rule (pinned       *)
(* wins), and so does being warmed as an implied role.                     *)
Exclusive(r, s) ==
    /\ r # s /\ r \in EvictOn[s] /\ s \in EvictOn[r]
    /\ {r, s} \cap (Pinnable \cup UNION {Implies[i] : i \in Role}) = {}
Apart(S) == \A r, s \in S : ~Exclusive(r, s)

Init ==
    /\ resident = {} /\ reserved = {} /\ pinned = {}
    /\ holds = [p \in Proc |-> NoRole]
-----------------------------------------------------------------------------
(* VRAM is reserved for roles that are nowhere yet, where they fit beside  *)
(* all that is charged already.                                            *)
Reserve ==
    /\ reserved' \in SUBSET (Role \ resident)
    /\ reserved \subseteq reserved' /\ reserved' # reserved
    /\ Fits(Charged') /\ Apart(Charged')
    /\ UNCHANGED <<resident, pinned, holds>>

(* A model is loaded only under its own reservation; other reservations of *)
(* the same request may be given up with it.                               *)
Land(r) ==
    /\ r \in reserved
    /\ resident' = resident \cup {r} /\ reserved' \in SUBSET (reserved \ {r})
    /\ UNCHANGED <<pinned, holds>>

GiveUp ==
    /\ reserved' \in SUBSET reserved /\ reserved' # reserved
    /\ UNCHANGED <<resident, pinned, holds>>

(* No pinned worker is stopped, and a held one only if some role evicts it *)
(* by name.                                                                *)
Stop(r) ==
    /\ r \in resident \ pinned
    /\ (\E p \in Proc : holds[p] = r) => \E s \in Role : r \in EvictOn[s]
    /\ resident' = resident \ {r}
    /\ UNCHANGED <<reserved, pinned, holds>>

Grant(p, r) ==
    /\ holds[p] = NoRole /\ r \in resident
    /\ holds' = [holds EXCEPT ![p] = r]
    /\ UNCHANGED <<resident, reserved, pinned>>

(* Released, or lapsed: several handles may lapse at once.                 *)
Drop(P) ==
    /\ P # {}
    /\ holds' = [p \in Proc |-> IF p \in P THEN NoRole ELSE holds[p]]
    /\ UNCHANGED <<resident, reserved, pinned>>

Pin(r) ==
    /\ r \in Pinnable /\ pinned' = pinned \cup {r}
    /\ UNCHANGED <<resident, reserved, holds>>

Unpin(r) ==
    /\ r \in pinned /\ pinned' = pinned \ {r}
    /\ UNCHANGED <<resident, reserved, holds>>

(* The broker dies and comes back: of the models, those whose containers   *)
(* still run are resident; nothing else is remembered.                     *)
Crash ==
    /\ resident' \in SUBSET Charged
    /\ reserved' = {} /\ pinned' = {}
    /\ holds' = [p \in Proc |-> NoRole]

Next ==
    \/ Reserve \/ GiveUp \/ \E r \in reserved : Land(r)
    \/ \E r \in resident : Stop(r) \/ \E p \in Proc : Grant(p, r)
    \/ \E r \in Role : Pin(r) \/ Unpin(r)
    \/ \E P \in SUBSET Proc : Drop(P)
    \/ Crash

Spec == Init /\ [][Next]_vars
=============================================================================
