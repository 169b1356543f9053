------------------------------- MODULE Broker -------------------------------
(***************************************************************************)
(* The broker process (broker/app.py over broker/state.py), its clients'   *)
(* requests, the idle sweep, and the containers as Docker sees them.       *)
(*                                                                         *)
(* An /acquire handler runs on the event loop and gives way only where it  *)
(* awaits: for State.lock, for a thread that calls Docker, for a ticket's  *)
(* `done` event and between health probes.  Every action below is the code *)
(* between two such points.                                                *)
(***************************************************************************)
EXTENDS Policy

CONSTANTS
    Proc,      \* clients: each runs one /acquire ... /release at a time
    NoProc,
    NoRole,
    Free,      \* State.lock when nobody holds it
    Sweeper,   \* State.lock when _idle_sweep_loop holds it across an await
    Pinnable,  \* the roles an operator may pin and unpin
    Faults     \* what may go wrong around the broker in this instance

ASSUME BrokerAssumption ==
    /\ NoProc \notin Proc
    /\ NoRole \notin Role
    /\ {Free, Sweeper} \cap Proc = {}
    /\ Free # Sweeper
    /\ Pinnable \subseteq Role
    /\ Faults \subseteq {"restart", "extstop", "startfail", "startlost",
                         "healthfail", "stopfail"}

VARIABLES
    workers,    \* State.workers
    idle,       \* Worker.idle_shutdown_at: never, armed, or fired (in the past)
    older,      \* Worker.last_request_at, as an order (see Policy)
    pinned,     \* State.pinned_roles
    ticket,     \* State.starting: the client whose acquire began the start
    lease,      \* State.handles: the client's handle and its hold_until
    lock,       \* State.lock, where it is held across an await
    plan,       \* the lock holder's plan, as far as it is not carried out
    pc, req,    \* where each client's request is, and the role it asks for
    at,         \* the role it is cold-starting, or whose ticket it waits on
    todo,       \* the tickets it holds and has not come to yet
    container   \* each role's container: down, loading, or ready (answers 200)

broker == <<workers, idle, older, pinned, ticket, lease>>
locking == <<lock, plan>>
requests == <<pc, req, at, todo>>
vars == <<broker, locking, requests, container>>

Working == {"start", "probe", "landOk", "landBad", "landErr"}
TypeOK ==
    /\ workers \subseteq Role
    /\ idle \in [Role -> {"never", "armed", "fired"}]
    /\ older \subseteq Role \X Role
    /\ pinned \subseteq Role
    /\ ticket \in [Role -> Proc \cup {NoProc}]
    /\ lease \in [Proc -> {"none", "open", "live", "lapsed"}]
    /\ lock \in Proc \cup {Free, Sweeper}
    /\ plan \in Plan
    /\ pc \in [Proc -> {"idle", "plan", "evict", "wait", "held"} \cup Working]
    /\ req \in [Proc -> Role \cup {NoRole}]
    /\ at \in [Proc -> Role \cup {NoRole}]
    /\ todo \in [Proc -> SUBSET Role]
    /\ container \in [Role -> {"down", "loading", "ready"}]

Init ==
    /\ workers = {} /\ older = {} /\ pinned = {}
    /\ idle = [r \in Role |-> "never"]
    /\ ticket = [r \in Role |-> NoProc]
    /\ lease = [p \in Proc |-> "none"]
    /\ lock = Free /\ plan = NoPlan
    /\ pc = [p \in Proc |-> "idle"]
    /\ req = [p \in Proc |-> NoRole]
    /\ at = [p \in Proc |-> NoRole]
    /\ todo = [p \in Proc |-> {}]
    /\ container = [r \in Role |-> "down"]
-----------------------------------------------------------------------------
(* State: what its methods compute. *)

Starting == {r \in Role : ticket[r] # NoProc}
HeldRoles == {req[p] : p \in {q \in Proc : lease[q] # "none"}}
Lapsed == {p \in Proc : lease[p] = "lapsed"}
Running == {r \in Role : container[r] # "down"}

Snapshot == [workers |-> workers, starting |-> Starting, pinned |-> pinned,
             held |-> HeldRoles, older |-> older]

(* The idle clock add_worker and touch_worker set.                         *)
IdleClock(r) == IF r \in HasIdle \ pinned THEN "armed" ELSE "never"

(* The members of S get the newest last_request_at of the workers W.       *)
Newest(old, S, W) ==
    {e \in old : e[1] \notin S /\ e[2] \notin S} \cup ((W \ S) \X S)
Without(old, r) == {e \in old : e[1] # r /\ e[2] # r}

(* touch_worker for each role of S; a role that is not loaded is skipped.  *)
TouchedIdle(S) == [r \in Role |-> IF r \in S \cap workers THEN IdleClock(r) ELSE idle[r]]
TouchWorkers(S) ==
    /\ idle' = TouchedIdle(S)
    /\ older' = Newest(older, S \cap workers, workers)

AddWorker(r) ==
    /\ workers' = workers \cup {r}
    /\ idle' = [idle EXCEPT ![r] = IdleClock(r)]
    /\ older' = Newest(older, {r}, workers)

(* docker stop succeeded: the container exits and its Worker is dropped.   *)
StopWorker(r) ==
    /\ container' = [container EXCEPT ![r] = "down"]
    /\ workers' = workers \ {r}
    /\ idle' = [idle EXCEPT ![r] = "never"]
    /\ older' = Without(older, r)

(* docker stop raised; the container may or may not have exited.           *)
StopFails(r) == \E c \in {container[r], "down"} : container' = [container EXCEPT ![r] = c]

(* end_start for the tickets of S: p goes on at `next`, and every request  *)
(* waiting on one of them wakes.  Those that asked for a role whose ticket *)
(* ends with an error to tell (`failed`) answer 500; the others plan again. *)
(* Mutant of Woken: only the requests for that very role wake.             *)
WokenSameRole(S) == {q \in Proc : pc[q] = "wait" /\ at[q] \in S /\ req[q] = at[q]}

Woken(S) == {q \in Proc : pc[q] = "wait" /\ at[q] \in S}
Raised(S, failed) == {q \in Woken(S) : at[q] \in failed /\ req[q] = at[q]}
EndStart(p, S, failed, next, role) ==
    LET gone == Raised(S, failed) \cup (IF next = "idle" THEN {p} ELSE {})
    IN  /\ ticket' = [r \in Role |-> IF r \in S THEN NoProc ELSE ticket[r]]
        /\ pc' = [q \in Proc |-> IF q \in gone THEN "idle"
                                 ELSE IF q = p THEN next
                                 ELSE IF q \in Woken(S) THEN "plan" ELSE pc[q]]
        /\ req' = [q \in Proc |-> IF q \in gone THEN NoRole ELSE req[q]]
        /\ at' = [q \in Proc |-> IF q = p THEN role
                                 ELSE IF q \in Woken(S) THEN NoRole ELSE at[q]]

Reset(p) == /\ pc' = [pc EXCEPT ![p] = "idle"]
            /\ req' = [req EXCEPT ![p] = NoRole]
Unlock == lock' = Free /\ plan' = NoPlan
-----------------------------------------------------------------------------
(* POST /acquire *)

(* An unknown role (404) or a disabled one (409) never gets further.       *)
AcquireReq(p, r) ==
    /\ pc[p] = "idle" /\ r \in Enabled
    /\ pc' = [pc EXCEPT ![p] = "plan"]
    /\ req' = [req EXCEPT ![p] = r]
    /\ UNCHANGED <<broker, locking, at, todo, container>>

(* Mutants of Blockers: the target's own ticket is overlooked; so are      *)
(* those of the roles it must evict.                                       *)
BlockersOfEviction(r) == EvictOn[r] \cap Starting
BlockersOfTarget(r) == {r} \cap Starting

(* The tickets the planning step has to wait for: the target's own, else   *)
(* one of a role it must evict, else, when there is no plan, any on the    *)
(* target's card (on any card if the target has none).                     *)
Blockers(r) ==
    IF r \in Starting THEN {r}
    ELSE IF EvictOn[r] \cap Starting # {} THEN EvictOn[r] \cap Starting
    ELSE IF PlanAcquire(Snapshot, r) = {}
         THEN {t \in Starting : GpuOf[r] \in {NoGpu, GpuOf[t]}}
         ELSE {}

(* Mutant of Planning: the plan is made without State.lock.                *)
PlanningUnlocked(p) == pc[p] = "plan"

Planning(p) == pc[p] = "plan" /\ lock = Free

PlanWait(p) ==
    /\ Planning(p)
    /\ \E r \in Blockers(req[p]) : at' = [at EXCEPT ![p] = r]
    /\ pc' = [pc EXCEPT ![p] = "wait"]
    /\ UNCHANGED <<broker, locking, req, todo, container>>

PlanRefuse(p) ==
    /\ Planning(p)
    /\ Blockers(req[p]) = {} /\ PlanAcquire(Snapshot, req[p]) = {}
    /\ Reset(p)
    /\ UNCHANGED <<broker, locking, at, todo, container>>

(* The role is resident and nothing is to be warmed: touch it, after the   *)
(* roles it implies, and hand out a handle, with a lease or without.       *)
PlanGrant(p) ==
    /\ Planning(p)
    /\ Blockers(req[p]) = {}
    /\ \E pl \in PlanAcquire(Snapshot, req[p]) :
          /\ pl.start = {}
          /\ idle' = TouchedIdle(pl.touch \cup {req[p]})
          /\ older' = Newest(Newest(older, pl.touch, workers), {req[p]}, workers)
    /\ \E l \in {"open", "live"} : lease' = [lease EXCEPT ![p] = l]
    /\ pc' = [pc EXCEPT ![p] = "held"]
    /\ UNCHANGED <<workers, pinned, ticket, locking, req, at, todo, container>>

PlanCommit(p) ==
    /\ Planning(p)
    /\ Blockers(req[p]) = {}
    /\ \E pl \in PlanAcquire(Snapshot, req[p]) : pl.start # {} /\ plan' = pl
    /\ lock' = p
    /\ pc' = [pc EXCEPT ![p] = "evict"]
    /\ UNCHANGED <<broker, req, at, todo, container>>

(* The victims are stopped one by one, each in a thread, under the lock.   *)
EvictStop(p) ==
    /\ lock = p
    /\ \E v \in plan.evict :
          /\ StopWorker(v)
          /\ plan' = WithEvict(plan, plan.evict \ {v})
    /\ UNCHANGED <<pinned, ticket, lease, lock, requests>>

EvictFail(p) ==
    /\ "stopfail" \in Faults
    /\ lock = p
    /\ \E v \in plan.evict : StopFails(v)
    /\ Reset(p) /\ Unlock
    /\ UNCHANGED <<broker, at, todo>>

(* begin_start for the target, if it is to be started, and the implied     *)
(* roles; then the touches; then the lock is released.                     *)
Reserve(p) ==
    /\ lock = p /\ plan.evict = {}
    /\ \A r \in plan.start : GpuOf[r] # NoGpu
    /\ ticket' = [r \in Role |-> IF r \in plan.start THEN p ELSE ticket[r]]
    /\ TouchWorkers(plan.touch)
    /\ \E first \in IF req[p] \in plan.start THEN {req[p]} ELSE plan.start :
          /\ at' = [at EXCEPT ![p] = first]
          /\ todo' = [todo EXCEPT ![p] = plan.start \ {first}]
    /\ pc' = [pc EXCEPT ![p] = "start"]
    /\ Unlock
    /\ UNCHANGED <<workers, pinned, lease, req, container>>

(* begin_start raises for an implied role that resolves to no card.  The   *)
(* tickets begun before it stay in State.starting and nobody owns them.    *)
ReserveRaise(p) ==
    /\ lock = p /\ plan.evict = {}
    /\ \E bad \in plan.start, begun \in SUBSET plan.start :
          /\ GpuOf[bad] = NoGpu
          /\ \A r \in begun : GpuOf[r] # NoGpu
          /\ req[p] \in plan.start => req[p] \in begun
          /\ ticket' = [r \in Role |-> IF r \in begun THEN p ELSE ticket[r]]
    /\ Reset(p) /\ Unlock
    /\ UNCHANGED <<workers, idle, older, pinned, lease, at, todo, container>>

(* docker_mgr.start_worker in a thread: a running container is reused, a   *)
(* stopped one is replaced.                                                *)
StartOk(p) ==
    /\ pc[p] = "start"
    /\ container' = [container EXCEPT ![at[p]] = IF @ = "down" THEN "loading" ELSE @]
    /\ pc' = [pc EXCEPT ![p] = "probe"]
    /\ UNCHANGED <<broker, locking, req, at, todo>>

(* It raises: before there is a container, or once one runs ("startlost"). *)
StartRaise(p) ==
    /\ {"startfail", "startlost"} \cap Faults # {}
    /\ pc[p] = "start"
    /\ \/ "startfail" \in Faults /\ UNCHANGED container
       \/ /\ "startlost" \in Faults /\ container[at[p]] = "down"
          /\ container' = [container EXCEPT ![at[p]] = "loading"]
    /\ pc' = [pc EXCEPT ![p] = "landErr"]
    /\ UNCHANGED <<broker, locking, req, at, todo>>

(* Mutant of HealthOk: the probe takes a running container for a ready one. *)
HealthOkRunning(p) ==
    /\ pc[p] = "probe" /\ container[at[p]] # "down"
    /\ pc' = [pc EXCEPT ![p] = "landOk"]
    /\ UNCHANGED <<broker, locking, req, at, todo, container>>

HealthOk(p) ==
    /\ pc[p] = "probe" /\ container[at[p]] = "ready"
    /\ pc' = [pc EXCEPT ![p] = "landOk"]
    /\ UNCHANGED <<broker, locking, req, at, todo, container>>

(* No 200 before the deadline: the container is down, or too slow.         *)
HealthTimeout(p) ==
    /\ pc[p] = "probe"
    /\ container[at[p]] = "down" \/ "healthfail" \in Faults
    /\ pc' = [pc EXCEPT ![p] = "landBad"]
    /\ UNCHANGED <<broker, locking, req, at, todo, container>>

(* Mutant of LandOk: the worker is registered after the loop moved on to   *)
(* the next ticket.                                                        *)
LandOkLate(p) ==
    /\ pc[p] = "landOk" /\ lock = Free
    /\ IF todo[p] = {}
       THEN EndStart(p, {at[p]}, {}, "plan", NoRole) /\ UNCHANGED todo
       ELSE \E r \in todo[p] : /\ EndStart(p, {at[p]}, {}, "start", r)
                               /\ todo' = [todo EXCEPT ![p] = @ \ {r}]
    /\ AddWorker(at'[p])
    /\ UNCHANGED <<pinned, lease, locking, container>>

(* The three ways a cold start ends, each under the lock.  A failure also  *)
(* ends the tickets the request has not come to.                           *)
LandOk(p) ==
    /\ pc[p] = "landOk" /\ lock = Free
    /\ AddWorker(at[p])
    /\ IF todo[p] = {}
       THEN EndStart(p, {at[p]}, {}, "plan", NoRole) /\ UNCHANGED todo
       ELSE \E r \in todo[p] : /\ EndStart(p, {at[p]}, {}, "start", r)
                               /\ todo' = [todo EXCEPT ![p] = @ \ {r}]
    /\ UNCHANGED <<pinned, lease, locking, container>>

(* Mutant of GiveUp: the tickets not come to yet are forgotten.            *)
GiveUpOne(p) ==
    /\ EndStart(p, {at[p]}, {at[p]}, "idle", NoRole)
    /\ todo' = [todo EXCEPT ![p] = {}]
    /\ UNCHANGED <<pinned, lease, locking, container>>

(* The failed ticket gets the exception's text, which may be empty, and    *)
(* the rest get one that is not.                                           *)
GiveUp(p) ==
    /\ \E failed \in {{at[p]} \cup todo[p], todo[p]} :
          EndStart(p, {at[p]} \cup todo[p], failed, "idle", NoRole)
    /\ todo' = [todo EXCEPT ![p] = {}]
    /\ UNCHANGED <<pinned, lease, locking, container>>

(* Mutant of LandBad: a worker that failed its probe is not registered.    *)
LandBadDropped(p) ==
    /\ pc[p] = "landBad" /\ lock = Free
    /\ GiveUp(p) /\ UNCHANGED <<workers, idle, older>>

(* Registered anyway: the idle sweep is to stop it.                        *)
LandBad(p) == pc[p] = "landBad" /\ lock = Free /\ AddWorker(at[p]) /\ GiveUp(p)

LandErr(p) ==
    /\ pc[p] = "landErr" /\ lock = Free
    /\ GiveUp(p) /\ UNCHANGED <<workers, idle, older>>
-----------------------------------------------------------------------------
(* /release, /renew, /status and /admin, each one stretch under the lock.  *)

(* _expire_lapsed: lapsed handles go, and their roles' idle clocks start.  *)
LeaseAfterExpiry == [p \in Proc |-> IF p \in Lapsed THEN "none" ELSE lease[p]]
ExpireHandles == TouchWorkers({req[p] : p \in Lapsed})

(* A handle the broker no longer knows is answered 404, which the client   *)
(* ignores.                                                                *)
Release(p) ==
    /\ pc[p] = "held" /\ lock = Free
    /\ lease' = [lease EXCEPT ![p] = "none"]
    /\ TouchWorkers(IF lease[p] = "none" THEN {} ELSE {req[p]})
    /\ Reset(p)
    /\ UNCHANGED <<workers, pinned, ticket, locking, at, todo, container>>

(* A lease is pushed forward, or an open handle gets one; a lapsed handle  *)
(* is dropped before it is looked up (404).                                *)
Renew(p) ==
    /\ pc[p] = "held" /\ lock = Free
    /\ Lapsed # {} \/ lease[p] = "open"
    /\ \E l \in IF lease[p] = "open" THEN {"open", "live"} ELSE {LeaseAfterExpiry[p]} :
          lease' = [LeaseAfterExpiry EXCEPT ![p] = l]
    /\ ExpireHandles
    /\ UNCHANGED <<workers, pinned, ticket, locking, requests, container>>

Status ==
    /\ lock = Free /\ Lapsed # {}
    /\ lease' = LeaseAfterExpiry /\ ExpireHandles
    /\ UNCHANGED <<workers, pinned, ticket, locking, requests, container>>

Pin(r) ==
    /\ lock = Free /\ r \in Pinnable
    /\ pinned' = pinned \cup {r}
    /\ idle' = [idle EXCEPT ![r] = "never"]
    /\ UNCHANGED <<workers, older, ticket, lease, locking, requests, container>>

(* Mutant of Unpin: the idle clock is not re-armed.                        *)
UnpinOnly(r) ==
    /\ lock = Free /\ r \in Pinnable
    /\ pinned' = pinned \ {r}
    /\ UNCHANGED <<workers, idle, older, ticket, lease, locking, requests, container>>

(* Whether it was pinned or not.                                           *)
Unpin(r) ==
    /\ lock = Free /\ r \in Pinnable
    /\ pinned' = pinned \ {r}
    /\ idle' = [idle EXCEPT ![r] = IF r \in workers \cap HasIdle THEN "armed" ELSE @]
    /\ UNCHANGED <<workers, older, ticket, lease, locking, requests, container>>
-----------------------------------------------------------------------------
(* _idle_sweep_loop: expire handles, then stop every idle worker, keeping  *)
(* the lock from the first stop to the last.                               *)

(* Mutant of CandidatesToStopForIdle: any client's handle keeps every      *)
(* worker.                                                                 *)
CandidatesIfNobodyHolds(clocks, held) ==
    {r \in workers : clocks[r] = "fired" /\ held = {} /\ r \notin pinned}

CandidatesToStopForIdle(clocks, held) ==
    {r \in workers : clocks[r] = "fired" /\ r \notin held \cup pinned}

(* Mutant of SweepBegin: hold_until is never read.                         *)
SweepBeginNoExpiry ==
    /\ lock = Free
    /\ LET swept == CandidatesToStopForIdle(idle, HeldRoles)
       IN  swept # {} /\ lock' = Sweeper /\ plan' = WithEvict(NoPlan, swept)
    /\ UNCHANGED <<broker, requests, container>>

SweepBegin ==
    /\ lock = Free
    /\ LET swept == CandidatesToStopForIdle(
                       TouchedIdle({req[p] : p \in Lapsed}),
                       {req[p] : p \in {q \in Proc : LeaseAfterExpiry[q] # "none"}})
       IN  IF swept = {}
           THEN Lapsed # {} /\ UNCHANGED locking
           ELSE lock' = Sweeper /\ plan' = WithEvict(NoPlan, swept)
    /\ lease' = LeaseAfterExpiry /\ ExpireHandles
    /\ UNCHANGED <<workers, pinned, ticket, requests, container>>

SweepStop ==
    /\ lock = Sweeper
    /\ \E v \in plan.evict :
          /\ StopWorker(v)
          /\ IF plan.evict = {v} THEN Unlock
             ELSE plan' = WithEvict(plan, plan.evict \ {v}) /\ UNCHANGED lock
    /\ UNCHANGED <<pinned, ticket, lease, requests>>

(* The exception ends this sweep, not the loop.                            *)
SweepFail ==
    /\ "stopfail" \in Faults
    /\ lock = Sweeper
    /\ \E v \in plan.evict : StopFails(v)
    /\ Unlock
    /\ UNCHANGED <<broker, requests>>
-----------------------------------------------------------------------------
(* Time, the models, and what happens behind the broker's back.            *)

IdleFires(r) ==
    /\ idle[r] = "armed" /\ idle' = [idle EXCEPT ![r] = "fired"]
    /\ UNCHANGED <<workers, older, pinned, ticket, lease, locking, requests, container>>

LeaseLapses(p) ==
    /\ lease[p] = "live" /\ lease' = [lease EXCEPT ![p] = "lapsed"]
    /\ UNCHANGED <<workers, idle, older, pinned, ticket, locking, requests, container>>

ModelLoads(r) ==
    /\ container[r] = "loading" /\ container' = [container EXCEPT ![r] = "ready"]
    /\ UNCHANGED <<broker, locking, requests>>

(* `docker stop` by hand, or the worker process dies.                      *)
ExternalStop(r) ==
    /\ "extstop" \in Faults
    /\ r \in Running /\ container' = [container EXCEPT ![r] = "down"]
    /\ UNCHANGED <<broker, locking, requests>>

(* The broker dies and comes back: memory is lost, and every running       *)
(* container becomes a worker again (rediscover_from_docker).  Requests in *)
(* flight fail; a client that was answered believes it still holds.        *)
Restart ==
    /\ "restart" \in Faults
    /\ workers' = Running
    /\ pinned' = {} /\ older' = {}
    /\ idle' = [r \in Role |-> IF r \in Running \cap HasIdle THEN "armed" ELSE "never"]
    /\ ticket' = [r \in Role |-> NoProc]
    /\ lease' = [p \in Proc |-> "none"]
    /\ Unlock
    /\ pc' = [p \in Proc |-> IF pc[p] = "held" THEN "held" ELSE "idle"]
    /\ req' = [p \in Proc |-> IF pc[p] = "held" THEN req[p] ELSE NoRole]
    /\ at' = [p \in Proc |-> NoRole]
    /\ todo' = [p \in Proc |-> {}]
    /\ UNCHANGED container
-----------------------------------------------------------------------------
Acquire(p) ==
    \/ \E r \in Role : AcquireReq(p, r)
    \/ PlanWait(p) \/ PlanRefuse(p) \/ PlanGrant(p) \/ PlanCommit(p)
    \/ EvictStop(p) \/ EvictFail(p) \/ Reserve(p) \/ ReserveRaise(p)
    \/ StartOk(p) \/ StartRaise(p) \/ HealthOk(p) \/ HealthTimeout(p)
    \/ LandOk(p) \/ LandBad(p) \/ LandErr(p)
Client(p) == Release(p) \/ Renew(p)
Admin(r) == Pin(r) \/ Unpin(r)
Sweep == SweepBegin \/ SweepStop \/ SweepFail
Environment(r) == IdleFires(r) \/ ModelLoads(r) \/ ExternalStop(r)

Next ==
    \/ \E p \in Proc : Acquire(p) \/ Client(p) \/ LeaseLapses(p)
    \/ \E r \in Role : Admin(r) \/ Environment(r)
    \/ Status \/ Sweep \/ Restart

Spec == Init /\ [][Next]_vars

(* What the scheduling owes: a Docker call returns or raises, a probe ends *)
(* by its deadline, a model that is loading comes up, time passes.  Weak   *)
(* fairness is enough for those.  Whoever waits for State.lock gets it:    *)
(* asyncio.Lock serves its waiters first come, first served, but a request *)
(* sees the lock taken again and again meanwhile, hence strong fairness.   *)
(* Clients and operators owe nothing.                                      *)
Fairness ==
    /\ \A p \in Proc :
          /\ WF_vars(EvictStop(p) \/ EvictFail(p) \/ Reserve(p) \/ ReserveRaise(p))
          /\ WF_vars(StartOk(p) \/ StartRaise(p))
          /\ WF_vars(HealthOk(p) \/ HealthTimeout(p))
          /\ SF_vars(PlanWait(p) \/ PlanRefuse(p) \/ PlanGrant(p) \/ PlanCommit(p))
          /\ SF_vars(LandOk(p) \/ LandBad(p) \/ LandErr(p))
    /\ \A r \in Role : WF_vars(ModelLoads(r)) /\ WF_vars(IdleFires(r))
    /\ SF_vars(SweepBegin) /\ WF_vars(SweepStop \/ SweepFail)

FairSpec == Spec /\ Fairness
-----------------------------------------------------------------------------
(* Properties *)

Charged == workers \cup Starting

(* The ledger never promises more of a card than its budget: the residents *)
(* and the reservations of starts in flight fit together, whatever order   *)
(* concurrent acquires plan, evict, reserve and land in.                   *)
BudgetRespected == \A g \in Gpu : SumMb[OnCard(Charged, g)] <= Budget[g]

(* Whatever runs in Docker is charged: between docker run and add_worker,  *)
(* between docker stop and remove_worker, and across a broker restart.     *)
LedgerTracksDocker == Running \subseteq Charged

(* Every ticket in State.starting belongs to a request that is working on  *)
(* it, so it is going to be ended.                                         *)
TicketsOwned ==
    \A r \in Starting : LET p == ticket[r]
                        IN  pc[p] \in Working /\ r \in {at[p]} \cup todo[p]

(* A request that waits on a ticket waits on one that is still in          *)
(* State.starting: end_start never passes it by, and, as the ticket's      *)
(* owner works and does not wait, requests never wait in a circle.         *)
WaitersCovered == \A p \in Proc : pc[p] = "wait" => at[p] \in Starting

(* DockerManager is not thread-safe, and starts run outside the lock: no   *)
(* two threads ever start the same role, and none starts a role another is *)
(* stopping.                                                               *)
StartStopExclusive ==
    \A p \in Proc : pc[p] = "start" =>
        /\ at[p] \notin plan.evict \cup workers
        /\ \A q \in Proc \ {p} : pc[q] \in Working => at[p] \notin {at[q]} \cup todo[q]

(* A worker is exempt from the idle shutdown exactly while it is pinned or *)
(* its role never idles out, whatever order pins, touches, starts and      *)
(* releases come in.                                                       *)
IdleClockSet == \A r \in workers : idle[r] = "never" <=> r \notin HasIdle \ pinned

(* The broker without its requests, lock, plans and threads.               *)
Holds == [p \in Proc |-> IF lease[p] = "none" THEN NoRole ELSE req[p]]
Abstract == INSTANCE Residency WITH
    resident <- workers, reserved <- Starting, holds <- Holds

(* Every step of the broker is a step of Residency or invisible there: it  *)
(* reserves only what fits, lands only what it reserved, stops no pinned   *)
(* worker, grants only residents, and forgets the rest in a crash.         *)
Refines == Abstract!Spec

(* Two roles that each evict the other (llm_small and llm_large) are never *)
(* both resident or starting.                                              *)
MutualEviction == Abstract!Apart(Charged)

(* From its decision to the last docker stop a plan stays as good as it    *)
(* was when it was made, although every stop is awaited in a thread: what  *)
(* is left of it makes room for the target, and its victims are still due, *)
(* by pins, holds and age as they are now.  Warming what a resident role   *)
(* implies stops nothing.                                                  *)
PlanStaysDue ==
    \A p \in Proc : lock = p =>
        /\ AreDue(Snapshot, req[p], plan.evict)
        /\ IF req[p] \in workers THEN plan.evict = {}
           ELSE MakesRoom(Snapshot, req[p], plan.evict)

(* A 503 is final: no start is in flight on the role's card, whose landing *)
(* could bring something to evict, and stopping all that may be stopped    *)
(* would not do.  (A role without a card waits for starts on any card.)    *)
RefusalsFinal ==
    [][\A p \in Proc : PlanRefuse(p) =>
          /\ \A r \in Starting : GpuOf[req[p]] \notin {NoGpu, GpuOf[r]}
          /\ GpuOf[req[p]] = NoGpu \/ Hopeless(Snapshot, req[p])]_vars

(* A handle the broker knows keeps its worker resident until it is         *)
(* released or lapses; only evict_on_acquire may take it away.             *)
HeldRoleStays ==
    \A p \in Proc : lease[p] # "none" =>
        req[p] \in workers \/ \E r \in Role : req[p] \in EvictOn[r]

(* The broker stops no worker that is pinned at that moment, although the  *)
(* victims were chosen some Docker calls earlier.                          *)
PinnedNotStopped == [][pinned \cap workers \cap pinned' \subseteq workers']_vars

(* A handle is granted only on a worker that answers its health probe.     *)
GrantedServes ==
    [][\A p \in Proc : pc[p] = "plan" /\ pc'[p] = "held" => container[req[p]] = "ready"]_vars

(* Whoever waits for another request's cold start is woken.                *)
WaitEnds == \A p \in Proc : pc[p] = "wait" ~> pc[p] # "wait"

(* A lapsed lease is dropped, even if no client ever calls again.          *)
LapsedDropped == \A p \in Proc : lease[p] = "lapsed" ~> lease[p] # "lapsed"

(* A worker whose idle clock fired does not stay: it is stopped unless a   *)
(* client takes it, or touches it, or an operator pins it.                 *)
IdleStopped ==
    \A r \in Role : (r \in workers /\ idle[r] = "fired" /\ r \notin HeldRoles)
                    ~> ~(r \in workers /\ idle[r] = "fired" /\ r \notin HeldRoles)
=============================================================================
