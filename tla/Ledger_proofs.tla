---------------------------- MODULE Ledger_proofs ----------------------------
(***************************************************************************)
(* What the ledger's books are worth, and under which conditions on        *)
(* roles.yaml and on Docker.  The conditions are needed: the runs          *)
(* orphan_ticket and implies_overcommit break the theorems without them.   *)
(* Then that the broker implements Residency.                              *)
(***************************************************************************)
EXTENDS Broker_proofs

USE DEF Working, RoleTable

PlanPlaceable == \A r \in plan.start : GpuOf[r] # NoGpu

LEMMA PlanIsPlaceable ==
    ASSUME Placeable, NEW st, NEW r \in Role, NEW pl \in PlanAcquire(st, r)
    PROVE  \A s \in pl.start : GpuOf[s] # NoGpu
  BY DEF Placeable, PlanAcquire, MakePlan, ToWarm

LEMMA PlaceableStep ==
    ASSUME Placeable, IInv, PlanPlaceable, [Next]_vars PROVE PlanPlaceable'
  <1> USE DEF PlanPlaceable
  <1>1. ASSUME NEW p \in Proc, PlanCommit(p) PROVE PlanPlaceable'
    <2>1. req[p] \in Role
      BY <1>1 DEF PlanCommit, Planning, IInv, Requested
    <2> QED
      BY <1>1, <2>1, PlanIsPlaceable DEF PlanCommit
  <1>2. CASE UNCHANGED plan
    BY <1>2
  <1>3. CASE Unlock
    BY <1>3 DEF Unlock, NoPlan
  <1>4. CASE \E S : plan' = WithEvict(plan, S) \/ plan' = WithEvict(NoPlan, S)
    BY <1>4 DEF WithEvict, NoPlan
  <1>5. CASE SweepBegin
    BY <1>5, <1>2, <1>4 DEF SweepBegin, locking
  <1> QED
    BY <1>1, <1>2, <1>3, <1>4, <1>5
    DEF Next, Acquire, Client, Admin, Sweep, Environment, broker, locking, requests, vars,
        AcquireReq, PlanWait, PlanRefuse, PlanGrant, EvictStop, EvictFail, Reserve,
        ReserveRaise, StartOk, StartRaise, HealthOk, HealthTimeout, LandOk, LandBad, LandErr,
        GiveUp, Release, Renew, Status, Pin, Unpin, SweepStop, SweepFail, IdleFires,
        LeaseLapses, ModelLoads, ExternalStop, Restart

LEMMA TicketsStep ==
    ASSUME IInv, PlanPlaceable, TicketsOwned, [Next]_vars PROVE TicketsOwned'
  <1> SUFFICES ASSUME NEW r \in Role, ticket'[r] # NoProc
               PROVE  /\ pc'[ticket'[r]] \in Working
                      /\ r \in {at'[ticket'[r]]} \cup todo'[ticket'[r]]
    BY DEF TicketsOwned, Starting
  <1> DEFINE Goal == /\ pc'[ticket'[r]] \in Working
                     /\ r \in {at'[ticket'[r]]} \cup todo'[ticket'[r]]
  <1>0. ticket[r] # NoProc => /\ ticket[r] \in Proc
                              /\ pc[ticket[r]] \in Working
                              /\ r \in {at[ticket[r]]} \cup todo[ticket[r]]
    BY DEF TicketsOwned, Starting, IInv, TypeOK
  <1> USE DEF IInv, TypeOK
  <1>1. CASE UNCHANGED <<ticket, pc, at, todo>>
    BY <1>1, <1>0
  <1>2. ASSUME NEW p \in Proc, Acquire(p) PROVE Goal
    <2>1. CASE \E s \in Role : AcquireReq(p, s)
      BY <2>1, <1>0 DEF AcquireReq, broker
    <2>2. CASE PlanWait(p)
      BY <2>2, <1>0 DEF PlanWait, Planning, broker
    <2>3. CASE PlanRefuse(p)
      BY <2>3, <1>0 DEF PlanRefuse, Planning, Reset, broker
    <2>4. CASE PlanGrant(p)
      BY <2>4, <1>0 DEF PlanGrant, Planning
    <2>5. CASE PlanCommit(p)
      BY <2>5, <1>0 DEF PlanCommit, Planning, broker
    <2>6. CASE EvictStop(p)
      BY <2>6, <1>1 DEF EvictStop, requests
    <2>7. CASE EvictFail(p)
      <3>1. pc[p] = "evict"
        BY <2>7 DEF EvictFail, LockRule
      <3> QED
        BY <2>7, <3>1, <1>0 DEF EvictFail, Reset, broker
    <2>8. CASE Reserve(p)
      <3>1. pc[p] = "evict" /\ pc' = [pc EXCEPT ![p] = "start"]
        BY <2>8 DEF Reserve, LockRule
      <3>2. PICK first : /\ at' = [at EXCEPT ![p] = first]
                         /\ todo' = [todo EXCEPT ![p] = plan.start \ {first}]
        BY <2>8 DEF Reserve
      <3>3. ticket' = [s \in Role |-> IF s \in plan.start THEN p ELSE ticket[s]]
        BY <2>8 DEF Reserve
      <3>4. CASE r \in plan.start
        BY <3>1, <3>2, <3>3, <3>4
      <3>5. CASE r \notin plan.start
        BY <3>1, <3>2, <3>3, <3>5, <1>0
      <3> QED
        BY <3>4, <3>5
    <2>9. CASE ReserveRaise(p)
      BY <2>9 DEF ReserveRaise, PlanPlaceable
    <2>10. CASE StartOk(p) \/ StartRaise(p) \/ HealthOk(p) \/ HealthTimeout(p)
      <3>1. \E next \in Working : pc' = [pc EXCEPT ![p] = next]
        BY <2>10 DEF StartOk, StartRaise, HealthOk, HealthTimeout
      <3>2. UNCHANGED <<ticket, at, todo>>
        BY <2>10 DEF StartOk, StartRaise, HealthOk, HealthTimeout, broker
      <3> QED
        BY <3>1, <3>2, <1>0
    <2>11. CASE LandOk(p)
      <3>0. ticket' = [s \in Role |-> IF s \in {at[p]} THEN NoProc ELSE ticket[s]]
        BY <2>11 DEF LandOk, EndStart
      <3>1. ticket'[r] = ticket[r] /\ r # at[p]
        BY <3>0
      <3>2. CASE ticket[r] = p
        <4>1. r \in todo[p]
          BY <3>1, <3>2, <1>0
        <4>2. PICK s \in todo[p] : /\ EndStart(p, {at[p]}, {}, "start", s)
                                   /\ todo' = [todo EXCEPT ![p] = @ \ {s}]
          BY <2>11, <4>1 DEF LandOk
        <4>3. pc'[p] = "start" /\ at'[p] = s
          BY <4>2 DEF EndStart, Raised
        <4> QED
          BY <3>1, <3>2, <4>1, <4>2, <4>3
      <3>3. CASE ticket[r] # p
        <4>1. todo'[ticket[r]] = todo[ticket[r]]
          BY <2>11, <3>1, <3>3, <1>0 DEF LandOk
        <4>2. pc'[ticket[r]] = pc[ticket[r]] /\ at'[ticket[r]] = at[ticket[r]]
          BY <2>11, <3>1, <3>3, <1>0 DEF LandOk, EndStart, Woken, Raised
        <4> QED
          BY <3>1, <4>1, <4>2, <1>0
      <3> QED
        BY <3>2, <3>3
    <2>12. CASE LandBad(p) \/ LandErr(p)
      <3>1. PICK failed :
               /\ EndStart(p, {at[p]} \cup todo[p], failed, "idle", NoRole)
               /\ todo' = [todo EXCEPT ![p] = {}]
        BY <2>12 DEF LandBad, LandErr, GiveUp
      <3>2. ticket'[r] = ticket[r] /\ r \notin {at[p]} \cup todo[p]
        BY <3>1 DEF EndStart
      <3>3. ticket[r] # p
        BY <3>2, <1>0
      <3>4. pc'[ticket[r]] = pc[ticket[r]] /\ at'[ticket[r]] = at[ticket[r]]
        BY <3>1, <3>2, <3>3, <1>0 DEF EndStart, Woken, Raised
      <3> QED
        BY <3>1, <3>2, <3>3, <3>4, <1>0
    <2> QED
      BY <1>2, <2>1, <2>2, <2>3, <2>4, <2>5, <2>6, <2>7, <2>8, <2>9, <2>10, <2>11, <2>12
      DEF Acquire
  <1>3. ASSUME NEW p \in Proc, Client(p) PROVE Goal
    BY <1>3, <1>0 DEF Client, Release, Renew, Reset, requests
  <1>4. CASE Restart
    BY <1>4 DEF Restart
  <1>5. CASE Status \/ Sweep
    BY <1>5, <1>1 DEF Status, Sweep, SweepBegin, SweepStop, SweepFail, requests, broker
  <1>6. CASE \E s \in Role : Admin(s) \/ Environment(s)
    BY <1>6, <1>1 DEF Admin, Pin, Unpin, Environment, IdleFires, ModelLoads, ExternalStop,
                      requests, broker
  <1>7. CASE (\E p \in Proc : LeaseLapses(p)) \/ UNCHANGED vars
    BY <1>7, <1>1 DEF LeaseLapses, vars, requests, broker
  <1> QED
    BY <1>2, <1>3, <1>4, <1>5, <1>6, <1>7 DEF Next

(* With placeable implied roles no ticket is ever orphaned: each is owned  *)
(* by a request that is working on it.                                     *)
THEOREM NoOrphans == ASSUME Placeable PROVE Spec => []TicketsOwned
  <1>1. Init => TicketsOwned /\ PlanPlaceable
    BY DEF Init, TicketsOwned, Starting, PlanPlaceable, NoPlan
  <1>2. IInv /\ TicketsOwned /\ PlanPlaceable /\ [Next]_vars => (TicketsOwned /\ PlanPlaceable)'
    BY TicketsStep, PlaceableStep
  <1> QED
    BY <1>1, <1>2, Invariant, PTL DEF Spec

-----------------------------------------------------------------------------
(* A role whose start has not been attempted has no running container.     *)
UntouchedDown ==
    \A p \in Proc :
        /\ pc[p] \in Working => \A r \in todo[p] : container[r] = "down"
        /\ pc[p] \in {"start", "landErr"} => container[at[p]] = "down"

LEMMA DockerStep ==
    ASSUME "startlost" \notin Faults, IInv, LedgerTracksDocker, UntouchedDown, [Next]_vars
    PROVE  (LedgerTracksDocker /\ UntouchedDown)'
  <1> USE DEF IInv, TypeOK, LedgerTracksDocker, UntouchedDown, Running, Charged, Starting
  <1>0. Working' = Working
    OBVIOUS
  <1>1. ASSUME NEW p \in Proc, Acquire(p) PROVE (LedgerTracksDocker /\ UntouchedDown)'
    <2>1. CASE (\E r \in Role : AcquireReq(p, r)) \/ PlanWait(p) \/ PlanRefuse(p)
      BY <2>1 DEF AcquireReq, PlanWait, PlanRefuse, Planning, Reset, broker
    <2>2. CASE PlanGrant(p) \/ PlanCommit(p)
      BY <2>2 DEF PlanGrant, PlanCommit, Planning, broker
    <2>3. CASE EvictStop(p)
      BY <2>3 DEF EvictStop, StopWorker, requests
    <2>4. CASE EvictFail(p)
      BY <2>4 DEF EvictFail, StopFails, Reset, broker
    <2>5. CASE Reserve(p)
      <3>1. plan.start \subseteq Role /\ \A r \in plan.start : container[r] = "down"
        BY DEF LockRule, Plan
      <3>2. PICK first \in plan.start : /\ at' = [at EXCEPT ![p] = first]
                                       /\ todo' = [todo EXCEPT ![p] = plan.start \ {first}]
        <4> DEFINE firsts == IF req[p] \in plan.start THEN {req[p]} ELSE plan.start
        <4>1. firsts \subseteq plan.start
          OBVIOUS
        <4>2. \E first \in firsts : /\ at' = [at EXCEPT ![p] = first]
                                   /\ todo' = [todo EXCEPT ![p] = plan.start \ {first}]
          BY <2>5 DEF Reserve
        <4> HIDE DEF firsts
        <4> QED
          BY <4>1, <4>2
      <3>3. /\ ticket' = [r \in Role |-> IF r \in plan.start THEN p ELSE ticket[r]]
            /\ pc' = [pc EXCEPT ![p] = "start"] /\ UNCHANGED <<workers, container>>
        BY <2>5 DEF Reserve
      <3>4. LedgerTracksDocker'
        BY <3>3, BrokerAssumption
      <3>5. UntouchedDown'
        BY <3>1, <3>2, <3>3
      <3> QED
        BY <3>4, <3>5
    <2>6. CASE ReserveRaise(p)
      BY <2>6, BrokerAssumption DEF ReserveRaise, Reset
    <2>7. CASE StartOk(p)
      <3>1. at[p] \in Role /\ ticket[at[p]] = p /\ at[p] \notin todo[p]
        BY <2>7 DEF StartOk, Owned
      <3>2. \A q \in Proc : pc[q] \in Working /\ q # p => at[p] \notin {at[q]} \cup todo[q]
        BY <3>1 DEF Owned
      <3> QED
        BY <2>7, <3>1, <3>2, BrokerAssumption DEF StartOk, broker
    <2>8. CASE StartRaise(p)
      BY <2>8 DEF StartRaise, broker
    <2>9. CASE HealthOk(p) \/ HealthTimeout(p)
      BY <2>9 DEF HealthOk, HealthTimeout, broker
    <2>10. CASE LandOk(p)
      <3>1. /\ workers' = workers \cup {at[p]} /\ pc[p] = "landOk"
            /\ ticket' = [r \in Role |-> IF r \in {at[p]} THEN NoProc ELSE ticket[r]]
            /\ UNCHANGED container
        BY <2>10 DEF LandOk, AddWorker, EndStart
      <3>2. LedgerTracksDocker'
        BY <3>1
      <3>3. PICK next \in {"plan", "start"}, role \in Role \cup {NoRole} :
               /\ EndStart(p, {at[p]}, {}, next, role)
               /\ next = "start" => role \in todo[p] /\ todo' = [todo EXCEPT ![p] = @ \ {role}]
               /\ next = "plan" => UNCHANGED todo
        <4>1. CASE todo[p] = {}
          BY <2>10, <4>1 DEF LandOk
        <4>2. CASE todo[p] # {}
          BY <2>10, <4>2 DEF LandOk
        <4> QED
          BY <4>1, <4>2
      <3>4. UntouchedDown'
        BY <3>1, <3>3 DEF EndStart, Woken, Raised
      <3> QED
        BY <3>2, <3>4
    <2>11. CASE LandBad(p)
      BY <2>11 DEF LandBad, GiveUp, AddWorker, EndStart, Woken, Raised
    <2>12. CASE LandErr(p)
      BY <2>12 DEF LandErr, GiveUp, EndStart, Woken, Raised
    <2> QED
      BY <1>1, <2>1, <2>2, <2>3, <2>4, <2>5, <2>6, <2>7, <2>8, <2>9, <2>10, <2>11, <2>12
      DEF Acquire
  <1>2. ASSUME NEW p \in Proc, Client(p) \/ LeaseLapses(p)
        PROVE  (LedgerTracksDocker /\ UntouchedDown)'
    BY <1>2 DEF Client, Release, Renew, Reset, LeaseLapses, requests
  <1>3. CASE Restart
    BY <1>3 DEF Restart
  <1>4. CASE SweepStop
    BY <1>4 DEF SweepStop, StopWorker, requests
  <1>5. CASE SweepFail
    BY <1>5 DEF SweepFail, StopFails, requests, broker
  <1>6. CASE Status \/ SweepBegin
    BY <1>6 DEF Status, SweepBegin, requests
  <1>7. CASE \E r \in Role : Admin(r) \/ Environment(r)
    <2>1. ASSUME NEW r \in Role, Admin(r) \/ IdleFires(r)
          PROVE  (LedgerTracksDocker /\ UntouchedDown)'
      BY <2>1 DEF Admin, Pin, Unpin, IdleFires, requests
    <2>2. ASSUME NEW r \in Role, ModelLoads(r) \/ ExternalStop(r)
          PROVE  (LedgerTracksDocker /\ UntouchedDown)'
      <3>1. /\ container[r] # "down"
            /\ \E c : container' = [container EXCEPT ![r] = c]
            /\ UNCHANGED <<workers, ticket, pc, at, todo>>
        BY <2>2 DEF ModelLoads, ExternalStop, Running, broker, requests
      <3>2. \A s \in Role : container[s] = "down" => container'[s] = "down"
        BY <3>1
      <3>3. \A p \in Proc : pc[p] \in Working => {at[p]} \cup todo[p] \subseteq Role
        BY DEF Owned
      <3> QED
        BY <3>1, <3>2, <3>3
    <2> QED
      BY <1>7, <2>1, <2>2 DEF Environment
  <1>8. CASE UNCHANGED vars
    BY <1>8 DEF vars, requests, broker
  <1> QED
    BY <1>1, <1>2, <1>3, <1>4, <1>5, <1>6, <1>7, <1>8 DEF Next, Sweep

LEMMA DockerInvariant ==
    ASSUME "startlost" \notin Faults PROVE Spec => [](LedgerTracksDocker /\ UntouchedDown)
  <1>1. Init => LedgerTracksDocker /\ UntouchedDown
    BY DEF Init, LedgerTracksDocker, UntouchedDown, Running
  <1>2. IInv /\ (LedgerTracksDocker /\ UntouchedDown) /\ [Next]_vars
        => (LedgerTracksDocker /\ UntouchedDown)'
    BY DockerStep
  <1> QED
    BY <1>1, <1>2, Invariant, PTL DEF Spec

(* As long as docker_mgr never raises after it started a container, every  *)
(* running container is resident or reserved in the ledger, also across    *)
(* failed stops and broker restarts.                                       *)
THEOREM DockerTracked ==
    ASSUME "startlost" \notin Faults PROVE Spec => []LedgerTracksDocker
  BY DockerInvariant, PTL

(* What comes back in a restart is what was charged: no start is lost, or  *)
(* the broker never restarts.                                              *)
NoneComesBack == "startlost" \notin Faults \/ "restart" \notin Faults
Recovers == "restart" \in Faults => LedgerTracksDocker

LEMMA RecoveryInvariant == ASSUME NoneComesBack PROVE Spec => []Recovers
  <1>1. CASE "startlost" \notin Faults
    <2>1. LedgerTracksDocker => Recovers
      BY DEF Recovers
    <2> QED
      BY <1>1, <2>1, DockerTracked, PTL
  <1>2. CASE "restart" \notin Faults
    <2>1. Recovers
      BY <1>2 DEF Recovers
    <2> QED
      BY <2>1, PTL
  <1> QED
    BY <1>1, <1>2 DEF NoneComesBack
-----------------------------------------------------------------------------
(* What is charged once the lock holder's plan is carried out.             *)
AfterPlan(pl) == (Charged \ pl.evict) \cup pl.start

PlanRoom ==
    lock \in Proc => \A g \in Gpu : SumMb[OnCard(AfterPlan(plan), g)] <= Budget[g]

(* The plan's room on a card whose budget is respected: what it leaves     *)
(* there, not counting the implied roles, fits.                            *)
LEMMA TargetFits ==
    ASSUME TypeOK, NotBoth, BudgetRespected, IsSnapshot(Snapshot),
           NEW r \in Role, r \notin Starting,
           NEW pl \in PlanAcquire(Snapshot, r), NEW g \in Gpu
    PROVE  SumMb[OnCard((Charged \ pl.evict) \cup {r}, g)] <= Budget[g]
  <1> DEFINE Left == (Charged \ pl.evict) \cup {r}
  <1> USE ConfigAssumption
  <1>1. Charged \in SUBSET Role
    BY DEF Charged, Starting, TypeOK
  <1>2. SumMb[OnCard(Charged, g)] <= Budget[g]
    BY DEF BudgetRespected
  <1>3. CASE r \in workers \/ GpuOf[r] # g
    <2>1. OnCard(Left, g) \in SUBSET OnCard(Charged, g)
      BY <1>3 DEF OnCard, Charged
    <2>2. OnCard(Charged, g) \in SUBSET Role
      BY <1>1 DEF OnCard
    <2>3. SumMb[OnCard(Left, g)] <= SumMb[OnCard(Charged, g)]
      BY <2>1, <2>2, SumMono
    <2>4. OnCard(Left, g) \in SUBSET Role
      BY <2>1, <2>2
    <2> HIDE DEF Left
    <2>5. SumMb[OnCard(Left, g)] \in Nat /\ SumMb[OnCard(Charged, g)] \in Nat
      BY <2>2, <2>4, SumAssumption
    <2>6. Budget[g] \in Nat
      OBVIOUS
    <2>7. SumMb[OnCard(Left, g)] <= Budget[g]
      BY <1>2, <2>3, <2>5, <2>6
    <2> QED
      BY <2>7 DEF Left
  <1>4. CASE r \notin workers /\ GpuOf[r] = g
    <2> DEFINE Stay == OnCard(workers \ pl.evict, g)
               Due == OnCard(Starting, g)
    <2>1. Stay \in SUBSET Role /\ Due \in SUBSET Role /\ Stay \cap Due = {}
      BY DEF OnCard, Starting, TypeOK, NotBoth
    <2>2. SumMb[Stay] + SumMb[Due] + LoadedMb[r] <= Budget[g]
      <3>1. MakesRoom(Snapshot, r, pl.evict)
        BY <1>4, PlanMakesRoom DEF Snapshot
      <3> DEFINE Done == [Snapshot EXCEPT !.workers = @ \ pl.evict]
      <3>2. Budget[g] - (SumMb[Stay] + SumMb[Due]) >= LoadedMb[r]
        <4>1. Done.workers = workers \ pl.evict /\ Done.starting = Starting
          BY DEF Snapshot
        <4>2. FreeMb(Done, g) >= LoadedMb[r]
          BY <1>4, <3>1 DEF MakesRoom
        <4> HIDE DEF Done
        <4> QED
          BY <4>1, <4>2 DEF FreeMb, UsedMb
      <3> HIDE DEF Stay, Due
      <3>3. /\ SumMb[Stay] \in Nat /\ SumMb[Due] \in Nat
            /\ LoadedMb[r] \in Nat /\ Budget[g] \in Nat
        BY <2>1, SumAssumption
      <3> QED
        BY <3>2, <3>3
    <2>3. /\ OnCard(Left, g) \in SUBSET ((Stay \cup Due) \cup {r})
          /\ r \notin Stay \cup Due
      BY <1>4 DEF OnCard, Charged
    <2> HIDE DEF Stay, Due, Left
    <2>4. /\ SumMb[Stay \cup Due] = SumMb[Stay] + SumMb[Due]
          /\ SumMb[(Stay \cup Due) \cup {r}] = SumMb[Stay \cup Due] + SumMb[{r}]
      <3>1. Stay \cup Due \in SUBSET Role /\ {r} \in SUBSET Role
            /\ (Stay \cup Due) \cap {r} = {}
        BY <2>1, <2>3
      <3>2. SumMb[Stay \cup Due] = SumMb[Stay] + SumMb[Due]
        BY <2>1, SumApart
      <3> DEFINE Both == Stay \cup Due
      <3> HIDE DEF Both
      <3>3. SumMb[Both \cup {r}] = SumMb[Both] + SumMb[{r}]
        BY <3>1, SumApart DEF Both
      <3> QED
        BY <3>2, <3>3 DEF Both
    <2>5. SumMb[{r}] = LoadedMb[r]
      BY SumAssumption
    <2>6. SumMb[OnCard(Left, g)] <= SumMb[(Stay \cup Due) \cup {r}]
      BY <2>1, <2>3, SumMono
    <2>7. /\ OnCard(Left, g) \in SUBSET Role
          /\ (Stay \cup Due) \cup {r} \in SUBSET Role
      BY <2>1, <2>3
    <2>8. /\ SumMb[OnCard(Left, g)] \in Nat /\ Budget[g] \in Nat
          /\ SumMb[(Stay \cup Due) \cup {r}] \in Nat
      BY <2>7, SumAssumption
    <2>9. SumMb[OnCard(Left, g)] <= Budget[g]
      BY <2>2, <2>4, <2>5, <2>6, <2>8
    <2> QED
      BY <2>9 DEF Left
  <1> QED
    BY <1>3, <1>4

(* With implied roles that fit, the whole plan does.                       *)
LEMMA PlanFitsBudget ==
    ASSUME WarmFits, TypeOK, NotBoth, BudgetRespected, IsSnapshot(Snapshot),
           NEW r \in Role, r \notin Starting,
           NEW pl \in PlanAcquire(Snapshot, r), NEW g \in Gpu
    PROVE  SumMb[OnCard(AfterPlan(pl), g)] <= Budget[g]
  <1> DEFINE Left == (Charged \ pl.evict) \cup {r}
  <1>1. Left \in SUBSET Role /\ Implies[r] \in SUBSET Role
    BY ConfigAssumption DEF Charged, Starting, TypeOK
  <1>2. AfterPlan(pl) \in SUBSET (Left \cup Implies[r])
    BY DEF AfterPlan, PlanAcquire, MakePlan, ToWarm
  <1>3. SumMb[OnCard(Left, g)] <= Budget[g]
    BY TargetFits
  <1> HIDE DEF Left
  <1>4. r \in Left
    BY DEF Left
  <1>5. SumMb[OnCard(Left \cup Implies[r], g)] <= Budget[g]
    BY <1>1, <1>3, <1>4 DEF WarmFits
  <1>6. SumMb[OnCard(AfterPlan(pl), g)] <= SumMb[OnCard(Left \cup Implies[r], g)]
    BY <1>1, <1>2, CardMono
  <1>7. /\ OnCard(AfterPlan(pl), g) \in SUBSET Role
        /\ OnCard(Left \cup Implies[r], g) \in SUBSET Role
    BY <1>1, <1>2 DEF OnCard
  <1>8. /\ SumMb[OnCard(AfterPlan(pl), g)] \in Nat
        /\ SumMb[OnCard(Left \cup Implies[r], g)] \in Nat
    BY <1>7, SumAssumption
  <1>9. Budget[g] \in Nat
    BY ConfigAssumption
  <1> QED
    BY <1>5, <1>6, <1>8, <1>9

(* A step either takes charges away, or decides on a plan, or carries on   *)
(* with one without changing what it leads to, or reserves what it leads   *)
(* to and drops it.                                                        *)
LEMMA ChargedStep ==
    ASSUME IInv, Recovers, [Next]_vars
    PROVE  \/ Charged' \subseteq Charged /\ lock' \notin Proc
           \/ /\ Charged' \subseteq Charged
              /\ AfterPlan(plan)' = AfterPlan(plan)
              /\ UNCHANGED lock /\ plan'.start = plan.start
           \/ \E p \in Proc : PlanCommit(p) /\ Charged' = Charged
           \/ lock \in Proc /\ lock' \notin Proc /\ Charged' \subseteq AfterPlan(plan)
  <1> DEFINE Less == Charged' \subseteq Charged /\ lock' \notin Proc
             Same == /\ Charged' \subseteq Charged
                     /\ AfterPlan(plan)' = AfterPlan(plan)
                     /\ UNCHANGED lock /\ plan'.start = plan.start
  <1> USE BrokerAssumption
  <1>1. ASSUME UNCHANGED <<workers, ticket>>, lock' \notin Proc \/ UNCHANGED locking
        PROVE  Less \/ Same
    BY <1>1 DEF AfterPlan, Charged, Starting, locking
  <1>2. ASSUME NEW p \in Proc, PlanCommit(p) PROVE Charged' = Charged
    BY <1>2 DEF PlanCommit, broker, Charged, Starting
  <1>3. ASSUME NEW p \in Proc, EvictStop(p) PROVE Same
    <2>1. PICK v \in plan.evict : /\ workers' = workers \ {v}
                                  /\ plan' = WithEvict(plan, plan.evict \ {v})
      BY <1>3 DEF EvictStop, StopWorker
    <2>2. UNCHANGED <<ticket, lock>>
      BY <1>3 DEF EvictStop
    <2>3. v \notin Starting
      BY <2>1 DEF IInv, LockRule, NotBoth
    <2>4. Charged' = Charged \ {v}
      BY <2>1, <2>2, <2>3 DEF Charged, Starting
    <2>5. plan'.evict = plan.evict \ {v} /\ plan'.start = plan.start
      BY <2>1 DEF WithEvict
    <2> QED
      BY <2>1, <2>2, <2>4, <2>5 DEF AfterPlan
  <1>4. ASSUME NEW p \in Proc, Reserve(p) \/ ReserveRaise(p)
        PROVE  lock \in Proc /\ lock' \notin Proc /\ Charged' \subseteq AfterPlan(plan)
    <2>1. /\ lock = p /\ plan.evict = {} /\ lock' = Free /\ UNCHANGED workers
          /\ \E S \in SUBSET plan.start :
                ticket' = [r \in Role |-> IF r \in S THEN p ELSE ticket[r]]
      BY <1>4 DEF Reserve, ReserveRaise, Unlock
    <2> QED
      BY <2>1 DEF Charged, Starting, AfterPlan
  <1>5. ASSUME NEW p \in Proc, LandOk(p) \/ LandBad(p) \/ LandErr(p) PROVE Less
    <2>1. at[p] \in Starting
      BY <1>5 DEF LandOk, LandBad, LandErr, IInv, Owned, Starting
    <2>2. workers' \in SUBSET (workers \cup {at[p]}) /\ lock' = Free
      BY <1>5 DEF LandOk, LandBad, LandErr, GiveUp, AddWorker, locking
    <2>3. \E S : ticket' = [r \in Role |-> IF r \in S THEN NoProc ELSE ticket[r]]
      BY <1>5 DEF LandOk, LandBad, LandErr, GiveUp, EndStart
    <2> QED
      BY <2>1, <2>2, <2>3 DEF Charged, Starting
  <1>6. ASSUME NEW p \in Proc, Acquire(p) \/ Client(p) \/ LeaseLapses(p)
        PROVE  \/ Less \/ Same
               \/ PlanCommit(p) \/ Reserve(p) \/ ReserveRaise(p)
    BY <1>6, <1>1, <1>3, <1>5
    DEF Acquire, AcquireReq, PlanWait, PlanRefuse, PlanGrant, EvictFail, StartOk, StartRaise,
        HealthOk, HealthTimeout, Unlock, broker, Client, Release, Renew, LeaseLapses
  <1>7. ASSUME SweepStop PROVE Less
    <2>1. Charged' \subseteq Charged
      BY <1>7 DEF SweepStop, StopWorker, Charged, Starting
    <2>2. lock' \notin Proc
      BY <1>7 DEF SweepStop, Unlock
    <2> QED
      BY <2>1, <2>2
  <1>8. ASSUME Restart PROVE Less
    <2>1. Charged' = Running /\ lock' = Free
      BY <1>8 DEF Restart, Charged, Starting, Unlock
    <2> QED
      BY <1>8, <2>1 DEF Restart, Recovers, LedgerTracksDocker
  <1>9. ASSUME SweepBegin \/ SweepFail \/ Status \/ UNCHANGED vars PROVE Less \/ Same
    BY <1>9, <1>1 DEF SweepBegin, SweepFail, Status, Unlock, locking, broker, vars
  <1>10. ASSUME NEW r \in Role, Admin(r) \/ Environment(r) PROVE Less \/ Same
    BY <1>10, <1>1 DEF Admin, Pin, Unpin, Environment, IdleFires, ModelLoads, ExternalStop, broker
  <1> HIDE DEF Less, Same
  <1>11. \/ Less \/ Same
         \/ \E p \in Proc : PlanCommit(p) \/ Reserve(p) \/ ReserveRaise(p)
    BY <1>6, <1>7, <1>8, <1>9, <1>10 DEF Next, Sweep
  <1> QED
    BY <1>2, <1>4, <1>11 DEF Less, Same

LEMMA BudgetStep ==
    ASSUME WarmFits, IInv, Recovers, IsSnapshot(Snapshot),
           BudgetRespected, PlanRoom, [Next]_vars
    PROVE  (BudgetRespected /\ PlanRoom)'
  <1>0. /\ Charged \in SUBSET Role
        /\ AfterPlan(plan) \in SUBSET Role
    BY ConfigAssumption DEF AfterPlan, Charged, Starting, IInv, TypeOK, Plan
  <1>1. ASSUME NEW T \in SUBSET Role, Charged' \in SUBSET T,
               \A g \in Gpu : SumMb[OnCard(T, g)] <= Budget[g]
        PROVE  BudgetRespected'
    <2> SUFFICES ASSUME NEW g \in Gpu PROVE SumMb[OnCard(Charged', g)] <= Budget[g]
      BY DEF BudgetRespected, OnCard
    <2>1. SumMb[OnCard(Charged', g)] <= SumMb[OnCard(T, g)]
      BY <1>1, CardMono
    <2>2. OnCard(Charged', g) \in SUBSET Role /\ OnCard(T, g) \in SUBSET Role
      BY <1>1 DEF OnCard
    <2>3. SumMb[OnCard(Charged', g)] \in Nat /\ SumMb[OnCard(T, g)] \in Nat
      BY <2>2, SumAssumption
    <2>4. Budget[g] \in Nat /\ SumMb[OnCard(T, g)] <= Budget[g]
      BY <1>1, ConfigAssumption
    <2> QED
      BY <2>1, <2>3, <2>4
  <1>2. ASSUME Charged' \subseteq Charged PROVE BudgetRespected'
    BY <1>0, <1>1, <1>2 DEF BudgetRespected
  <1>3. CASE Charged' \subseteq Charged /\ lock' \notin Proc
    BY <1>2, <1>3 DEF PlanRoom
  <1>4. CASE /\ Charged' \subseteq Charged
             /\ AfterPlan(plan)' = AfterPlan(plan)
             /\ UNCHANGED lock
    BY <1>2, <1>4 DEF PlanRoom, OnCard
  <1>5. CASE \E p \in Proc : PlanCommit(p) /\ Charged' = Charged
    <2>1. PICK p \in Proc : PlanCommit(p) /\ Charged' = Charged
      BY <1>5
    <2>2. PICK pl \in PlanAcquire(Snapshot, req[p]) : plan' = pl
      BY <2>1 DEF PlanCommit
    <2>3. req[p] \in Role /\ req[p] \notin Starting
      BY <2>1, ConfigAssumption DEF PlanCommit, Planning, Blockers, IInv, Requested
    <2>4. \A g \in Gpu : SumMb[OnCard(AfterPlan(pl), g)] <= Budget[g]
      BY <2>2, <2>3, PlanFitsBudget DEF IInv
    <2>5. PlanRoom'
      BY <2>1, <2>2, <2>4 DEF PlanRoom, AfterPlan, OnCard
    <2> QED
      BY <2>1, <2>5, <1>2
  <1>6. CASE lock \in Proc /\ lock' \notin Proc /\ Charged' \subseteq AfterPlan(plan)
    BY <1>0, <1>1, <1>6 DEF PlanRoom
  <1> QED
    BY <1>3, <1>4, <1>5, <1>6, ChargedStep

(* If what fits beside a role still fits with all it implies, no card is   *)
(* ever promised more than its budget, whatever acquires interleave and    *)
(* whatever fails, unless a broker restart finds a container that a failed *)
(* start left behind.                                                      *)
THEOREM BudgetSafe ==
    ASSUME WarmFits, NoneComesBack PROVE Spec => []BudgetRespected
  <1>1. Init => BudgetRespected /\ PlanRoom
    <2> SUFFICES ASSUME Init PROVE BudgetRespected /\ PlanRoom
      OBVIOUS
    <2>1. \A g : OnCard(Charged, g) = {}
      BY DEF Init, Charged, Starting, OnCard
    <2>2. BudgetRespected
      BY <2>1, SumAssumption, ConfigAssumption DEF BudgetRespected
    <2>3. lock \notin Proc
      BY BrokerAssumption DEF Init
    <2> QED
      BY <2>2, <2>3 DEF PlanRoom
  <1>2. IInv /\ Recovers /\ IsSnapshot(Snapshot)
            /\ (BudgetRespected /\ PlanRoom) /\ [Next]_vars
        => (BudgetRespected /\ PlanRoom)'
    BY BudgetStep
  <1> QED
    BY <1>1, <1>2, Invariant, RecoveryInvariant, PlansFromSnapshots, PTL DEF Spec
-----------------------------------------------------------------------------
(* The broker implements Residency, under the conditions that its books    *)
(* need.                                                                   *)

PinsAllowed == pinned \subseteq Pinnable
PlanApart == lock \in Proc => Abstract!Apart(AfterPlan(plan))

LEMMA PinsStep == PinsAllowed /\ [Next]_vars => PinsAllowed'
  BY DEF PinsAllowed, Next, Acquire, Client, Admin, Sweep, Environment, broker, locking,
     requests, vars, AcquireReq, PlanWait, PlanRefuse, PlanGrant, PlanCommit, EvictStop,
     EvictFail, Reserve, ReserveRaise, StartOk, StartRaise, HealthOk, HealthTimeout, LandOk,
     LandBad, LandErr, GiveUp, Release, Renew, Status, Pin, Unpin, SweepBegin, SweepStop,
     SweepFail, IdleFires, LeaseLapses, ModelLoads, ExternalStop, Restart

LEMMA ApartMono ==
    ASSUME NEW T, NEW S \in SUBSET T, Abstract!Apart(T) PROVE Abstract!Apart(S)
  BY DEF Abstract!Apart

(* The hard evictions of a plan leave nothing its target excludes.         *)
LEMMA PlanIsApart ==
    ASSUME TypeOK, PinsAllowed, MutualEviction,
           NEW r \in Role, Blockers(r) = {}, NEW pl \in PlanAcquire(Snapshot, r)
    PROVE  Abstract!Apart(AfterPlan(pl))
  <1> SUFFICES ASSUME NEW u \in AfterPlan(pl), NEW v \in AfterPlan(pl),
                      Abstract!Exclusive(u, v)
               PROVE  FALSE
    BY DEF Abstract!Apart
  <1>0. r \notin Starting /\ EvictOn[r] \cap Starting = {}
    BY DEF Blockers
  <1>1. u \notin Implies[r] /\ v \notin Implies[r]
    BY DEF Abstract!Exclusive
  <1>2. u \in Charged \cup {r} /\ v \in Charged \cup {r}
    BY <1>1 DEF AfterPlan, PlanAcquire, MakePlan, ToWarm
  <1>3. CASE r \in workers
    <2>1. u \in Charged /\ v \in Charged
      BY <1>2, <1>3 DEF Charged
    <2> QED
      BY <2>1 DEF MutualEviction, Abstract!Apart
  <1>4. ASSUME r \notin workers, NEW s \in AfterPlan(pl), s \notin Implies[r], s # r,
               s \in EvictOn[r], s \notin Pinnable
        PROVE  FALSE
    <2>1. FilterEvictable(Snapshot, r) \subseteq pl.evict /\ pl.start \subseteq {r} \cup Implies[r]
      BY <1>4 DEF PlanAcquire, MakePlan, Snapshot, ToWarm
    <2>2. s \in workers
      BY <1>0, <1>4, <2>1 DEF AfterPlan, Charged
    <2>3. s \in FilterEvictable(Snapshot, r)
      BY <1>4, <2>2 DEF FilterEvictable, Snapshot, PinsAllowed
    <2> QED
      BY <1>4, <2>1, <2>3 DEF AfterPlan
  <1>5. CASE r \notin workers
    <2>1. u # r \/ v # r
      BY DEF Abstract!Exclusive
    <2>2. u \in Charged /\ v \in Charged => FALSE
      BY DEF MutualEviction, Abstract!Apart
    <2>3. u = r \/ v = r
      BY <1>2, <2>2
    <2>4. CASE u = r
      BY <1>1, <1>4, <1>5, <2>1, <2>4 DEF Abstract!Exclusive
    <2>5. CASE v = r
      BY <1>1, <1>4, <1>5, <2>1, <2>5 DEF Abstract!Exclusive
    <2> QED
      BY <2>3, <2>4, <2>5
  <1> QED
    BY <1>3, <1>5

LEMMA ApartStep ==
    ASSUME IInv, Recovers, PinsAllowed, MutualEviction, PlanApart, [Next]_vars
    PROVE  (MutualEviction /\ PlanApart)'
  <1>1. ASSUME Charged' \subseteq Charged PROVE MutualEviction'
    <2>1. Abstract!Apart(Charged')
      BY <1>1 DEF MutualEviction, Abstract!Apart
    <2> QED
      BY <2>1 DEF MutualEviction, Abstract!Apart, Abstract!Exclusive
  <1>2. CASE Charged' \subseteq Charged /\ lock' \notin Proc
    BY <1>1, <1>2 DEF PlanApart
  <1>3. CASE /\ Charged' \subseteq Charged
             /\ AfterPlan(plan)' = AfterPlan(plan)
             /\ UNCHANGED lock
    BY <1>1, <1>3 DEF PlanApart, Abstract!Apart, Abstract!Exclusive
  <1>4. CASE \E p \in Proc : PlanCommit(p) /\ Charged' = Charged
    <2>1. PICK p \in Proc : PlanCommit(p) /\ Charged' = Charged
      BY <1>4
    <2>2. PICK pl \in PlanAcquire(Snapshot, req[p]) : plan' = pl
      BY <2>1 DEF PlanCommit
    <2>3. req[p] \in Role /\ Blockers(req[p]) = {}
      BY <2>1 DEF PlanCommit, Planning, IInv, Requested
    <2>4. Abstract!Apart(AfterPlan(pl))
      BY <2>2, <2>3, PlanIsApart DEF IInv
    <2>5. AfterPlan(plan)' = AfterPlan(pl)
      BY <2>1, <2>2 DEF AfterPlan
    <2>6. PlanApart'
      BY <2>4, <2>5 DEF PlanApart, Abstract!Apart, Abstract!Exclusive
    <2> QED
      BY <2>1, <2>6, <1>1
  <1>5. CASE lock \in Proc /\ lock' \notin Proc /\ Charged' \subseteq AfterPlan(plan)
    BY <1>5 DEF PlanApart, MutualEviction, Abstract!Apart, Abstract!Exclusive
  <1> QED
    BY <1>2, <1>3, <1>4, <1>5, ChargedStep

LEMMA ApartInvariant ==
    ASSUME NoneComesBack
    PROVE  Spec => [](PinsAllowed /\ MutualEviction /\ PlanApart)
  <1>1. Init => PinsAllowed /\ MutualEviction /\ PlanApart
    BY BrokerAssumption
    DEF Init, PinsAllowed, MutualEviction, PlanApart, Charged, Starting, Abstract!Apart
  <1>2. IInv /\ Recovers /\ (PinsAllowed /\ MutualEviction /\ PlanApart) /\ [Next]_vars
        => (PinsAllowed /\ MutualEviction /\ PlanApart)'
    BY PinsStep, ApartStep
  <1> QED
    BY <1>1, <1>2, Invariant, RecoveryInvariant, PTL DEF Spec

(* Two roles that evict each other are never resident or starting at once, *)
(* whatever acquires interleave, as long as neither may be pinned or is    *)
(* implied, and no lost container comes back in a restart.                 *)
THEOREM EvictionIsMutual ==
    ASSUME NoneComesBack PROVE Spec => []MutualEviction
  BY ApartInvariant, PTL
-----------------------------------------------------------------------------
(* How the handles look from outside: only those who hold are seen.        *)
LEMMA HoldsSame ==
    ASSUME \A p \in Proc : lease'[p] = "none" <=> lease[p] = "none",
           \A p \in Proc : lease[p] # "none" => req'[p] = req[p]
    PROVE  Holds' = Holds
  BY DEF Holds

(* A step that leaves workers, tickets, pins and handles alone is          *)
(* invisible.                                                              *)
LEMMA Invisible ==
    ASSUME UNCHANGED <<workers, ticket, pinned>>, UNCHANGED Holds
    PROVE  UNCHANGED Abstract!vars
  BY DEF Abstract!vars, Starting

LEMMA StopStep ==
    ASSUME IInv, NEW v \in plan.evict, StopWorker(v), UNCHANGED <<ticket, pinned, lease, req>>
    PROVE  Abstract!Next
  <1>1. Starting' = Starting /\ Holds' = Holds /\ workers' = workers \ {v}
    BY DEF Starting, Holds, StopWorker
  <1>2. v \in workers \ pinned
    BY DEF IInv, LockRule
  <1>3. (\E p \in Proc : Holds[p] = v) => \E s \in Role : v \in EvictOn[s]
    BY <1>2, BrokerAssumption DEF Holds, IInv, TypeOK, VictimsUnheld
  <1>4. Abstract!Stop(v)
    BY <1>1, <1>2, <1>3 DEF Abstract!Stop
  <1> QED
    BY <1>2, <1>4 DEF Abstract!Next

LEMMA ReserveStep ==
    ASSUME IInv, BudgetRespected', MutualEviction', NEW p \in Proc, Reserve(p) \/ ReserveRaise(p)
    PROVE  [Abstract!Next]_(Abstract!vars)
  <1>1. PICK S \in SUBSET plan.start : ticket' = [r \in Role |-> IF r \in S THEN p ELSE ticket[r]]
    BY DEF Reserve, ReserveRaise
  <1>2. UNCHANGED <<workers, pinned, lease>> /\ lock = p
    BY DEF Reserve, ReserveRaise
  <1>3. Starting' = Starting \cup S /\ S \subseteq Role \ Charged
    BY <1>1, BrokerAssumption DEF Starting, IInv, TypeOK, Plan, LockRule
  <1>4. Holds' = Holds
    <2>1. pc[p] = "evict"
      BY <1>2 DEF IInv, LockRule
    <2>2. \A q \in Proc : lease[q] # "none" => req'[q] = req[q]
      BY <2>1 DEF Reserve, ReserveRaise, Reset, IInv, TypeOK, Requested
    <2> QED
      BY <1>2, <2>2, HoldsSame
  <1>5. CASE S = {}
    BY <1>2, <1>3, <1>4, <1>5 DEF Abstract!vars
  <1>6. CASE S # {}
    <2>1. Abstract!Fits(Charged') /\ Abstract!Apart(Charged')
      <3>1. Abstract!Fits(Charged')
        BY DEF BudgetRespected, Abstract!Fits, OnCard, Abstract!OnCard
      <3>2. Abstract!Apart(Charged')
        BY DEF MutualEviction, Abstract!Apart, Abstract!Exclusive
      <3> QED
        BY <3>1, <3>2
    <2>2. Abstract!Charged = Charged /\ Abstract!Charged' = Charged'
      BY DEF Abstract!Charged, Charged
    <2>3. /\ Starting' \in SUBSET (Role \ workers)
          /\ Starting \subseteq Starting' /\ Starting' # Starting
      BY <1>3, <1>6 DEF Charged, Starting, IInv, NotBoth
    <2>4. Abstract!Reserve
      BY <1>2, <1>4, <2>1, <2>2, <2>3 DEF Abstract!Reserve
    <2> QED
      BY <2>4 DEF Abstract!Next
  <1> QED
    BY <1>5, <1>6

LEMMA LandStep ==
    ASSUME IInv, NEW p \in Proc, LandOk(p) \/ LandBad(p) \/ LandErr(p)
    PROVE  Abstract!Next
  <1>0. pc[p] \in {"landOk", "landBad", "landErr"} /\ UNCHANGED <<pinned, lease>>
    BY DEF LandOk, LandBad, LandErr, GiveUp
  <1>1. at[p] \in Starting /\ todo[p] \subseteq Starting
    BY <1>0, BrokerAssumption DEF IInv, Owned, Starting, TypeOK
  <1>2. PICK S \in {{at[p]}, {at[p]} \cup todo[p]},
             failed \in {{}, todo[p], {at[p]} \cup todo[p]},
             next \in {"idle", "plan", "start"}, role \in Role \cup {NoRole} :
                EndStart(p, S, failed, next, role)
    <2>1. CASE LandOk(p) /\ todo[p] = {}
      BY <2>1 DEF LandOk
    <2>2. CASE LandOk(p) /\ todo[p] # {}
      BY <1>1, <2>2 DEF LandOk, Starting
    <2>3. CASE LandBad(p) \/ LandErr(p)
      BY <2>3 DEF LandBad, LandErr, GiveUp
    <2> QED
      BY <2>1, <2>2, <2>3
  <1>3. S \subseteq Starting /\ at[p] \in S
    BY <1>1, <1>2
  <1>4. Starting' = Starting \ S
    BY <1>2 DEF EndStart, Starting
  <1>5. Holds' = Holds
    <2>1. \A q \in Proc : lease[q] # "none" => req'[q] = req[q]
      BY <1>0, <1>2 DEF EndStart, Raised, Woken, IInv, Requested
    <2> QED
      BY <1>0, <2>1, HoldsSame
  <1>6. CASE LandOk(p) \/ LandBad(p)
    <2>1. workers' = workers \cup {at[p]}
      BY <1>6 DEF LandOk, LandBad, AddWorker
    <2>2. Abstract!Land(at[p])
      BY <1>0, <1>3, <1>4, <1>5, <2>1 DEF Abstract!Land
    <2> QED
      BY <1>1, <2>2 DEF Abstract!Next
  <1>7. CASE LandErr(p)
    <2>1. Abstract!GiveUp
      BY <1>0, <1>3, <1>4, <1>5, <1>7 DEF Abstract!GiveUp, LandErr
    <2> QED
      BY <1>3, <2>1 DEF Abstract!Next
  <1> QED
    BY <1>6, <1>7

(* Lapsed handles are dropped, whoever notices.                            *)
LEMMA ExpireStep ==
    ASSUME IInv, UNCHANGED <<workers, ticket, pinned, req>>,
           \A p \in Proc : lease'[p] = "none" <=> LeaseAfterExpiry[p] = "none"
    PROVE  [Abstract!Next]_(Abstract!vars)
  <1>1. Holds' = [p \in Proc |-> IF p \in Lapsed THEN NoRole ELSE Holds[p]]
    BY DEF Holds, LeaseAfterExpiry
  <1>2. Starting' = Starting /\ Lapsed \in SUBSET Proc
    BY DEF Starting, Lapsed
  <1>3. CASE Lapsed = {}
    BY <1>1, <1>2, <1>3 DEF Abstract!vars, Holds
  <1>4. CASE Lapsed # {}
    BY <1>1, <1>2, <1>4 DEF Abstract!Next, Abstract!Drop
  <1> QED
    BY <1>3, <1>4

LEMMA RefineStep ==
    ASSUME IInv, Recovers, BudgetRespected', MutualEviction', PinsAllowed,
           [Next]_vars
    PROVE  [Abstract!Next]_(Abstract!vars)
  <1> USE BrokerAssumption DEF IInv, TypeOK
  <1>1. ASSUME NEW p \in Proc, Acquire(p) PROVE [Abstract!Next]_(Abstract!vars)
    <2>1. CASE (\E r \in Role : AcquireReq(p, r)) \/ PlanWait(p) \/ PlanRefuse(p) \/ PlanCommit(p)
               \/ EvictFail(p)
      <3>1. UNCHANGED <<workers, ticket, pinned, lease>>
        BY <2>1 DEF AcquireReq, PlanWait, PlanRefuse, PlanCommit, EvictFail, broker
      <3>2. pc[p] # "held"
        BY <2>1 DEF AcquireReq, PlanWait, PlanRefuse, PlanCommit, EvictFail, Planning, LockRule
      <3>3. \A q \in Proc \ {p} : req'[q] = req[q]
        BY <2>1 DEF AcquireReq, PlanWait, PlanRefuse, PlanCommit, EvictFail, Reset
      <3>4. Holds' = Holds
        BY <3>1, <3>2, <3>3, HoldsSame DEF Requested
      <3> QED
        BY <3>1, <3>4, Invisible
    <2>2. CASE PlanGrant(p)
      <3>1. UNCHANGED <<workers, ticket, pinned, req>> /\ pc[p] = "plan"
        BY <2>2 DEF PlanGrant, Planning
      <3>2. PICK l \in {"open", "live"} : lease' = [lease EXCEPT ![p] = l]
        BY <2>2 DEF PlanGrant
      <3>3. req[p] \in Role /\ req[p] \notin Starting /\ lease[p] = "none"
        BY <2>2, <3>1 DEF PlanGrant, Planning, Blockers, Requested
      <3>4. req[p] \in workers
        <4>1. PICK pl \in PlanAcquire(Snapshot, req[p]) : pl.start = {}
          BY <2>2 DEF PlanGrant
        <4> QED
          BY <4>1, <3>3, PlanSound
      <3>5. Holds' = [Holds EXCEPT ![p] = req[p]] /\ Holds[p] = NoRole
        BY <3>1, <3>2, <3>3 DEF Holds
      <3>6. Abstract!Grant(p, req[p])
        BY <3>1, <3>4, <3>5 DEF Abstract!Grant, Starting
      <3> QED
        BY <3>4, <3>6 DEF Abstract!Next
    <2>3. CASE EvictStop(p)
      <3>1. PICK v \in plan.evict : StopWorker(v)
        BY <2>3 DEF EvictStop
      <3> QED
        BY <2>3, <3>1, StopStep DEF EvictStop, requests
    <2>4. CASE Reserve(p) \/ ReserveRaise(p)
      BY <2>4, ReserveStep
    <2>5. CASE StartOk(p) \/ StartRaise(p) \/ HealthOk(p) \/ HealthTimeout(p)
      <3>1. UNCHANGED <<workers, ticket, pinned, lease, req>>
        BY <2>5 DEF StartOk, StartRaise, HealthOk, HealthTimeout, broker
      <3> QED
        BY <3>1, Invisible, HoldsSame
    <2>6. CASE LandOk(p) \/ LandBad(p) \/ LandErr(p)
      BY <2>6, LandStep
    <2> QED
      BY <1>1, <2>1, <2>2, <2>3, <2>4, <2>5, <2>6 DEF Acquire
  <1>2. ASSUME NEW p \in Proc, Release(p) PROVE [Abstract!Next]_(Abstract!vars)
    <2>1. /\ lease' = [lease EXCEPT ![p] = "none"]
          /\ req' = [req EXCEPT ![p] = NoRole]
      BY <1>2 DEF Release, Reset
    <2>2. Holds' = [q \in Proc |-> IF q \in {p} THEN NoRole ELSE Holds[q]]
      BY <2>1 DEF Holds
    <2>3. Abstract!Drop({p})
      BY <1>2, <2>2 DEF Abstract!Drop, Release, Starting
    <2> QED
      BY <2>3 DEF Abstract!Next
  <1>3. ASSUME NEW p \in Proc, Renew(p) PROVE [Abstract!Next]_(Abstract!vars)
    <2>1. UNCHANGED <<workers, ticket, pinned, req>>
      BY <1>3 DEF Renew, requests
    <2>2. PICK l \in IF lease[p] = "open" THEN {"open", "live"} ELSE {LeaseAfterExpiry[p]} :
               lease' = [LeaseAfterExpiry EXCEPT ![p] = l]
      BY <1>3 DEF Renew
    <2>3. \A q \in Proc : lease'[q] = "none" <=> LeaseAfterExpiry[q] = "none"
      BY <2>2 DEF LeaseAfterExpiry, Lapsed
    <2> QED
      BY <2>1, <2>3, ExpireStep
  <1>4. CASE Status \/ SweepBegin
    BY <1>4, ExpireStep DEF Status, SweepBegin, requests
  <1>5. CASE SweepStop
    <2>1. PICK v \in plan.evict : StopWorker(v)
      BY <1>5 DEF SweepStop
    <2> QED
      BY <1>5, <2>1, StopStep DEF SweepStop, requests
  <1>6. CASE SweepFail \/ UNCHANGED vars
    BY <1>6, Invisible DEF SweepFail, requests, broker, vars, Holds
  <1>7. ASSUME NEW r \in Role, Admin(r) PROVE [Abstract!Next]_(Abstract!vars)
    <2>1. UNCHANGED <<workers, ticket, lease, req>>
      BY <1>7 DEF Admin, Pin, Unpin, requests
    <2>2. Holds' = Holds /\ Starting' = Starting
      BY <2>1 DEF Holds, Starting
    <2>3. Abstract!Pin(r) \/ Abstract!Unpin(r) \/ UNCHANGED pinned
      <3>1. CASE Pin(r)
        BY <2>2, <3>1 DEF Pin, Abstract!Pin
      <3>2. CASE Unpin(r) /\ r \in pinned
        BY <2>2, <3>2 DEF Unpin, Abstract!Unpin
      <3>3. CASE Unpin(r) /\ r \notin pinned
        BY <3>3 DEF Unpin
      <3> QED
        BY <1>7, <3>1, <3>2, <3>3 DEF Admin
    <2>4. CASE UNCHANGED pinned
      BY <2>1, <2>2, <2>4, Invisible
    <2> QED
      BY <2>3, <2>4 DEF Abstract!Next
  <1>8. ASSUME NEW r \in Role, Environment(r) PROVE [Abstract!Next]_(Abstract!vars)
    BY <1>8, Invisible
    DEF Environment, IdleFires, ModelLoads, ExternalStop, requests, broker, Holds
  <1>9. ASSUME NEW p \in Proc, LeaseLapses(p) PROVE [Abstract!Next]_(Abstract!vars)
    <2>1. UNCHANGED <<workers, ticket, pinned, req>>
      BY <1>9 DEF LeaseLapses, requests
    <2> QED
      BY <1>9, <2>1, Invisible, HoldsSame DEF LeaseLapses
  <1>10. CASE Restart
    <2>1. workers' \subseteq Charged /\ Starting' = {} /\ pinned' = {}
      BY <1>10 DEF Restart, Recovers, LedgerTracksDocker, Starting
    <2>2. Holds' = [p \in Proc |-> NoRole]
      BY <1>10 DEF Restart, Holds
    <2>3. Abstract!Crash
      BY <2>1, <2>2 DEF Abstract!Crash, Abstract!Charged, Charged
    <2> QED
      BY <2>3 DEF Abstract!Next
  <1> QED
    BY <1>1, <1>2, <1>3, <1>4, <1>5, <1>6, <1>7, <1>8, <1>9, <1>10
    DEF Next, Client, Sweep

(* The broker implements Residency: whatever interleaves, fails or         *)
(* restarts, it reserves only what fits, lands only what it reserved,      *)
(* stops no pinned worker, and grants only residents.                      *)
THEOREM Implements ==
    ASSUME WarmFits, NoneComesBack PROVE Spec => Refines
  <1>1. Init => Abstract!Init
    BY DEF Init, Abstract!Init, Starting, Holds
  <1>2. Spec => [](IInv /\ Recovers /\ BudgetRespected /\ MutualEviction /\ PinsAllowed)
    BY Invariant, RecoveryInvariant, BudgetSafe, ApartInvariant, PTL
  <1>3. /\ IInv /\ Recovers /\ BudgetRespected /\ MutualEviction /\ PinsAllowed
        /\ (IInv /\ Recovers /\ BudgetRespected /\ MutualEviction /\ PinsAllowed)'
        /\ [Next]_vars
        => [Abstract!Next]_(Abstract!vars)
    BY RefineStep
  <1> QED
    BY <1>1, <1>2, <1>3, PTL DEF Spec, Refines, Abstract!Spec
=============================================================================
