---------------------------- MODULE Broker_proofs ----------------------------
(***************************************************************************)
(* Theorems about Broker, for every role table, ledger, set of clients and *)
(* choice of faults that its assumptions admit.                            *)
(***************************************************************************)
EXTENDS Broker, Policy_proofs

USE DEF Working, RoleTable

(* A plan names roles only.                                                *)
LEMMA PlanTyped ==
    ASSUME NEW st, st.workers \subseteq Role, NEW r \in Role,
           NEW pl \in PlanAcquire(st, r)
    PROVE  /\ pl \in Plan
           /\ DOMAIN pl = {"evict", "start", "touch"}
  <1>1. LruVictims(st, r) \subseteq SUBSET Role
    BY DEF LruVictims, LruCandidates, OnCard
  <1>2. ToWarm(st, r) \subseteq Role /\ ToTouch(st, r) \subseteq Role
    BY ConfigAssumption DEF ToWarm, ToTouch
  <1>3. FilterEvictable(st, r) \subseteq Role
    BY DEF FilterEvictable
  <1> QED
    BY <1>1, <1>2, <1>3 DEF PlanAcquire, MakePlan, Plan

LEMMA NewestTyped ==
    ASSUME NEW old \in SUBSET (Role \X Role), NEW S \in SUBSET Role, NEW W \in SUBSET Role
    PROVE  Newest(old, S, W) \in SUBSET (Role \X Role)
  BY DEF Newest

(* What the helpers of State that touch or add workers leave behind.       *)
LEMMA TouchTyped ==
    ASSUME TypeOK, NEW S, TouchWorkers(S)
    PROVE  /\ idle' \in [Role -> {"never", "armed", "fired"}]
           /\ older' \in SUBSET (Role \X Role)
  <1>1. S \cap workers \in SUBSET Role /\ workers \in SUBSET Role
    BY DEF TypeOK
  <1>2. older \in SUBSET (Role \X Role)
    BY DEF TypeOK
  <1> QED
    BY <1>1, <1>2, NewestTyped DEF TypeOK, TouchWorkers, TouchedIdle, IdleClock

LEMMA AddTyped ==
    ASSUME TypeOK, NEW r \in Role, AddWorker(r)
    PROVE  /\ workers' \subseteq Role
           /\ idle' \in [Role -> {"never", "armed", "fired"}]
           /\ older' \in SUBSET (Role \X Role)
  <1>1. older' \in SUBSET (Role \X Role)
    BY NewestTyped DEF TypeOK, AddWorker
  <1> QED
    BY <1>1 DEF TypeOK, AddWorker, IdleClock

LEMMA EndTyped ==
    ASSUME TypeOK, NEW p \in Proc, NEW S, NEW failed, NEW next \in {"idle", "plan", "start"},
           NEW role \in Role \cup {NoRole}, EndStart(p, S, failed, next, role)
    PROVE  /\ ticket' \in [Role -> Proc \cup {NoProc}]
           /\ pc' \in [Proc -> {"idle", "plan", "evict", "wait", "held"} \cup Working]
           /\ req' \in [Proc -> Role \cup {NoRole}]
           /\ at' \in [Proc -> Role \cup {NoRole}]
  BY DEF TypeOK, EndStart

(* A request at work on cold starts holds the tickets of the role it is    *)
(* starting and of those it has not come to, and these are all different.  *)
Owned ==
    \A p \in Proc : pc[p] \in Working =>
        /\ at[p] \in Role \ todo[p]
        /\ \A r \in {at[p]} \cup todo[p] : ticket[r] = p

LEMMA TypeStep == TypeOK /\ Owned /\ [Next]_vars => TypeOK'
  <1> SUFFICES ASSUME TypeOK, Owned, [Next]_vars PROVE TypeOK'
    OBVIOUS
  <1> USE ConfigAssumption, BrokerAssumption DEF TypeOK
  <1>1. ASSUME NEW p \in Proc, NEW r \in Role, AcquireReq(p, r) PROVE TypeOK'
    BY <1>1 DEF AcquireReq, broker, locking
  <1>2. ASSUME NEW p \in Proc, PlanWait(p) PROVE TypeOK'
    BY <1>2 DEF PlanWait, Planning, Blockers, Starting, broker, locking
  <1>3. ASSUME NEW p \in Proc, PlanRefuse(p) PROVE TypeOK'
    BY <1>3 DEF PlanRefuse, Reset, broker, locking
  <1>4. ASSUME NEW p \in Proc, PlanGrant(p) PROVE TypeOK'
    <2>1. PICK pl \in PlanAcquire(Snapshot, req[p]) :
             /\ idle' = TouchedIdle(pl.touch \cup {req[p]})
             /\ older' = Newest(Newest(older, pl.touch, workers), {req[p]}, workers)
      BY <1>4 DEF PlanGrant
    <2>2. req[p] \in Role
      BY <2>1 DEF PlanAcquire
    <2>3. pl.touch \in SUBSET Role
      BY <2>1, <2>2, PlanTyped DEF Snapshot, Plan
    <2>4. older' \in SUBSET (Role \X Role)
      <3>1. Newest(older, pl.touch, workers) \in SUBSET (Role \X Role)
        BY <2>3, NewestTyped
      <3> QED
        BY <3>1, <2>1, <2>2, NewestTyped
    <2>5. idle' \in [Role -> {"never", "armed", "fired"}]
      BY <2>1 DEF TouchedIdle, IdleClock
    <2>6. /\ lease' \in [Proc -> {"none", "open", "live", "lapsed"}]
          /\ pc' = [pc EXCEPT ![p] = "held"]
          /\ UNCHANGED <<workers, pinned, ticket, lock, plan, req, at, todo, container>>
      BY <1>4 DEF PlanGrant, locking
    <2> QED
      BY <2>4, <2>5, <2>6
  <1>5. ASSUME NEW p \in Proc, PlanCommit(p) PROVE TypeOK'
    <2>1. PICK pl \in PlanAcquire(Snapshot, req[p]) : plan' = pl
      BY <1>5 DEF PlanCommit
    <2>2. req[p] \in Role
      BY <2>1, ConfigAssumption DEF PlanAcquire
    <2>3. plan' \in Plan
      BY <2>1, <2>2, PlanTyped DEF Snapshot
    <2> QED
      BY <1>5, <2>3 DEF PlanCommit, Planning, broker
  <1>6. ASSUME NEW p \in Proc, EvictStop(p) PROVE TypeOK'
    BY <1>6 DEF EvictStop, StopWorker, Plan, WithEvict, Without, requests
  <1>7. ASSUME NEW p \in Proc, EvictFail(p) PROVE TypeOK'
    <2>1. container' \in [Role -> {"down", "loading", "ready"}]
      BY <1>7 DEF EvictFail, StopFails
    <2>2. plan' \in Plan /\ lock' = Free
      BY <1>7 DEF EvictFail, Unlock, Plan, NoPlan
    <2>3. /\ pc' \in [Proc -> {"idle", "plan", "evict", "wait", "held"} \cup Working]
          /\ req' \in [Proc -> Role \cup {NoRole}]
      BY <1>7 DEF EvictFail, Reset
    <2>4. UNCHANGED <<broker, at, todo>>
      BY <1>7 DEF EvictFail
    <2> QED
      BY <2>1, <2>2, <2>3, <2>4 DEF broker
  <1>8. ASSUME NEW p \in Proc, Reserve(p) PROVE TypeOK'
    BY <1>8, TouchTyped DEF Reserve, Unlock, Plan, NoPlan
  <1>9. ASSUME NEW p \in Proc, ReserveRaise(p) PROVE TypeOK'
    BY <1>9 DEF ReserveRaise, Reset, Unlock, Plan, NoPlan
  <1>10. ASSUME NEW p \in Proc, StartOk(p) PROVE TypeOK'
    BY <1>10 DEF StartOk, broker, locking
  <1>11. ASSUME NEW p \in Proc, StartRaise(p) PROVE TypeOK'
    BY <1>11 DEF StartRaise, broker, locking
  <1>12. ASSUME NEW p \in Proc, HealthOk(p) PROVE TypeOK'
    BY <1>12 DEF HealthOk, broker, locking
  <1>13. ASSUME NEW p \in Proc, HealthTimeout(p) PROVE TypeOK'
    BY <1>13 DEF HealthTimeout, broker, locking
  <1>14. ASSUME NEW p \in Proc, LandOk(p) PROVE TypeOK'
    <2>1. at[p] \in Role
      BY <1>14 DEF Owned, LandOk
    <2>2. CASE todo[p] = {}
      <3>1. EndStart(p, {at[p]}, {}, "plan", NoRole) /\ UNCHANGED todo
        BY <1>14, <2>2 DEF LandOk
      <3> QED
        BY <1>14, <2>1, <3>1, AddTyped, EndTyped DEF LandOk, locking
    <2>3. CASE todo[p] # {}
      <3>1. PICK r \in todo[p] : /\ EndStart(p, {at[p]}, {}, "start", r)
                                /\ todo' = [todo EXCEPT ![p] = @ \ {r}]
        BY <1>14, <2>3 DEF LandOk
      <3> QED
        BY <1>14, <2>1, <3>1, AddTyped, EndTyped DEF LandOk, locking
    <2> QED
      BY <2>2, <2>3
  <1>15. ASSUME NEW p \in Proc, LandBad(p) PROVE TypeOK'
    <2>1. at[p] \in Role
      BY <1>15 DEF Owned, LandBad
    <2> QED
      BY <1>15, <2>1, AddTyped DEF LandBad, GiveUp, EndStart, locking
  <1>16. ASSUME NEW p \in Proc, LandErr(p) PROVE TypeOK'
    BY <1>16 DEF LandErr, GiveUp, EndStart, locking
  <1>17. ASSUME NEW p \in Proc, Release(p) PROVE TypeOK'
    BY <1>17, TouchTyped DEF Release, Reset, locking
  <1>18. ASSUME NEW p \in Proc, Renew(p) PROVE TypeOK'
    <2>1. LeaseAfterExpiry \in [Proc -> {"none", "open", "live", "lapsed"}]
      BY DEF LeaseAfterExpiry
    <2>2. lease' \in [Proc -> {"none", "open", "live", "lapsed"}]
      BY <1>18, <2>1 DEF Renew
    <2>3. /\ idle' \in [Role -> {"never", "armed", "fired"}]
          /\ older' \in SUBSET (Role \X Role)
      BY <1>18, TouchTyped DEF Renew, ExpireHandles
    <2> QED
      BY <1>18, <2>2, <2>3 DEF Renew, locking, requests
  <1>19. CASE Status
    BY <1>19, TouchTyped DEF Status, LeaseAfterExpiry, ExpireHandles, locking, requests
  <1>20. ASSUME NEW r \in Role, Pin(r) PROVE TypeOK'
    BY <1>20 DEF Pin, locking, requests
  <1>21. ASSUME NEW r \in Role, Unpin(r) PROVE TypeOK'
    BY <1>21 DEF Unpin, locking, requests
  <1>22. CASE SweepBegin
    <2>1. lock' \in Proc \cup {Free, Sweeper} /\ plan' \in Plan
      <3>1. ASSUME NEW clocks, NEW held
            PROVE  CandidatesToStopForIdle(clocks, held) \in SUBSET Role
        BY DEF CandidatesToStopForIdle
      <3>2. \A S \in SUBSET Role : WithEvict(NoPlan, S) \in Plan
        BY DEF WithEvict, NoPlan, Plan
      <3>3. CASE UNCHANGED locking
        BY <3>3 DEF locking
      <3>4. CASE ~UNCHANGED locking
        BY <1>22, <3>1, <3>2, <3>4 DEF SweepBegin
      <3> QED
        BY <3>3, <3>4
    <2>2. lease' \in [Proc -> {"none", "open", "live", "lapsed"}]
      BY <1>22 DEF SweepBegin, LeaseAfterExpiry
    <2> QED
      BY <1>22, <2>1, <2>2, TouchTyped DEF SweepBegin, ExpireHandles, requests
  <1>23. CASE SweepStop
    <2>1. PICK v \in plan.evict :
             /\ StopWorker(v)
             /\ IF plan.evict = {v} THEN Unlock
                ELSE plan' = WithEvict(plan, plan.evict \ {v}) /\ UNCHANGED lock
      BY <1>23 DEF SweepStop
    <2>2. lock' \in Proc \cup {Free, Sweeper} /\ plan' \in Plan
      BY <2>1 DEF Unlock, Plan, NoPlan, WithEvict
    <2>3. /\ workers' \subseteq Role /\ older' \subseteq older
          /\ idle' = [idle EXCEPT ![v] = "never"]
          /\ container' = [container EXCEPT ![v] = "down"]
      BY <2>1 DEF StopWorker, Without
    <2> QED
      BY <1>23, <2>2, <2>3 DEF SweepStop, requests
  <1>24. CASE SweepFail
    <2>1. lock' \in Proc \cup {Free, Sweeper} /\ plan' \in Plan
      BY <1>24 DEF SweepFail, Unlock, Plan, NoPlan
    <2>2. container' \in [Role -> {"down", "loading", "ready"}]
      BY <1>24 DEF SweepFail, StopFails
    <2> QED
      BY <1>24, <2>1, <2>2 DEF SweepFail, broker, requests
  <1>25. ASSUME NEW r \in Role, Environment(r) PROVE TypeOK'
    BY <1>25 DEF Environment, IdleFires, ModelLoads, ExternalStop, broker, locking, requests
  <1>26. ASSUME NEW p \in Proc, LeaseLapses(p) PROVE TypeOK'
    BY <1>26 DEF LeaseLapses, locking, requests
  <1>27. CASE Restart
    BY <1>27 DEF Restart, Running, Unlock, Plan, NoPlan
  <1>28. CASE UNCHANGED vars
    BY <1>28 DEF vars, broker, locking, requests
  <1> QED
    BY <1>1, <1>2, <1>3, <1>4, <1>5, <1>6, <1>7, <1>8, <1>9, <1>10, <1>11, <1>12, <1>13,
       <1>14, <1>15, <1>16, <1>17, <1>18, <1>19, <1>20, <1>21, <1>22, <1>23, <1>24, <1>25,
       <1>26, <1>27, <1>28
    DEF Next, Acquire, Client, Admin, Sweep, Environment

(* No role is resident and starting at once.                               *)
NotBoth == workers \cap Starting = {}

Requested ==
    \A p \in Proc : /\ pc[p] # "idle" => req[p] \in Role \cap Enabled
                    /\ lease[p] # "none" => pc[p] = "held"

(* What the lock protects: while a plan is carried out its victims stay    *)
(* resident and unpinned, and nobody starts what it is going to start.     *)
LockRule ==
    /\ \A p \in Proc : pc[p] = "evict" <=> lock = p
    /\ lock = Free => plan = NoPlan
    /\ plan.evict \subseteq workers \ pinned
    /\ plan.start \cap Charged = {}

(* A victim somebody holds is one evict_on_acquire names.                  *)
VictimsUnheld ==
    \A p \in Proc : lease[p] # "none" /\ req[p] \in plan.evict
                    => \E r \in Role : req[p] \in EvictOn[r]

IInv == /\ TypeOK /\ Owned /\ NotBoth /\ WaitersCovered
        /\ Requested /\ LockRule /\ VictimsUnheld /\ HeldRoleStays

LEMMA PlanSound ==
    ASSUME TypeOK, NEW r \in Role, NEW pl \in PlanAcquire(Snapshot, r), r \notin Starting
    PROVE  /\ pl.evict \subseteq workers \ pinned
           /\ pl.evict \cap HeldRoles \subseteq EvictOn[r]
           /\ pl.start \cap Charged = {}
           /\ pl.start = {} => r \in workers
  <1>1. \A V \in LruVictims(Snapshot, r) : V \subseteq workers \ (pinned \cup HeldRoles)
    BY DEF LruVictims, LruCandidates, OnCard, Snapshot
  <1>2. FilterEvictable(Snapshot, r) \subseteq (EvictOn[r] \cap workers) \ pinned
    BY DEF FilterEvictable, Snapshot
  <1>3. ToWarm(Snapshot, r) \cap Charged = {}
    BY DEF ToWarm, Snapshot, Charged
  <1> QED
    BY <1>1, <1>2, <1>3 DEF PlanAcquire, MakePlan, Snapshot, Charged

LEMMA InvInit == Init => IInv
  BY BrokerAssumption DEF Init, IInv, TypeOK, Plan, NoPlan, Owned, NotBoth, Starting,
     WaitersCovered, Requested, LockRule, Charged, VictimsUnheld, HeldRoleStays

LEMMA InvStep == IInv /\ [Next]_vars => IInv'
  <1> SUFFICES ASSUME IInv, [Next]_vars PROVE IInv'
    OBVIOUS
  <1>0. TypeOK'
    BY TypeStep DEF IInv
  <1>a. ASSUME NEW r \in Role \ Starting, NEW pl \in PlanAcquire(Snapshot, r), pl.start = {}
        PROVE  r \in workers
    BY <1>a, PlanSound DEF IInv
  <1> USE <1>0, ConfigAssumption, BrokerAssumption
      DEF IInv, TypeOK, Owned, NotBoth, Starting, WaitersCovered, Requested, LockRule,
          Charged, VictimsUnheld, HeldRoleStays
  <1>1. ASSUME NEW p \in Proc, NEW r \in Role, AcquireReq(p, r) PROVE IInv'
    BY <1>1 DEF AcquireReq, broker, locking
  <1>2. ASSUME NEW p \in Proc, PlanWait(p) PROVE IInv'
    BY <1>2 DEF PlanWait, broker, locking, Planning, Blockers
  <1>3. ASSUME NEW p \in Proc, PlanRefuse(p) PROVE IInv'
    BY <1>3 DEF PlanRefuse, Planning, Reset, broker, locking
  <1>4. ASSUME NEW p \in Proc, PlanGrant(p) PROVE IInv'
    <2>1. PICK pl \in PlanAcquire(Snapshot, req[p]) : pl.start = {}
      BY <1>4 DEF PlanGrant
    <2>2. req[p] \in Role /\ req[p] \notin Starting
      <3>1. pc[p] = "plan" /\ Blockers(req[p]) = {}
        BY <1>4 DEF PlanGrant, Planning
      <3>2. req[p] \in Role
        BY <3>1
      <3> QED
        BY <3>1, <3>2 DEF Blockers
    <2>3. req[p] \in workers
      <3>1. req[p] \in Role \ Starting
        BY <2>2
      <3> HIDE DEF IInv, TypeOK, Owned, NotBoth, Starting, WaitersCovered, Requested, LockRule,
                   Charged, VictimsUnheld, HeldRoleStays
      <3> QED
        BY <2>1, <3>1, <1>a
    <2>4. /\ pc[p] = "plan" /\ lock = Free
          /\ \E l \in {"open", "live"} : lease' = [lease EXCEPT ![p] = l]
          /\ pc' = [pc EXCEPT ![p] = "held"]
          /\ UNCHANGED <<workers, pinned, ticket, lock, plan, req, at, todo, container>>
      BY <1>4 DEF PlanGrant, Planning, locking
    <2>5. Owned' /\ NotBoth' /\ WaitersCovered' /\ Requested'
      BY <2>4
    <2>6. plan.evict = {}
      BY <2>4 DEF NoPlan
    <2>7. LockRule' /\ VictimsUnheld'
      BY <2>4, <2>6
    <2>8. HeldRoleStays'
      BY <2>3, <2>4
    <2> QED
      BY <2>5, <2>7, <2>8
  <1>5. ASSUME NEW p \in Proc, PlanCommit(p) PROVE IInv'
    <2>1. PICK pl \in PlanAcquire(Snapshot, req[p]) : plan' = pl
      BY <1>5 DEF PlanCommit
    <2>2. req[p] \in Role /\ req[p] \notin Starting
      BY <1>5 DEF PlanCommit, Planning, Blockers
    <2>3. /\ pc[p] = "plan" /\ lock = Free /\ lock' = p
          /\ pc' = [pc EXCEPT ![p] = "evict"]
          /\ UNCHANGED <<workers, pinned, ticket, lease, req, at, todo>>
      BY <1>5 DEF PlanCommit, Planning, broker
    <2>4. Owned' /\ NotBoth' /\ WaitersCovered' /\ Requested' /\ HeldRoleStays'
      BY <2>3
    <2>5. /\ plan'.evict \subseteq workers \ pinned
          /\ plan'.start \cap Charged = {}
      BY <2>1, <2>2, PlanSound
    <2>6. LockRule'
      BY <2>3, <2>5
    <2>7. VictimsUnheld'
      <3>1. plan'.evict \cap HeldRoles \subseteq EvictOn[req[p]]
        BY <2>1, <2>2, PlanSound
      <3> QED
        BY <3>1, <2>2, <2>3 DEF HeldRoles
    <2> QED
      BY <2>4, <2>6, <2>7
  <1>6. ASSUME NEW p \in Proc, EvictStop(p) PROVE IInv'
    BY <1>6 DEF EvictStop, StopWorker, Plan, WithEvict, requests
  <1>7. ASSUME NEW p \in Proc, EvictFail(p) PROVE IInv'
    BY <1>7 DEF EvictFail, Reset, Unlock, NoPlan, broker
  <1>8. ASSUME NEW p \in Proc, Reserve(p) PROVE IInv'
    <2>1. /\ lock = p /\ lock' = Free /\ plan' = NoPlan
          /\ ticket' = [r \in Role |-> IF r \in plan.start THEN p ELSE ticket[r]]
          /\ pc' = [pc EXCEPT ![p] = "start"]
          /\ UNCHANGED <<workers, pinned, lease, req>>
      BY <1>8 DEF Reserve, Unlock
    <2>2. PICK first \in plan.start : /\ at' = [at EXCEPT ![p] = first]
                                     /\ todo' = [todo EXCEPT ![p] = plan.start \ {first}]
      <3> DEFINE firsts == IF req[p] \in plan.start THEN {req[p]} ELSE plan.start
      <3>1. firsts \subseteq plan.start
        OBVIOUS
      <3>2. \E first \in firsts : /\ at' = [at EXCEPT ![p] = first]
                                 /\ todo' = [todo EXCEPT ![p] = plan.start \ {first}]
        BY <1>8 DEF Reserve
      <3> HIDE DEF firsts
      <3> QED
        BY <3>1, <3>2
    <2>3. plan.start \subseteq Role /\ \A r \in plan.start : ticket[r] = NoProc
      BY DEF Plan
    <2>4. Owned'
      BY <2>1, <2>2, <2>3
    <2>5. NotBoth' /\ WaitersCovered' /\ Requested' /\ HeldRoleStays'
      BY <2>1, <2>2, <2>3
    <2>6. LockRule' /\ VictimsUnheld'
      BY <2>1 DEF NoPlan
    <2> QED
      BY <2>4, <2>5, <2>6
  <1>9. ASSUME NEW p \in Proc, ReserveRaise(p) PROVE IInv'
    BY <1>9 DEF ReserveRaise, Reset, Unlock, NoPlan
  <1>10. ASSUME NEW p \in Proc, StartOk(p) PROVE IInv'
    BY <1>10 DEF StartOk, broker, locking
  <1>11. ASSUME NEW p \in Proc, StartRaise(p) PROVE IInv'
    BY <1>11 DEF StartRaise, broker, locking
  <1>12. ASSUME NEW p \in Proc, HealthOk(p) PROVE IInv'
    BY <1>12 DEF HealthOk, broker, locking
  <1>13. ASSUME NEW p \in Proc, HealthTimeout(p) PROVE IInv'
    BY <1>13 DEF HealthTimeout, broker, locking
  <1>14. ASSUME NEW p \in Proc, LandOk(p) PROVE IInv'
    <2>1. /\ pc[p] = "landOk" /\ lock = Free /\ plan = NoPlan
          /\ workers' = workers \cup {at[p]}
          /\ UNCHANGED <<pinned, lease, lock, plan>>
      BY <1>14 DEF LandOk, AddWorker, locking
    <2>2. PICK next \in {"plan", "start"}, role \in Role \cup {NoRole} :
             /\ EndStart(p, {at[p]}, {}, next, role)
             /\ next = "start" => role \in todo[p] /\ todo' = [todo EXCEPT ![p] = @ \ {role}]
             /\ next = "plan" => UNCHANGED todo
      <3>1. CASE todo[p] = {}
        BY <1>14, <3>1 DEF LandOk
      <3>2. CASE todo[p] # {}
        BY <1>14, <3>2 DEF LandOk
      <3> QED
        BY <3>1, <3>2
    <2>3. /\ ticket' = [r \in Role |-> IF r = at[p] THEN NoProc ELSE ticket[r]]
          /\ pc' = [q \in Proc |-> IF q = p THEN next
                                   ELSE IF q \in Woken({at[p]}) THEN "plan" ELSE pc[q]]
          /\ req' = req
          /\ at' = [q \in Proc |-> IF q = p THEN role
                                   ELSE IF q \in Woken({at[p]}) THEN NoRole ELSE at[q]]
      BY <2>2 DEF EndStart, Raised
    <2>4. Owned'
      BY <2>1, <2>2, <2>3 DEF Woken
    <2>5. NotBoth' /\ WaitersCovered'
      BY <2>1, <2>3 DEF Woken
    <2>6. Requested' /\ HeldRoleStays' /\ VictimsUnheld'
      BY <2>1, <2>3 DEF Woken
    <2>7. LockRule'
      BY <2>1, <2>3 DEF Woken, NoPlan
    <2> QED
      BY <2>4, <2>5, <2>6, <2>7
  <1>15. ASSUME NEW p \in Proc, LandBad(p) PROVE IInv'
    <2>1. PICK failed :
             /\ pc[p] = "landBad" /\ lock = Free /\ plan = NoPlan
             /\ workers' = workers \cup {at[p]}
             /\ todo' = [todo EXCEPT ![p] = {}]
             /\ UNCHANGED <<pinned, lease, lock, plan>>
             /\ EndStart(p, {at[p]} \cup todo[p], failed, "idle", NoRole)
      BY <1>15 DEF LandBad, AddWorker, GiveUp, locking
    <2>2. Owned'
      BY <2>1 DEF EndStart, Woken, Raised
    <2>3. NotBoth' /\ WaitersCovered'
      BY <2>1 DEF EndStart, Woken, Raised
    <2>4. Requested' /\ HeldRoleStays' /\ VictimsUnheld'
      BY <2>1 DEF EndStart, Woken, Raised
    <2>5. LockRule'
      BY <2>1 DEF EndStart, Woken, Raised, NoPlan
    <2> QED
      BY <2>2, <2>3, <2>4, <2>5
  <1>16. ASSUME NEW p \in Proc, LandErr(p) PROVE IInv'
    BY <1>16 DEF LandErr, GiveUp, EndStart, Woken, Raised, locking
  <1>17. ASSUME NEW p \in Proc, Release(p) PROVE IInv'
    BY <1>17 DEF Release, Reset, locking
  <1>18. ASSUME NEW p \in Proc, Renew(p) PROVE IInv'
    BY <1>18 DEF Renew, LeaseAfterExpiry, locking, requests
  <1>19. CASE Status
    BY <1>19 DEF Status, LeaseAfterExpiry, locking, requests
  <1>20. ASSUME NEW r \in Role, Pin(r) PROVE IInv'
    BY <1>20 DEF Pin, locking, requests, NoPlan
  <1>21. ASSUME NEW r \in Role, Unpin(r) PROVE IInv'
    BY <1>21 DEF Unpin, locking, requests
  <1>22. CASE SweepBegin
    <2>1. /\ lock = Free /\ lease' = LeaseAfterExpiry
          /\ UNCHANGED <<workers, pinned, ticket, pc, req, at, todo>>
      BY <1>22 DEF SweepBegin, requests
    <2>2. Owned' /\ NotBoth' /\ WaitersCovered' /\ Requested' /\ HeldRoleStays'
      BY <2>1 DEF LeaseAfterExpiry
    <2>3. CASE UNCHANGED locking
      BY <2>1, <2>2, <2>3 DEF LeaseAfterExpiry, locking
    <2>4. CASE ~UNCHANGED locking
      <3>1. PICK clocks, held :
               /\ lock' = Sweeper
               /\ plan' = WithEvict(NoPlan, CandidatesToStopForIdle(clocks, held))
               /\ held = {req[q] : q \in {q \in Proc : LeaseAfterExpiry[q] # "none"}}
        BY <1>22, <2>4 DEF SweepBegin
      <3>2. /\ plan'.evict \subseteq workers \ (pinned \cup held)
            /\ plan'.start = {}
        BY <3>1 DEF WithEvict, NoPlan, CandidatesToStopForIdle
      <3>3. \A q \in Proc : pc[q] # "evict"
        BY <2>1
      <3>4. LockRule'
        <4>1. \A q \in Proc : pc'[q] = "evict" <=> lock' = q
          BY <2>1, <3>1, <3>3
        <4>2. lock' # Free
          BY <3>1
        <4>3. plan'.evict \subseteq workers' \ pinned' /\ plan'.start \cap Charged' = {}
          BY <2>1, <3>2
        <4> QED
          BY <4>1, <4>2, <4>3
      <3>5. VictimsUnheld'
        <4>1. \A q \in Proc : lease'[q] # "none" => req[q] \in held
          BY <2>1, <3>1
        <4>2. plan'.evict \cap held = {}
          BY <3>2
        <4> QED
          BY <2>1, <4>1, <4>2
      <3> QED
        BY <2>2, <3>4, <3>5
    <2> QED
      BY <2>3, <2>4
  <1>23. CASE SweepStop
    BY <1>23 DEF SweepStop, StopWorker, Unlock, Plan, NoPlan, WithEvict, requests
  <1>24. CASE SweepFail
    BY <1>24 DEF SweepFail, Unlock, NoPlan, broker, requests
  <1>25. ASSUME NEW r \in Role, Environment(r) PROVE IInv'
    BY <1>25 DEF Environment, IdleFires, ModelLoads, ExternalStop, broker, locking, requests
  <1>26. ASSUME NEW p \in Proc, LeaseLapses(p) PROVE IInv'
    BY <1>26 DEF LeaseLapses, locking, requests
  <1>27. CASE Restart
    BY <1>27 DEF Restart, Unlock, NoPlan
  <1>28. CASE UNCHANGED vars
    BY <1>28 DEF vars, broker, locking, requests
  <1> QED
    BY <1>1, <1>2, <1>3, <1>4, <1>5, <1>6, <1>7, <1>8, <1>9, <1>10, <1>11, <1>12, <1>13, <1>14, <1>15, <1>16, <1>17, <1>18, <1>19, <1>20, <1>21, <1>22, <1>23, <1>24, <1>25, <1>26, <1>27, <1>28
    DEF Next, Acquire, Client, Admin, Sweep, Environment
-----------------------------------------------------------------------------
THEOREM Invariant == Spec => []IInv
  BY InvInit, InvStep, PTL DEF Spec

(* Every variable keeps its type.                                          *)
THEOREM TypeCorrect == Spec => []TypeOK
  BY Invariant, PTL DEF IInv

(* No two threads start the same role, and none starts a role that is      *)
(* resident or being stopped, for any interleaving of acquires, sweeps,    *)
(* faults and restarts: docker_mgr needs no lock of its own.               *)
THEOREM StartStopSafe == Spec => []StartStopExclusive
  <1>1. IInv => StartStopExclusive
    <2> SUFFICES ASSUME IInv, NEW p \in Proc, pc[p] = "start"
                 PROVE  /\ at[p] \notin plan.evict \cup workers
                        /\ \A q \in Proc \ {p} : pc[q] \in Working => at[p] \notin {at[q]} \cup todo[q]
      BY DEF StartStopExclusive
    <2>1. at[p] \in Role /\ ticket[at[p]] = p
      BY DEF IInv, Owned
    <2>2. at[p] \notin workers
      BY <2>1, BrokerAssumption DEF IInv, NotBoth, Starting
    <2>3. \A q \in Proc \ {p} : pc[q] \in Working => at[p] \notin {at[q]} \cup todo[q]
      BY <2>1 DEF IInv, Owned
    <2> QED
      BY <2>2, <2>3 DEF IInv, LockRule
  <1> QED
    BY <1>1, Invariant, PTL

(* A request never waits on a ticket that was already ended.               *)
THEOREM NoLostWakeup == Spec => []WaitersCovered
  BY Invariant, PTL DEF IInv

(* Neither the LRU policy nor the idle sweep, nor the faults around them,  *)
(* take a worker away from a client that holds it.                         *)
THEOREM HoldsProtect == Spec => []HeldRoleStays
  BY Invariant, PTL DEF IInv

(* No step stops a worker that is pinned before and after it.              *)
THEOREM PinsProtect == Spec => PinnedNotStopped
  <1>1. IInv /\ [Next]_vars => [pinned \cap workers \cap pinned' \subseteq workers']_vars
    <2> SUFFICES ASSUME IInv, Next PROVE pinned \cap workers \cap pinned' \subseteq workers'
      OBVIOUS
    <2>1. CASE \E p \in Proc : EvictStop(p)
      BY <2>1 DEF IInv, LockRule, EvictStop, StopWorker
    <2>2. CASE SweepStop
      BY <2>2 DEF IInv, LockRule, SweepStop, StopWorker
    <2>3. CASE Restart
      BY <2>3 DEF Restart
    <2>4. CASE \E p \in Proc : LandOk(p) \/ LandBad(p)
      BY <2>4 DEF LandOk, LandBad, AddWorker
    <2> QED
      BY <2>1, <2>2, <2>3, <2>4
      DEF Next, Acquire, Client, Admin, Sweep, Environment, broker, AcquireReq, PlanWait,
          PlanRefuse, PlanGrant, PlanCommit, EvictFail, Reserve, ReserveRaise, StartOk,
          StartRaise, HealthOk, HealthTimeout, LandErr, Release, Renew, Status, Pin, Unpin,
          SweepBegin, SweepFail, IdleFires, LeaseLapses, ModelLoads, ExternalStop
  <1> QED
    BY <1>1, Invariant, PTL DEF Spec, PinnedNotStopped

(* Every resident worker has the idle clock its role and pin call for.     *)
THEOREM IdleClocksSet == Spec => []IdleClockSet
  <1>1. Init => IdleClockSet
    BY DEF Init, IdleClockSet
  <1>2. IInv /\ IdleClockSet /\ [Next]_vars => IdleClockSet'
    <2> SUFFICES ASSUME IInv, IdleClockSet, [Next]_vars PROVE IdleClockSet'
      OBVIOUS
    <2> USE DEF IInv, TypeOK, IdleClockSet
    <2>1. ASSUME NEW S, TouchWorkers(S), UNCHANGED <<workers, pinned>> PROVE IdleClockSet'
      BY <2>1 DEF TouchWorkers, TouchedIdle, IdleClock
    <2>2. ASSUME NEW r \in Role, AddWorker(r), UNCHANGED pinned PROVE IdleClockSet'
      BY <2>2 DEF AddWorker, IdleClock
    <2>3. ASSUME NEW r, StopWorker(r), UNCHANGED pinned PROVE IdleClockSet'
      BY <2>3 DEF StopWorker
    <2>4. ASSUME UNCHANGED <<workers, idle, pinned>> PROVE IdleClockSet'
      BY <2>4
    <2>5. ASSUME NEW p \in Proc, Acquire(p) PROVE IdleClockSet'
      <3>1. CASE PlanGrant(p)
        BY <3>1 DEF PlanGrant, TouchedIdle, IdleClock
      <3>2. CASE EvictStop(p)
        BY <3>2, <2>3 DEF EvictStop
      <3>3. CASE Reserve(p)
        BY <3>3, <2>1 DEF Reserve
      <3>4. CASE LandOk(p) \/ LandBad(p)
        <4>1. at[p] \in Role /\ AddWorker(at[p]) /\ UNCHANGED pinned
          BY <3>4 DEF LandOk, LandBad, GiveUp, Owned
        <4> QED
          BY <4>1, <2>2
      <3> QED
        BY <2>5, <2>4, <3>1, <3>2, <3>3, <3>4
        DEF Acquire, AcquireReq, PlanWait, PlanRefuse, PlanCommit, EvictFail, ReserveRaise,
            StartOk, StartRaise, HealthOk, HealthTimeout, LandErr, GiveUp, broker
    <2>6. ASSUME NEW p \in Proc, Client(p) PROVE IdleClockSet'
      BY <2>6, <2>1 DEF Client, Release, Renew, ExpireHandles
    <2>7. ASSUME NEW r \in Role, Admin(r) PROVE IdleClockSet'
      BY <2>7 DEF Admin, Pin, Unpin
    <2>8. CASE Status \/ SweepBegin
      BY <2>8, <2>1 DEF Status, SweepBegin, ExpireHandles
    <2>9. CASE SweepStop \/ SweepFail
      BY <2>9, <2>3, <2>4 DEF SweepStop, SweepFail, broker
    <2>10. CASE Restart
      BY <2>10 DEF Restart, Running
    <2>11. ASSUME NEW r \in Role, Environment(r) PROVE IdleClockSet'
      BY <2>11 DEF Environment, IdleFires, ModelLoads, ExternalStop, broker
    <2>12. ASSUME NEW p \in Proc, LeaseLapses(p) PROVE IdleClockSet'
      BY <2>12, <2>4 DEF LeaseLapses
    <2>13. CASE UNCHANGED vars
      BY <2>13, <2>4 DEF vars, broker
    <2> QED
      BY <2>5, <2>6, <2>7, <2>8, <2>9, <2>10, <2>11, <2>12, <2>13 DEF Next, Sweep
  <1> QED
    BY <1>1, <1>2, Invariant, PTL DEF Spec
-----------------------------------------------------------------------------
(* Nothing ever puts a container that does not answer among the residents. *)
NoLoss == {"restart", "extstop", "healthfail", "stopfail"} \cap Faults = {}

(* Residents answer, and so does a container whose probe saw it answer; a  *)
(* container that is being probed exists, so no probe runs out.            *)
Serving ==
    /\ \A r \in workers : container[r] = "ready"
    /\ \A p \in Proc : pc[p] = "landOk" => container[at[p]] = "ready"
    /\ \A p \in Proc : pc[p] = "probe" => container[at[p]] # "down"
    /\ \A p \in Proc : pc[p] # "landBad"

LEMMA ServingStep == ASSUME NoLoss, IInv, Serving, [Next]_vars PROVE Serving'
  <1> USE DEF IInv, TypeOK, Serving
  (* Only residents are ever stopped, and no cold start is about one.      *)
  <1>1. ASSUME NEW v \in plan.evict, StopWorker(v), UNCHANGED <<pc, at>> PROVE Serving'
    <2>1. v \in workers
      BY DEF LockRule
    <2>2. \A p \in Proc : pc[p] \in Working => at[p] \notin workers
      BY BrokerAssumption DEF Owned, NotBoth, Starting
    <2>3. \A r \in Role \ {v} : container'[r] = container[r]
      BY <1>1 DEF StopWorker
    <2>4. \A p \in Proc : pc[p] \in Working => at[p] \in Role \ {v}
      BY <2>1, <2>2 DEF Owned
    <2>5. workers' = workers \ {v}
      BY <1>1 DEF StopWorker
    <2> QED
      BY <1>1, <2>3, <2>4, <2>5
  <1>2. ASSUME UNCHANGED <<workers, container, pc, at>> PROVE Serving'
    BY <1>2
  <1>3. ASSUME NEW p \in Proc, StartOk(p) \/ StartRaise(p) PROVE Serving'
    <2>1. /\ at[p] \in Role /\ at[p] \notin workers /\ pc[p] = "start"
          /\ \A q \in Proc \ {p} : pc[q] \in Working => at[q] \in Role \ {at[p]}
      BY <1>3, BrokerAssumption DEF StartOk, StartRaise, Owned, NotBoth, Starting
    <2>2. \A r \in Role \ {at[p]} : container'[r] = container[r]
      BY <1>3 DEF StartOk, StartRaise
    <2>3. UNCHANGED <<workers, at>>
      BY <1>3 DEF StartOk, StartRaise, broker
    <2>4. CASE StartOk(p)
      <3>1. container'[at[p]] # "down" /\ pc' = [pc EXCEPT ![p] = "probe"]
        BY <2>1, <2>4 DEF StartOk
      <3> QED
        BY <2>1, <2>2, <2>3, <3>1
    <2>5. CASE StartRaise(p)
      <3>1. pc' = [pc EXCEPT ![p] = "landErr"]
        BY <2>5 DEF StartRaise
      <3> QED
        BY <2>1, <2>2, <2>3, <3>1
    <2> QED
      BY <1>3, <2>4, <2>5
  <1>4. ASSUME NEW p \in Proc, LandOk(p) PROVE Serving'
    <2>1. /\ workers' = workers \cup {at[p]} /\ container[at[p]] = "ready"
          /\ UNCHANGED container
      BY <1>4 DEF LandOk, AddWorker
    <2>2. \E next \in {"plan", "start"}, role \in Role \cup {NoRole} :
             EndStart(p, {at[p]}, {}, next, role)
      BY <1>4 DEF LandOk
    <2>3. \A q \in Proc : pc'[q] \in Working \ {"start"} => /\ pc[q] = pc'[q]
                                                         /\ at'[q] = at[q]
      BY <2>2 DEF EndStart, Woken, Raised
    <2> QED
      BY <2>1, <2>3
  <1>5. ASSUME NEW p \in Proc, LandErr(p) PROVE Serving'
    <2>1. PICK failed : EndStart(p, {at[p]} \cup todo[p], failed, "idle", NoRole)
      BY <1>5 DEF LandErr, GiveUp
    <2>2. \A q \in Proc : pc'[q] \in Working => pc[q] = pc'[q] /\ at'[q] = at[q]
      BY <2>1 DEF EndStart, Woken, Raised
    <2> QED
      BY <1>5, <2>2 DEF LandErr, GiveUp
  <1>6. ASSUME NEW p \in Proc, PlanWait(p) \/ Reserve(p) PROVE Serving'
    <2>1. /\ pc' = [pc EXCEPT ![p] = "wait"] \/ pc' = [pc EXCEPT ![p] = "start"]
          /\ \A q \in Proc \ {p} : at'[q] = at[q]
          /\ UNCHANGED <<workers, container>>
      BY <1>6 DEF PlanWait, Reserve, broker
    <2> QED
      BY <2>1
  <1>7. ASSUME NEW p \in Proc, HealthOk(p) \/ HealthTimeout(p) PROVE Serving'
    BY <1>7 DEF HealthOk, HealthTimeout, NoLoss, broker
  <1>8. ASSUME NEW p \in Proc, Acquire(p) PROVE Serving'
    <2>1. CASE \E r \in Role : AcquireReq(p, r)
      BY <2>1 DEF AcquireReq, broker
    <2>2. CASE PlanRefuse(p)
      BY <2>2 DEF PlanRefuse, Reset, broker
    <2>3. CASE PlanGrant(p) \/ PlanCommit(p)
      BY <2>3 DEF PlanGrant, PlanCommit, broker
    <2>4. CASE EvictStop(p)
      BY <2>4, <1>1 DEF EvictStop, requests
    <2>5. CASE ReserveRaise(p)
      BY <2>5 DEF ReserveRaise, Reset
    <2>6. ~EvictFail(p) /\ ~LandBad(p)
      BY DEF EvictFail, LandBad, NoLoss
    <2> QED
      BY <1>3, <1>4, <1>5, <1>6, <1>7, <1>8, <2>1, <2>2, <2>3, <2>4, <2>5, <2>6 DEF Acquire
  <1>9. ASSUME NEW p \in Proc, Client(p) \/ LeaseLapses(p) PROVE Serving'
    BY <1>9 DEF Client, Release, Renew, Reset, LeaseLapses, requests
  <1>10. CASE Status \/ Sweep
    <2>1. CASE SweepStop
      BY <2>1, <1>1 DEF SweepStop, requests
    <2>2. CASE Status \/ SweepBegin
      BY <2>2, <1>2 DEF Status, SweepBegin, requests
    <2>3. ~SweepFail
      BY DEF SweepFail, NoLoss
    <2> QED
      BY <1>10, <2>1, <2>2, <2>3 DEF Sweep
  <1>11. ASSUME NEW r \in Role, Admin(r) \/ Environment(r) PROVE Serving'
    <2>1. CASE Admin(r) \/ IdleFires(r)
      BY <2>1, <1>2 DEF Admin, Pin, Unpin, IdleFires, requests
    <2>2. CASE ModelLoads(r)
      <3>1. UNCHANGED <<workers, pc, at>>
        BY <2>2 DEF ModelLoads, broker, requests
      <3>2. \A s \in Role : container'[s] = container[s] \/ container'[s] = "ready"
        BY <2>2 DEF ModelLoads
      <3>3. \A p \in Proc : pc[p] \in Working => at[p] \in Role
        BY DEF Owned
      <3> QED
        BY <3>1, <3>2, <3>3
    <2>3. ~ExternalStop(r)
      BY DEF ExternalStop, NoLoss
    <2> QED
      BY <1>11, <2>1, <2>2, <2>3 DEF Environment
  <1>12. CASE UNCHANGED vars
    BY <1>12, <1>2 DEF vars, broker, requests
  <1>13. ~Restart
    BY DEF Restart, NoLoss
  <1> QED
    BY <1>8, <1>9, <1>10, <1>11, <1>12, <1>13 DEF Next

(* If workers die by the broker's hand only and no model comes up too      *)
(* late, a handle is granted only on a container that answers, whatever    *)
(* is evicted, swept, or fails to start meanwhile.                         *)
THEOREM GrantsServe == ASSUME NoLoss PROVE Spec => GrantedServes
  <1>1. Init => Serving
    BY DEF Init, Serving
  <1>2. IInv /\ Serving /\ [Next]_vars => Serving'
    BY ServingStep
  <1>3. IInv /\ Serving /\ [Next]_vars
        => [\A p \in Proc : pc[p] = "plan" /\ pc'[p] = "held" => container[req[p]] = "ready"]_vars
    <2> SUFFICES ASSUME IInv, Serving, Next, NEW p \in Proc, pc[p] = "plan", pc'[p] = "held"
                 PROVE  container[req[p]] = "ready"
      OBVIOUS
    <2>1. PlanGrant(p) => req[p] \in workers
      BY DEF PlanGrant, PlanAcquire, MakePlan, Snapshot
    <2>2. ASSUME NEW q \in Proc, Acquire(q) PROVE PlanGrant(p)
      <3> USE DEF IInv, TypeOK
      <3>1. ASSUME NEW S, NEW failed, NEW next \in {"idle", "plan", "start"}, NEW role,
                   EndStart(q, S, failed, next, role)
            PROVE  FALSE
        BY <3>1 DEF EndStart
      <3>2. ~(LandOk(q) \/ LandBad(q) \/ LandErr(q))
        BY <3>1 DEF LandOk, LandBad, LandErr, GiveUp
      <3>3. ~(\E r \in Role : AcquireReq(q, r))
        BY DEF AcquireReq
      <3>4. ~(PlanWait(q) \/ PlanRefuse(q) \/ PlanCommit(q) \/ EvictStop(q) \/ EvictFail(q))
        BY DEF PlanWait, PlanRefuse, PlanCommit, EvictStop, EvictFail, Reset, requests
      <3>5. ~(Reserve(q) \/ ReserveRaise(q) \/ StartOk(q) \/ StartRaise(q))
        BY DEF Reserve, ReserveRaise, Reset, StartOk, StartRaise
      <3>6. ~(HealthOk(q) \/ HealthTimeout(q))
        BY DEF HealthOk, HealthTimeout
      <3>7. PlanGrant(q)
        BY <2>2, <3>2, <3>3, <3>4, <3>5, <3>6 DEF Acquire
      <3> QED
        BY <3>7 DEF PlanGrant
    <2>3. ~(\E q \in Proc : Client(q) \/ LeaseLapses(q))
      BY DEF IInv, TypeOK, Client, Release, Renew, Reset, LeaseLapses, requests
    <2>4. ~(Status \/ Sweep)
      BY DEF Status, Sweep, SweepBegin, SweepStop, SweepFail, requests
    <2>5. ~(\E r \in Role : Admin(r) \/ Environment(r))
      BY DEF Admin, Pin, Unpin, Environment, IdleFires, ModelLoads, ExternalStop, requests
    <2>6. ~Restart
      BY DEF Restart
    <2>7. PlanGrant(p)
      BY <2>2, <2>3, <2>4, <2>5, <2>6 DEF Next
    <2> QED
      BY <2>1, <2>7 DEF Serving
  <1> QED
    BY <1>1, <1>2, <1>3, Invariant, PTL DEF Spec, GrantedServes
-----------------------------------------------------------------------------
(* The broker and its planner: every snapshot the broker plans from is one *)
(* that the lemmas of Policy_proofs are about.                             *)

(* Touching, adding and dropping workers keeps last_request_at an order.   *)
LEMMA NewestOrdered ==
    ASSUME NEW W, NEW old, ClockOrder(W, old), NEW S \in SUBSET W
    PROVE  ClockOrder(W, Newest(old, S, W))
  <1>1. Newest(old, S, W) \subseteq W \X W
    BY DEF ClockOrder, Newest
  <1>2. ASSUME NEW a \in W, NEW b \in W, <<a, b>> \in Newest(old, S, W)
        PROVE  <<b, a>> \notin Newest(old, S, W)
    BY <1>2 DEF ClockOrder, Newest
  <1>3. ASSUME NEW a \in W, NEW b \in W, <<a, b>> \in Newest(old, S, W), NEW w \in W
        PROVE  <<a, w>> \in Newest(old, S, W) \/ <<w, b>> \in Newest(old, S, W)
    BY <1>3 DEF ClockOrder, Newest
  <1> HIDE DEF Newest
  <1> QED
    BY <1>1, <1>2, <1>3 DEF ClockOrder

LEMMA AddedOrdered ==
    ASSUME NEW W, NEW old, ClockOrder(W, old), NEW r
    PROVE  ClockOrder(W \cup {r}, Newest(old, {r}, W))
  <1> DEFINE new == Newest(old, {r}, W)
  <1>1. new \subseteq (W \cup {r}) \X (W \cup {r})
    BY DEF ClockOrder, Newest
  <1>2. ASSUME NEW a, NEW b, <<a, b>> \in new PROVE <<b, a>> \notin new
    BY <1>2 DEF ClockOrder, Newest
  <1>3. ASSUME NEW a, NEW b, <<a, b>> \in new, NEW w \in W \cup {r}
        PROVE  <<a, w>> \in new \/ <<w, b>> \in new
    BY <1>3 DEF ClockOrder, Newest
  <1> HIDE DEF new
  <1> QED
    BY <1>1, <1>2, <1>3 DEF ClockOrder, new

LEMMA DroppedOrdered ==
    ASSUME NEW W, NEW old, ClockOrder(W, old), NEW r
    PROVE  ClockOrder(W \ {r}, Without(old, r))
  BY DEF ClockOrder, Without

Ordered == ClockOrder(workers, older)

LEMMA OrderedStep == ASSUME IInv, Ordered, [Next]_vars PROVE Ordered'
  <1> USE DEF Ordered
  <1>1. ASSUME NEW S, TouchWorkers(S), UNCHANGED workers PROVE Ordered'
    BY <1>1, NewestOrdered DEF TouchWorkers
  <1>2. ASSUME NEW r \in Role, AddWorker(r) PROVE Ordered'
    BY <1>2, AddedOrdered DEF AddWorker
  <1>3. ASSUME NEW r, StopWorker(r) PROVE Ordered'
    BY <1>3, DroppedOrdered DEF StopWorker
  <1>4. ASSUME UNCHANGED <<workers, older>> PROVE Ordered'
    BY <1>4
  <1>5. ASSUME NEW p \in Proc, Acquire(p) PROVE Ordered'
    <2>1. CASE PlanGrant(p)
      <3>1. PICK pl \in PlanAcquire(Snapshot, req[p]) :
               /\ pl.start = {}
               /\ older' = Newest(Newest(older, pl.touch, workers), {req[p]}, workers)
        BY <2>1 DEF PlanGrant
      <3>2. pl.touch \in SUBSET workers /\ {req[p]} \in SUBSET workers
        BY <3>1 DEF PlanAcquire, MakePlan, ToTouch, Snapshot
      <3>3. ClockOrder(workers, Newest(older, pl.touch, workers))
        BY <3>2, NewestOrdered
      <3>4. ClockOrder(workers, older')
        BY <3>1, <3>2, <3>3, NewestOrdered
      <3> QED
        BY <2>1, <3>4 DEF PlanGrant
    <2>2. CASE EvictStop(p)
      BY <2>2, <1>3 DEF EvictStop
    <2>3. CASE Reserve(p)
      BY <2>3, <1>1 DEF Reserve
    <2>4. CASE LandOk(p) \/ LandBad(p)
      <3>1. at[p] \in Role /\ AddWorker(at[p])
        BY <2>4 DEF LandOk, LandBad, IInv, Owned
      <3> QED
        BY <3>1, <1>2
    <2> QED
      BY <1>5, <1>4, <2>1, <2>2, <2>3, <2>4
      DEF Acquire, AcquireReq, PlanWait, PlanRefuse, PlanCommit, EvictFail, ReserveRaise,
          StartOk, StartRaise, HealthOk, HealthTimeout, LandErr, GiveUp, broker
  <1>6. ASSUME NEW p \in Proc, Client(p) \/ LeaseLapses(p) PROVE Ordered'
    BY <1>6, <1>1, <1>4 DEF Client, Release, Renew, ExpireHandles, LeaseLapses
  <1>7. CASE Status \/ SweepBegin
    BY <1>7, <1>1 DEF Status, SweepBegin, ExpireHandles
  <1>8. CASE SweepStop \/ SweepFail
    BY <1>8, <1>3, <1>4 DEF SweepStop, SweepFail, broker
  <1>9. CASE Restart
    BY <1>9 DEF Restart, ClockOrder
  <1>10. ASSUME NEW r \in Role, Admin(r) \/ Environment(r) PROVE Ordered'
    BY <1>10, <1>4 DEF Admin, Pin, Unpin, Environment, IdleFires, ModelLoads, ExternalStop, broker
  <1>11. CASE UNCHANGED vars
    BY <1>11, <1>4 DEF vars, broker
  <1> QED
    BY <1>5, <1>6, <1>7, <1>8, <1>9, <1>10, <1>11 DEF Next, Sweep

(* The broker never plans from a snapshot that Planner does not know.      *)
THEOREM PlansFromSnapshots == Spec => []IsSnapshot(Snapshot)
  <1>1. Init => Ordered
    BY DEF Init, Ordered, ClockOrder
  <1>2. IInv /\ Ordered /\ [Next]_vars => Ordered'
    BY OrderedStep
  <1>3. IInv /\ Ordered => IsSnapshot(Snapshot)
    <2> SUFFICES ASSUME IInv, Ordered PROVE IsSnapshot(Snapshot)
      OBVIOUS
    <2>1. HeldRoles \subseteq Role /\ Starting \subseteq Role
      BY DEF IInv, Requested, HeldRoles, Starting
    <2> QED
      BY <2>1 DEF IInv, TypeOK, NotBoth, Ordered, IsSnapshot, Snapshot
  <1> QED
    BY <1>1, <1>2, <1>3, Invariant, PTL DEF Spec

(* A 503 is given only when nothing that is in flight or may be stopped    *)
(* could make room.                                                        *)
THEOREM RefusalsAreFinal == Spec => RefusalsFinal
  <1>1. IInv /\ IsSnapshot(Snapshot) /\ [Next]_vars
        => [\A p \in Proc : PlanRefuse(p) =>
              /\ \A r \in Starting : GpuOf[req[p]] \notin {NoGpu, GpuOf[r]}
              /\ GpuOf[req[p]] = NoGpu \/ Hopeless(Snapshot, req[p])]_vars
    <2> SUFFICES ASSUME IInv, IsSnapshot(Snapshot), NEW p \in Proc, PlanRefuse(p)
                 PROVE  /\ \A r \in Starting : GpuOf[req[p]] \notin {NoGpu, GpuOf[r]}
                        /\ GpuOf[req[p]] = NoGpu \/ Hopeless(Snapshot, req[p])
      OBVIOUS
    <2>1. /\ Blockers(req[p]) = {} /\ PlanAcquire(Snapshot, req[p]) = {}
          /\ req[p] \in Enabled
      BY DEF PlanRefuse, Planning, IInv, Requested
    <2>2. \A r \in Starting : GpuOf[req[p]] \notin {NoGpu, GpuOf[r]}
      BY <2>1 DEF Blockers
    <2>3. GpuOf[req[p]] = NoGpu \/ Hopeless(Snapshot, req[p])
      BY <2>1, RefusalIsFinal
    <2> QED
      BY <2>2, <2>3
  <1> QED
    BY <1>1, Invariant, PlansFromSnapshots, PTL DEF Spec, RefusalsFinal
(* What is left of a plan once one of its victims is gone is as good.      *)
LEMMA OneVictimLess ==
    ASSUME NEW snap, IsSnapshot(snap), NEW r \in Role, NEW E, NEW v \in E,
           NEW next, next = [workers |-> snap.workers \ {v}, starting |-> snap.starting,
                             pinned |-> snap.pinned, held |-> snap.held,
                             older |-> Without(snap.older, v)]
    PROVE  /\ AreDue(snap, r, E) => AreDue(next, r, E \ {v})
           /\ MakesRoom(snap, r, E) => MakesRoom(next, r, E \ {v})
  <1>1. /\ next.workers = snap.workers \ {v} /\ next.starting = snap.starting
        /\ next.pinned = snap.pinned /\ next.held = snap.held
        /\ next.older = Without(snap.older, v)
    BY DEF IsSnapshot
  <1>2. AreDue(snap, r, E) => AreDue(next, r, E \ {v})
    BY <1>1 DEF AreDue, OnCard, Without
  <1>3. (snap.workers \ {v}) \ (E \ {v}) = snap.workers \ E
    OBVIOUS
  <1>4. \A g : FreeMb([next EXCEPT !.workers = @ \ (E \ {v})], g)
                = FreeMb([snap EXCEPT !.workers = @ \ E], g)
    <2>1. /\ [next EXCEPT !.workers = @ \ (E \ {v})].workers = snap.workers \ E
          /\ [next EXCEPT !.workers = @ \ (E \ {v})].starting = snap.starting
          /\ [snap EXCEPT !.workers = @ \ E].workers = snap.workers \ E
          /\ [snap EXCEPT !.workers = @ \ E].starting = snap.starting
      BY <1>1, <1>3 DEF IsSnapshot
    <2> QED
      BY <2>1 DEF FreeMb, UsedMb
  <1> QED
    BY <1>2, <1>4 DEF MakesRoom

LEMMA DueStep ==
    ASSUME IInv, IsSnapshot(Snapshot), PlanStaysDue, [Next]_vars PROVE PlanStaysDue'
  <1> DEFINE Room(p) == IF req[p] \in workers THEN plan.evict = {}
                        ELSE MakesRoom(Snapshot, req[p], plan.evict)
             Due(p) == AreDue(Snapshot, req[p], plan.evict) /\ Room(p)
  <1> SUFFICES ASSUME NEW p \in Proc, lock' = p PROVE Due(p)'
    BY DEF PlanStaysDue
  <1>0. lock = p => Due(p)
    BY DEF PlanStaysDue
  (* Whoever else is served meanwhile touches nothing the plan reads.      *)
  <1>1. ASSUME UNCHANGED <<Snapshot, lock, plan>>, req'[p] = req[p] PROVE Due(p)'
    <2>1. workers' = workers
      BY <1>1 DEF Snapshot
    <2> QED
      BY <1>0, <1>1, <2>1 DEF AreDue, MakesRoom, FreeMb, UsedMb, OnCard
  <1>2. ASSUME NEW q \in Proc, PlanCommit(q) PROVE Due(p)'
    <2>1. /\ q = p /\ Snapshot' = Snapshot /\ UNCHANGED <<req, workers>>
          /\ plan' \in PlanAcquire(Snapshot, req[p])
          /\ req[p] \in Role
      BY <1>2 DEF PlanCommit, Planning, broker, Snapshot, Starting, HeldRoles, IInv, Requested
    <2>2. AreDue(Snapshot, req[p], plan'.evict)
      BY <2>1, PlanIsDue
    <2>3. CASE req[p] \in workers
      <3>1. plan'.evict = {}
        BY <2>1, <2>3 DEF PlanAcquire, MakePlan, Snapshot
      <3> QED
        BY <2>1, <2>2, <2>3, <3>1 DEF AreDue, OnCard
    <2>4. CASE req[p] \notin workers
      <3>1. MakesRoom(Snapshot, req[p], plan'.evict)
        BY <2>1, <2>4, PlanMakesRoom DEF Snapshot
      <3> QED
        BY <2>1, <2>2, <2>4, <3>1 DEF AreDue, MakesRoom, FreeMb, UsedMb, OnCard
    <2> QED
      BY <2>3, <2>4
  <1>3. ASSUME NEW q \in Proc, EvictStop(q) PROVE Due(p)'
    <2>1. PICK v \in plan.evict :
             /\ workers' = workers \ {v} /\ older' = Without(older, v)
             /\ plan' = WithEvict(plan, plan.evict \ {v})
      BY <1>3 DEF EvictStop, StopWorker
    <2>2. lock = p /\ UNCHANGED <<req, pinned>> /\ Starting' = Starting /\ HeldRoles' = HeldRoles
      BY <1>3 DEF EvictStop, requests, Starting, HeldRoles
    <2>3. Due(p) /\ req[p] \in Role /\ req[p] \notin workers
      BY <1>0, <2>1, <2>2 DEF IInv, LockRule, Requested
    <2>4. Snapshot' = [workers |-> Snapshot.workers \ {v}, starting |-> Snapshot.starting,
                       pinned |-> Snapshot.pinned, held |-> Snapshot.held,
                       older |-> Without(Snapshot.older, v)]
      BY <2>1, <2>2 DEF Snapshot
    <2>5. plan'.evict = plan.evict \ {v} /\ req[p] \notin workers'
      BY <2>1, <2>3 DEF WithEvict
    <2>6. /\ AreDue(Snapshot', req[p], plan.evict \ {v})
          /\ MakesRoom(Snapshot', req[p], plan.evict \ {v})
      BY <2>1, <2>3, <2>4, OneVictimLess
    <2> QED
      BY <2>2, <2>5, <2>6 DEF AreDue, MakesRoom, FreeMb, UsedMb, OnCard
  <1>4. ASSUME NEW q \in Proc, Acquire(q) PROVE Due(p)'
    <2>1. ASSUME NEW r \in Role, AcquireReq(q, r) PROVE Due(p)'
      <3>1. UNCHANGED <<workers, older, pinned, ticket, lease, lock, plan>> /\ pc[q] = "idle"
        BY <2>1 DEF AcquireReq, broker, locking
      <3>2. \A o \in Proc : lease[o] # "none" \/ lock = o => req'[o] = req[o]
        BY <2>1, <3>1 DEF AcquireReq, IInv, TypeOK, Requested, LockRule
      <3>3. HeldRoles' = HeldRoles
        BY <3>1, <3>2 DEF HeldRoles
      <3> QED
        BY <1>1, <3>1, <3>2, <3>3 DEF Snapshot, Starting
    <2>2. CASE PlanWait(q) \/ PlanRefuse(q) \/ PlanGrant(q)
      <3>1. lock' = Free
        BY <2>2 DEF PlanWait, PlanRefuse, PlanGrant, Planning, locking
      <3> QED
        BY <3>1, BrokerAssumption
    <2>3. CASE EvictFail(q) \/ Reserve(q) \/ ReserveRaise(q)
      <3>1. lock' = Free
        BY <2>3 DEF EvictFail, Reserve, ReserveRaise, Unlock
      <3> QED
        BY <3>1, BrokerAssumption
    <2>4. CASE StartOk(q) \/ StartRaise(q) \/ HealthOk(q) \/ HealthTimeout(q)
      BY <1>1, <2>4
      DEF StartOk, StartRaise, HealthOk, HealthTimeout, broker, locking, Snapshot, Starting,
          HeldRoles
    <2>5. CASE LandOk(q) \/ LandBad(q) \/ LandErr(q)
      <3>1. lock' = Free
        BY <2>5 DEF LandOk, LandBad, LandErr, GiveUp, locking
      <3> QED
        BY <3>1, BrokerAssumption
    <2> QED
      BY <1>2, <1>3, <1>4, <2>1, <2>2, <2>3, <2>4, <2>5 DEF Acquire
  <1>5. ASSUME NEW q \in Proc, LeaseLapses(q) PROVE Due(p)'
    <2>1. /\ UNCHANGED <<workers, older, pinned, ticket, lock, plan, req>>
          /\ \A o \in Proc : lease'[o] # "none" <=> lease[o] # "none"
      BY <1>5 DEF LeaseLapses, IInv, TypeOK, locking, requests
    <2>2. HeldRoles' = HeldRoles
      BY <2>1 DEF HeldRoles
    <2> QED
      BY <1>1, <2>1, <2>2 DEF Snapshot, Starting
  <1>6. ASSUME NEW r \in Role, Environment(r) PROVE Due(p)'
    BY <1>1, <1>6
    DEF Environment, IdleFires, ModelLoads, ExternalStop, broker, locking, requests, Snapshot,
        Starting, HeldRoles
  <1>7. CASE UNCHANGED vars
    BY <1>1, <1>7 DEF vars, broker, locking, requests, Snapshot, Starting, HeldRoles
  (* Everything else needs the lock and does not hand it to an acquire.    *)
  <1>8. CASE \/ Status \/ Sweep \/ Restart
             \/ \E q \in Proc : Client(q)
             \/ \E r \in Role : Admin(r)
    <2>1. lock' \in {Free, Sweeper}
      BY <1>8
      DEF Status, Sweep, SweepBegin, SweepStop, SweepFail, Restart, Unlock, Client, Release,
          Renew, Admin, Pin, Unpin, locking
    <2> QED
      BY <2>1, BrokerAssumption
  <1> QED
    BY <1>4, <1>5, <1>6, <1>7, <1>8 DEF Next

(* No docker stop that an acquire still has ahead has become undue or      *)
(* useless by what happened since its plan was made.                       *)
THEOREM PlansStayDue == Spec => []PlanStaysDue
  <1>1. Init => PlanStaysDue
    BY BrokerAssumption DEF Init, PlanStaysDue
  <1>2. IInv /\ IsSnapshot(Snapshot) /\ PlanStaysDue /\ [Next]_vars => PlanStaysDue'
    BY DueStep
  <1> QED
    BY <1>1, <1>2, Invariant, PlansFromSnapshots, PTL DEF Spec
=============================================================================
