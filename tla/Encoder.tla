------------------------------- MODULE Encoder -------------------------------
(***************************************************************************)
(* containers/encoder-cpu/server.py: the CPU fallback loads a model when a *)
(* request first needs it and drops all models when no request came for    *)
(* ENCODER_IDLE_UNLOAD_S.  Requests run in threads, and so does the        *)
(* unloader.  Clocks count ticks.                                          *)
(***************************************************************************)
EXTENDS Integers

CONSTANTS
    Thread,      \* request threads
    Role,        \* the models: embed and rerank
    NoRole,
    Free,        \* _lock when no thread holds it
    IdleLimit,   \* IDLE_UNLOAD_S; 0 means never
    Period,      \* the unloader's sleep
    MaxLoad,     \* bounds on how long a load takes ...
    MaxCompute   \* ... and an inference

(* A request is over before its model can be taken for idle.               *)
ASSUME EncoderAssumption ==
    /\ {IdleLimit, MaxLoad, MaxCompute} \subseteq Nat /\ Period \in Nat \ {0}
    /\ IdleLimit = 0 \/ MaxLoad + MaxCompute <= IdleLimit
    /\ NoRole \notin Role /\ Free \notin Thread

VARIABLES
    models,   \* _models: the loaded ones
    lock,     \* _lock: Free, or the thread that loads under it
    age,      \* time since _last_use; it matters up to MaxAge
    nap,      \* until the unloader wakes; 0 when it waits for the lock
    pc, role, \* what each thread does, for which model
    clock     \* how long it has been loading or computing

vars == <<models, lock, age, nap, pc, role, clock>>

MaxAge == IdleLimit + Period + 1

TypeOK ==
    /\ models \subseteq Role
    /\ lock \in Thread \cup {Free}
    /\ age \in 0..MaxAge
    /\ nap \in 0..Period
    /\ pc \in [Thread -> {"idle", "get", "load", "compute"}]
    /\ role \in [Thread -> Role \cup {NoRole}]
    /\ clock \in [Thread -> Nat]

Init ==
    /\ models = {} /\ lock = Free
    /\ age = 0 /\ nap = Period
    /\ pc = [t \in Thread |-> "idle"]
    /\ role = [t \in Thread |-> NoRole]
    /\ clock = [t \in Thread |-> 0]

Goto(t, next) ==
    /\ pc' = [pc EXCEPT ![t] = next]
    /\ clock' = [clock EXCEPT ![t] = 0]
Answer(t) == Goto(t, "idle") /\ role' = [role EXCEPT ![t] = NoRole]
-----------------------------------------------------------------------------
(* /v1/embeddings or /rerank                                               *)
Request(t, r) ==
    /\ pc[t] = "idle"
    /\ Goto(t, "get") /\ role' = [role EXCEPT ![t] = r]
    /\ UNCHANGED <<models, lock, age, nap>>

(* Mutants of Get: the load happens outside the lock; only a load counts   *)
(* as a use.                                                               *)
GetUnlocked(t) ==
    /\ pc[t] = "get" /\ lock = Free
    /\ age' = 0
    /\ Goto(t, IF role[t] \in models THEN "compute" ELSE "load")
    /\ UNCHANGED <<models, lock, nap, role>>
GetLoadOnly(t) ==
    /\ pc[t] = "get" /\ lock = Free
    /\ IF role[t] \in models
       THEN Goto(t, "compute") /\ UNCHANGED <<lock, age>>
       ELSE Goto(t, "load") /\ lock' = t /\ age' = 0
    /\ UNCHANGED <<models, nap, role>>

(* _get: the use is noted when the lock is acquired, before any load.      *)
Get(t) ==
    /\ pc[t] = "get" /\ lock = Free
    /\ age' = 0
    /\ IF role[t] \in models
       THEN Goto(t, "compute") /\ UNCHANGED lock
       ELSE Goto(t, "load") /\ lock' = t
    /\ UNCHANGED <<models, nap, role>>

LoadOk(t) ==
    /\ pc[t] = "load"
    /\ models' = models \cup {role[t]} /\ lock' = Free
    /\ Goto(t, "compute")
    /\ UNCHANGED <<age, nap, role>>

(* Mutant of LoadFails: the exception leaves the lock taken.               *)
LoadFailsLocked(t) ==
    /\ pc[t] = "load"
    /\ Answer(t)
    /\ UNCHANGED <<models, lock, age, nap>>

LoadFails(t) ==
    /\ pc[t] = "load"
    /\ lock' = Free /\ Answer(t)
    /\ UNCHANGED <<models, age, nap>>

Finish(t) ==
    /\ pc[t] = "compute" /\ Answer(t)
    /\ UNCHANGED <<models, lock, age, nap>>

(* Mutants of Unload: one model at a time; it sleeps as long as the limit. *)
UnloadOne ==
    /\ IdleLimit # 0 /\ nap = 0 /\ lock = Free
    /\ models' \in IF age > IdleLimit /\ models # {} THEN {models \ {r} : r \in models}
                   ELSE {models}
    /\ nap' = Period
    /\ UNCHANGED <<lock, age, pc, role, clock>>
UnloadSeldom ==
    /\ IdleLimit # 0 /\ nap = 0 /\ lock = Free
    /\ models' = IF age > IdleLimit THEN {} ELSE models
    /\ nap' = IdleLimit
    /\ UNCHANGED <<lock, age, pc, role, clock>>

(* One turn of _idle_unloader.                                             *)
Unload ==
    /\ IdleLimit # 0 /\ nap = 0 /\ lock = Free
    /\ models' = IF age > IdleLimit THEN {} ELSE models
    /\ nap' = Period
    /\ UNCHANGED <<lock, age, pc, role, clock>>

(* Time passes when no thread can go on but by working, and none is at its *)
(* bound.                                                                  *)
Urgent ==
    \/ IdleLimit # 0 /\ nap = 0 /\ lock = Free
    \/ lock = Free /\ \E t \in Thread : pc[t] = "get"
    \/ \E t \in Thread : \/ pc[t] = "load" /\ clock[t] >= MaxLoad
                         \/ pc[t] = "compute" /\ clock[t] >= MaxCompute

Tick ==
    /\ ~Urgent
    /\ age' = IF age < MaxAge THEN age + 1 ELSE age
    /\ nap' = IF nap > 0 THEN nap - 1 ELSE 0
    /\ clock' = [t \in Thread |-> IF pc[t] \in {"load", "compute"} THEN clock[t] + 1 ELSE 0]
    /\ UNCHANGED <<models, lock, pc, role>>

Serve(t) ==
    \/ \E r \in Role : Request(t, r)
    \/ Get(t) \/ LoadOk(t) \/ LoadFails(t) \/ Finish(t)

Next == (\E t \in Thread : Serve(t)) \/ Unload \/ Tick

Spec == Init /\ [][Next]_vars

(* Loads and inferences end, the lock is given to whoever goes on asking,  *)
(* the unloader runs, time passes.                                         *)
FairSpec ==
    /\ Spec
    /\ \A t \in Thread : /\ SF_vars(Get(t)) /\ WF_vars(Finish(t))
                         /\ WF_vars(LoadOk(t) \/ LoadFails(t))
    /\ WF_vars(Unload) /\ WF_vars(Tick)
-----------------------------------------------------------------------------
(* Properties *)

(* No model is dropped while a request computes with it: idleness is       *)
(* judged by when requests began, and a request may outlast the load and   *)
(* several turns of the unloader.                                          *)
KeptInUse == \A t \in Thread : pc[t] = "compute" => role[t] \in models

(* A model is in memory once (the unit's MemoryMax is 8G): nobody loads a  *)
(* model that another request is loading or still computing with.          *)
OneCopy ==
    \A t, u \in Thread :
        t # u /\ pc[t] = "load" /\ pc[u] \in {"load", "compute"} => role[t] # role[u]

(* Idle models are gone one turn of the unloader after the limit, also if  *)
(* that turn has to wait for a load.                                       *)
FreedInTime == IdleLimit # 0 /\ models # {} => age <= IdleLimit + Period

(* When requests stop coming the memory is given back for good.            *)
FreedAtLast == (<>[](\A t \in Thread : pc[t] = "idle")) => <>[](models = {})
=============================================================================
