----------------------------- MODULE LeaseClient -----------------------------
(***************************************************************************)
(* One handle held as a lease: the client's acquire() context manager and  *)
(* its _Renewer thread (client/gpu_broker_client.py), the network, and the *)
(* handle in State.handles (broker/state.py).                              *)
(*                                                                         *)
(* Time is counted in ticks.  Every clock counts from 0 up to its limit or *)
(* from the lease down to 0, and Tick waits for whoever's limit is reached.*)
(***************************************************************************)
EXTENDS Naturals

CONSTANTS
    Leases,         \* the values of hold_seconds
    Floor,          \* the least interval between renewals
    Cap,            \* MAX_RENEW_INTERVAL_SECONDS
    AcquireTimeout, \* how long the client waits for its handle
    Timeout,        \* how long it waits for the answer to a renewal or release
    Join,           \* how long stop() waits for the thread
    MaxFail,        \* bound: renewals that fail in a row while the client holds
    MaxStray        \* bound: renewals given up on that are still on their way

ASSUME LeaseAssumption ==
    /\ Leases \subseteq Nat \ {0} /\ Floor \in Nat \ {0} /\ Cap \in Nat \ {0}
    /\ AcquireTimeout \in Nat /\ Timeout \in Nat /\ Join \in Nat
    /\ MaxFail \in Nat /\ MaxStray \in Nat

VARIABLES
    renews,   \* the broker has /renew and expires handles; older ones do neither
    lease,    \* hold_seconds of this acquire and its renewals
    handle,   \* none, held, released, expired, or forgotten in a restart
    left,     \* hold_until less the present time
    client,   \* out, asking, in (the with-block), joining, releasing, done, dead
    clock,    \* how long the client has been asking, joining or releasing
    renewer,  \* off, sleep, call, or ended
    timer,    \* how long the renewer has been sleeping or calling
    call,     \* its call: none, sent, applied, lost (unknown handle), absent
    lag,      \* how long the last answer took that the client accepted
    fails,    \* how many renewals in a row have failed since then
    stray,    \* renewals the client has given up on and the broker may get
    late      \* the same of the release

given == <<renews, lease>>
table == <<given, handle, left>>
thread == <<renewer, timer, call, lag, fails>>
vars == <<table, client, clock, thread, stray, late>>

TypeOK ==
    /\ renews \in BOOLEAN /\ lease \in Leases
    /\ handle \in {"none", "held", "released", "expired", "forgotten"}
    /\ left \in 0 .. lease
    /\ client \in {"out", "asking", "in", "joining", "releasing", "done", "dead"}
    /\ clock \in Nat
    /\ renewer \in {"off", "sleep", "call", "ended"}
    /\ timer \in Nat
    /\ call \in {"none", "sent", "applied", "lost", "absent"}
    /\ lag \in Nat /\ fails \in Nat
    /\ stray \in 0 .. MaxStray
    /\ late \in BOOLEAN

Init ==
    /\ renews \in BOOLEAN /\ lease \in Leases
    /\ handle = "none" /\ left = 0
    /\ client = "out" /\ clock = 0
    /\ renewer = "off" /\ timer = 0 /\ call = "none"
    /\ lag = 0 /\ fails = 0
    /\ stray = 0 /\ late = FALSE
-----------------------------------------------------------------------------
(* The handle table of the broker.                                         *)

(* create_handle, for a client that waits for the answer to its /acquire   *)
(* or has given up on it by then.                                          *)
Grant ==
    /\ client = "out" /\ handle = "none"
    /\ handle' = "held" /\ left' = lease
    /\ client' \in {"asking", "done"} /\ clock' = 0
    /\ UNCHANGED <<given, thread, stray, late>>

(* Mutant of RenewHandle: a renewal creates the handle it does not find.   *)
RenewOrCreate ==
    IF renews THEN handle' = "held" /\ left' = lease ELSE UNCHANGED <<handle, left>>

(* /renew: lapsed handles go first, then the handle, if it is still there, *)
(* gets its whole lease again.                                             *)
RenewHandle ==
    /\ handle' = IF renews /\ handle = "held" /\ left = 0 THEN "expired" ELSE handle
    /\ left' = IF renews /\ handle = "held" /\ left > 0 THEN lease ELSE left

BrokerRenews ==
    /\ call = "sent"
    /\ RenewHandle
    /\ call' = IF ~renews THEN "absent"
               ELSE IF handle' = "held" THEN "applied" ELSE "lost"
    /\ UNCHANGED <<given, client, clock, renewer, timer, lag, fails, stray, late>>

ReleaseHandle == handle' = IF handle = "held" THEN "released" ELSE handle

(* expire_handles, by the sweep or by any request that looks for handles.  *)
Expire ==
    /\ renews /\ handle = "held" /\ left = 0
    /\ handle' = "expired"
    /\ UNCHANGED <<given, left, client, clock, thread, stray, late>>

(* A request the client no longer waits for arrives, or never does.        *)
StrayRenewal ==
    /\ stray > 0 /\ stray' = stray - 1
    /\ RenewHandle \/ UNCHANGED <<handle, left>>
    /\ UNCHANGED <<given, client, clock, thread, late>>

LateRelease ==
    /\ late /\ late' = FALSE
    /\ ReleaseHandle \/ UNCHANGED handle
    /\ UNCHANGED <<given, left, client, clock, thread, stray>>

(* The broker restarts: its handles are gone.                              *)
Restart ==
    /\ handle = "held" /\ handle' = "forgotten"
    /\ UNCHANGED <<given, left, client, clock, thread, stray, late>>
-----------------------------------------------------------------------------
(* _Renewer.run                                                            *)

(* A third of the lease, to the tick: choose ticks that divide it.         *)
Interval ==
    LET third == IF lease \div 3 < Cap THEN lease \div 3 ELSE Cap
    IN  IF third < Floor THEN Floor ELSE third

Wake ==
    /\ renewer = "sleep" /\ timer = Interval
    /\ renewer' = "call" /\ timer' = 0 /\ call' = "sent"
    /\ UNCHANGED <<table, client, clock, lag, fails, stray, late>>

(* Mutant of Resume: the thread does not see that stop() was called.       *)
ResumeAlways == renewer' = "sleep"

(* After a call the thread sleeps again, unless stop() was called.         *)
Resume ==
    renewer' = IF client \in {"joining", "releasing", "done"} THEN "ended" ELSE "sleep"

RenewOk ==
    /\ call = "applied"
    /\ Resume /\ timer' = 0 /\ call' = "none" /\ lag' = timer /\ fails' = 0
    /\ UNCHANGED <<table, client, clock, stray, late>>

(* Mutant of RenewFails: the thread gives up with the first failure.       *)
RenewFailsEnds ==
    /\ call # "none" /\ renewer' = "ended"
    /\ timer' = 0 /\ call' = "none" /\ fails' = fails + 1
    /\ UNCHANGED <<table, client, clock, lag, stray, late>>

(* No answer, or an error: the request may be lost, or arrive later, or    *)
(* have been served and its answer lost.                                   *)
RenewFails ==
    /\ call # "none" /\ (client = "in" => fails < MaxFail)
    /\ Resume /\ timer' = 0 /\ call' = "none" /\ fails' = fails + 1
    /\ stray' \in {stray} \cup
         (IF call = "sent" /\ stray < MaxStray THEN {stray + 1} ELSE {})
    /\ UNCHANGED <<table, client, clock, lag, late>>

(* HandleLostError, or a broker without /renew.                            *)
RenewRefused ==
    /\ call \in {"lost", "absent"}
    /\ renewer' = "ended" /\ timer' = 0 /\ call' = "none"
    /\ UNCHANGED <<table, client, clock, lag, fails, stray, late>>
-----------------------------------------------------------------------------
(* acquire() *)

(* The answer is accepted however late it is: by then the lease may have   *)
(* run down, or out.                                                       *)
Answered ==
    /\ client = "asking" /\ client' = "in" /\ clock' = 0
    /\ renewer' = "sleep" /\ timer' = 0 /\ lag' = clock
    /\ UNCHANGED <<table, call, fails, stray, late>>

(* The answer is lost: acquire() raises, and nobody knows the handle.      *)
AnswerLost ==
    /\ client = "asking" /\ client' = "done" /\ clock' = 0
    /\ UNCHANGED <<table, thread, stray, late>>

(* The with-block ends, and stop() wakes the thread if it sleeps.          *)
Exit ==
    /\ client = "in" /\ client' = "joining" /\ clock' = 0
    /\ renewer' = IF renewer = "sleep" THEN "ended" ELSE renewer
    /\ UNCHANGED <<table, timer, call, lag, fails, stray, late>>

(* join() returns, with the thread ended or not, and /release is sent.     *)
Joined ==
    /\ client = "joining"
    /\ renewer = "ended" \/ clock = Join
    /\ client' = "releasing" /\ clock' = 0
    /\ UNCHANGED <<table, thread, stray, late>>

Release ==
    /\ client = "releasing" /\ client' = "done" /\ clock' = 0
    /\ ReleaseHandle
    /\ UNCHANGED <<given, left, thread, stray, late>>

(* A release that fails is logged and not repeated.                        *)
ReleaseFails ==
    /\ client = "releasing" /\ client' = "done" /\ clock' = 0
    /\ late' \in BOOLEAN
    /\ UNCHANGED <<table, thread, stray>>

(* Mutant of Die: the thread is not a daemon.                              *)
DieThreadLives ==
    /\ client \notin {"out", "done", "dead"} /\ client' = "dead" /\ clock' = 0
    /\ UNCHANGED <<table, thread, stray, late>>

(* The process is killed, its daemon thread with it; a request it has sent *)
(* may still arrive.                                                       *)
Die ==
    /\ client \notin {"out", "done", "dead"} /\ client' = "dead" /\ clock' = 0
    /\ renewer' = "off" /\ timer' = 0 /\ call' = "none"
    /\ stray' \in {stray} \cup
         (IF call = "sent" /\ stray < MaxStray THEN {stray + 1} ELSE {})
    /\ late' \in IF client = "releasing" THEN BOOLEAN ELSE {late}
    /\ UNCHANGED <<table, lag, fails>>
-----------------------------------------------------------------------------
(* How long the client waits for what it is waiting for.                   *)
Patience ==
    CASE client = "asking"    -> AcquireTimeout
      [] client = "releasing" -> Timeout
      [] OTHER                -> Join

Waiting == client \in {"asking", "joining", "releasing"}

Urgent ==
    \/ renewer = "sleep" /\ timer >= Interval
    \/ renewer = "call" /\ timer >= Timeout
    \/ Waiting /\ clock >= Patience

Tick ==
    /\ ~Urgent
    /\ left' = IF left > 0 THEN left - 1 ELSE 0
    /\ timer' = IF renewer \in {"sleep", "call"} THEN timer + 1 ELSE timer
    /\ clock' = IF Waiting THEN clock + 1 ELSE clock
    /\ UNCHANGED <<given, handle, client, renewer, call, lag, fails, stray, late>>

Broker == BrokerRenews \/ Expire \/ StrayRenewal \/ LateRelease \/ Restart
Renewer == Wake \/ RenewOk \/ RenewFails \/ RenewRefused
Client == Grant \/ Answered \/ AnswerLost \/ Exit \/ Joined \/ Release \/ ReleaseFails \/ Die
Next == Broker \/ Renewer \/ Client \/ Tick

Spec == Init /\ [][Next]_vars

(* The thread and the client run when they can, calls end by their time-   *)
(* outs, time passes, and the sweep comes round.  A with-block may last    *)
(* for ever, and nothing is promised of the network.                       *)
Fairness ==
    /\ WF_vars(Tick) /\ WF_vars(Expire) /\ WF_vars(Wake)
    /\ WF_vars(BrokerRenews) /\ WF_vars(RenewOk \/ RenewFails \/ RenewRefused)
    /\ WF_vars(Answered \/ AnswerLost)
    /\ WF_vars(Joined) /\ WF_vars(Release \/ ReleaseFails)

FairSpec == Spec /\ Fairness
-----------------------------------------------------------------------------
(* The longest a failed renewal sets the client back.                      *)
Cycle == Interval + Timeout

(* The lease outlasts the last answer's delay, the renewals that failed    *)
(* since, and the one that is due or under way.                            *)
Bears == lag + (fails + 1) * Cycle < lease

(* A live client keeps its handle as long as its with-block lasts: however *)
(* late its handle came and however renewals are lost, late or served      *)
(* unanswered, the lease does not lapse under it while Bears holds, and    *)
(* only a broker restart takes the handle away.                            *)
LeaseKept ==
    renews /\ client = "in" /\ Bears =>
        handle = "forgotten" \/ (handle = "held" /\ left > 0)

(* A handle that was released, expired or forgotten does not come back,    *)
(* whatever renewals are still on their way.                               *)
GoneForGood ==
    [][UNCHANGED handle \/ handle \in {"none", "held"}]_vars

(* A client that was killed, lost the answer to its acquire, or failed to  *)
(* release, does not hold for ever.                                        *)
HandleGoes == renews /\ client \in {"dead", "done"} ~> handle # "held"

(* No renewal thread outlives its with-block for good, even if join() gave *)
(* up on it.                                                               *)
ThreadEnds == client = "done" ~> renewer \in {"off", "ended"}
=============================================================================
