-------------------------- MODULE LeaseClient_proofs --------------------------
(***************************************************************************)
(* What a lease can bear before a live client loses it.                    *)
(***************************************************************************)
EXTENDS LeaseClient, TLAPS

(* The time the renewals may have taken that failed since the last answer. *)
Spent == fails * Cycle

LEMMA Later ==
    \A old, new, n, bound \in Nat : new >= old /\ old + n >= bound => new + n >= bound
  OBVIOUS

LEMMA OneMore ==
    \A n, c \in Nat : n * c \in Nat /\ (n + 1) * c = n * c + c /\ 0 * c = 0
  BY SMTT(30)

LEMMA Clocks ==
    ASSUME TypeOK
    PROVE  /\ Interval \in Nat /\ Cycle \in Nat /\ Spent \in Nat
           /\ Cycle = Interval + Timeout
           /\ fails = 0 => Spent = 0
           /\ Bears <=> lag + Spent + Cycle < lease
  <1>1. \A n \in Nat : n \div 3 \in Nat
    OBVIOUS
  <1>2. Interval \in Nat
    BY <1>1, LeaseAssumption DEF TypeOK, Interval
  <1>3. Cycle \in Nat /\ Cycle = Interval + Timeout
    BY <1>2, LeaseAssumption DEF Cycle
  <1>5. Spent \in Nat /\ (fails + 1) * Cycle = Spent + Cycle /\ (fails = 0 => Spent = 0)
    BY <1>3, OneMore DEF TypeOK, Spent
  <1>6. Bears <=> lag + Spent + Cycle < lease
    BY <1>3, <1>5 DEF TypeOK, Bears
  <1> QED
    BY <1>2, <1>3, <1>5, <1>6

LEMMA ClocksNext == (TypeOK => (Bears <=> lag + Spent + Cycle < lease))'
  <1>1. TypeOK => (Bears <=> lag + Spent + Cycle < lease)
    BY Clocks
  <1> QED
    BY <1>1, PTL

(* The lease is what was asked for, so the interval stays.                 *)
LEMMA Steady ==
    ASSUME TypeOK, TypeOK', lease' = lease
    PROVE  /\ Interval' = Interval /\ Cycle' = Cycle
           /\ fails' = fails => Spent' = Spent
           /\ fails' = fails + 1 => Spent' = Spent + Cycle
           /\ fails' = 0 => Spent' = 0
  <1>1. Interval' = Interval
    BY DEF Interval
  <1>2. Cycle' = Cycle /\ Cycle \in Nat
    BY <1>1, Clocks DEF Cycle
  <1>3. ASSUME fails' = fails + 1 PROVE Spent' = Spent + Cycle
    <2>1. Spent' = (fails + 1) * Cycle
      BY <1>2, <1>3 DEF Spent
    <2> QED
      BY <1>2, <2>1, OneMore DEF TypeOK, Spent
  <1>4. ASSUME fails' = 0 PROVE Spent' = 0
    <2>1. Spent' = 0 * Cycle
      BY <1>2, <1>4 DEF Spent
    <2> QED
      BY <1>2, <2>1, OneMore
  <1> QED
    BY <1>1, <1>2, <1>3, <1>4 DEF Spent

LEMMA Typed == Spec => []TypeOK
  <1>1. Init => TypeOK
    <2> SUFFICES ASSUME Init PROVE TypeOK
      OBVIOUS
    <2>1. left \in 0 .. lease /\ stray \in 0 .. MaxStray
      BY LeaseAssumption DEF Init
    <2>2. clock \in Nat /\ timer \in Nat /\ lag \in Nat /\ fails \in Nat
      BY DEF Init
    <2> QED
      BY <2>1, <2>2 DEF Init, TypeOK
  <1>2. TypeOK /\ [Next]_vars => TypeOK'
    <2> SUFFICES ASSUME TypeOK, [Next]_vars PROVE TypeOK'
      OBVIOUS
    <2> USE LeaseAssumption DEF TypeOK, given, table, thread
    <2>1. CASE BrokerRenews
      <3>1. left' \in 0 .. lease'
        BY <2>1 DEF BrokerRenews, RenewHandle
      <3>2. handle' \in {"none", "held", "released", "expired", "forgotten"}
        BY <2>1 DEF BrokerRenews, RenewHandle
      <3>3. call' \in {"none", "sent", "applied", "lost", "absent"}
        BY <2>1 DEF BrokerRenews
      <3> QED
        BY <2>1, <3>1, <3>2, <3>3 DEF BrokerRenews
    <2>2. CASE Expire \/ Restart
      BY <2>2 DEF Expire, Restart
    <2>3. CASE StrayRenewal
      <3>1. left' \in 0 .. lease' /\ stray' \in 0 .. MaxStray
        BY <2>3 DEF StrayRenewal, RenewHandle
      <3>2. handle' \in {"none", "held", "released", "expired", "forgotten"}
        BY <2>3 DEF StrayRenewal, RenewHandle
      <3> QED
        BY <2>3, <3>1, <3>2 DEF StrayRenewal
    <2>4. CASE LateRelease
      <3>1. handle' \in {"none", "held", "released", "expired", "forgotten"}
        BY <2>4 DEF LateRelease, ReleaseHandle
      <3> QED
        BY <2>4, <3>1 DEF LateRelease
    <2>5. CASE Wake \/ RenewRefused
      BY <2>5 DEF Wake, RenewRefused
    <2>6. CASE RenewOk
      BY <2>6 DEF RenewOk, Resume
    <2>7. CASE RenewFails
      BY <2>7 DEF RenewFails, Resume
    <2>8. CASE Grant \/ Answered \/ AnswerLost \/ Exit \/ Joined
      BY <2>8 DEF Grant, Answered, AnswerLost, Exit, Joined
    <2>9. CASE Release \/ ReleaseFails
      BY <2>9 DEF Release, ReleaseFails, ReleaseHandle
    <2>10. CASE Die
      BY <2>10 DEF Die
    <2>11. CASE Tick
      BY <2>11 DEF Tick
    <2>12. CASE UNCHANGED vars
      BY <2>12 DEF vars
    <2> QED
      BY <2>1, <2>2, <2>3, <2>4, <2>5, <2>6, <2>7, <2>8, <2>9, <2>10, <2>11, <2>12
      DEF Next, Broker, Renewer, Client
  <1> QED
    BY <1>1, <1>2, PTL DEF Spec

-----------------------------------------------------------------------------
(* How much of the lease may be gone, by what the thread is doing: the     *)
(* last answer's delay, what failed renewals cost since, and its present   *)
(* sleep or call; or just the call, once the broker has served it.         *)
Fresh ==
    /\ renewer = "sleep" => /\ timer <= Interval
                            /\ left + timer + lag + Spent >= lease
    /\ renewer = "call" => timer <= Timeout
    /\ call \in {"sent", "lost"} => left + timer + Interval + lag + Spent >= lease
    /\ call = "applied" => left + timer >= lease /\ (left > 0 => handle = "held")
    /\ Bears => /\ renewer \in {"sleep", "call"} /\ call # "lost"
                /\ call # "applied" => handle = "held"

Known == renews /\ handle # "forgotten"

KInv ==
    /\ call # "none" <=> renewer = "call"
    /\ client \in {"out", "asking"} => renewer = "off" /\ fails = 0
    /\ renews => call # "absent"
    /\ Known /\ client = "asking" =>
          left + clock >= lease /\ (left > 0 => handle = "held")
    /\ Known /\ client = "in" => Fresh
    /\ late => client \in {"done", "dead"}

LEMMA Kept == ASSUME TypeOK, KInv PROVE LeaseKept
  <1> SUFFICES ASSUME Known, client = "in", Bears PROVE handle = "held" /\ left > 0
    BY DEF LeaseKept, Known
  <1>1. Fresh /\ lag + Spent + Cycle < lease
    BY Clocks DEF KInv
  <1>2. /\ Interval \in Nat /\ Spent \in Nat /\ Cycle = Interval + Timeout
        /\ left \in Nat /\ timer \in Nat /\ lag \in Nat /\ lease \in Nat /\ Timeout \in Nat
    BY Clocks, LeaseAssumption DEF TypeOK
  <1>3. renewer = "sleep" \/ (renewer = "call" /\ call \in {"sent", "applied"})
    BY <1>1 DEF Fresh, KInv, Known, TypeOK
  <1>4. ASSUME renewer = "sleep" PROVE left > 0
    BY ONLY <1>1, <1>2, <1>4 DEF Fresh
  <1>5. ASSUME renewer = "call", call = "sent" PROVE left > 0
    BY ONLY <1>1, <1>2, <1>5 DEF Fresh
  <1>6. ASSUME renewer = "call", call = "applied" PROVE left > 0
    BY ONLY <1>1, <1>2, <1>6 DEF Fresh
  <1>7. left > 0
    BY <1>3, <1>4, <1>5, <1>6
  <1> QED
    BY <1>1, <1>7 DEF Fresh

LEMMA KeptStep ==
    ASSUME TypeOK, TypeOK', KInv, [Next]_vars PROVE KInv'
  <1>0. lease' = lease /\ renews' = renews
    BY DEF Next, Broker, Renewer, Client, BrokerRenews, Expire, StrayRenewal, LateRelease,
           Restart, Wake, RenewOk, RenewFails, RenewRefused, Grant, Answered, AnswerLost, Exit,
           Joined, Release, ReleaseFails, Die, Tick, vars, table, given
  <1>1. /\ Interval \in Nat /\ Spent \in Nat /\ Timeout \in Nat /\ Cycle = Interval + Timeout
        /\ Bears <=> lag + Spent + Cycle < lease
        /\ Bears' <=> lag' + Spent' + Cycle' < lease'
        /\ left \in Nat /\ timer \in Nat /\ lag \in Nat /\ lease \in Nat /\ clock \in Nat
    BY Clocks, ClocksNext, LeaseAssumption DEF TypeOK
  <1>2. /\ Interval' = Interval /\ Cycle' = Cycle
        /\ fails' = fails => Spent' = Spent
        /\ fails' = fails + 1 => Spent' = Spent + Cycle
        /\ fails' = 0 => Spent' = 0
    BY <1>0, Steady
  <1>3. LeaseKept
    BY Kept
  <1> HIDE DEF Interval, Cycle, Spent, Bears
  <1> USE DEF KInv, Known, TypeOK, given, table, thread
  <1>4. CASE BrokerRenews
    <2>1. /\ call = "sent" /\ renewer = "call"
          /\ UNCHANGED <<renews, client, clock, renewer, timer, lag, fails, late>>
          /\ handle' = "forgotten" <=> handle = "forgotten"
      BY <1>4 DEF BrokerRenews, RenewHandle
    <2>2. ASSUME renews, handle = "held", left > 0
          PROVE  handle' = "held" /\ left' = lease /\ call' = "applied"
      BY <1>4, <2>2 DEF BrokerRenews, RenewHandle
    <2>3. ASSUME renews, ~(handle = "held" /\ left > 0)
          PROVE  handle' # "held" /\ left' = left /\ call' = "lost"
      BY <1>1, <1>4, <2>3 DEF BrokerRenews, RenewHandle
    <2>4. ASSUME Known, client = "in", handle = "held", left > 0 PROVE Fresh'
      BY <1>0, <1>1, <1>2, <2>1, <2>2, <2>4 DEF Fresh
    <2>5. ASSUME Known, client = "in", ~(handle = "held" /\ left > 0) PROVE Fresh'
      <3>1. ~Bears
        BY <1>3, <2>5 DEF LeaseKept
      <3> QED
        BY <1>0, <1>1, <1>2, <2>1, <2>3, <2>5, <3>1 DEF Fresh
    <2>6. ~renews => call' = "absent"
      BY <1>4 DEF BrokerRenews
    <2> QED
      BY <1>0, <2>1, <2>2, <2>3, <2>4, <2>5, <2>6
  <1>5. CASE Expire
    <2>1. /\ handle = "held" /\ handle' = "expired" /\ left = 0
          /\ UNCHANGED <<renews, left, client, clock, renewer, timer, call, lag, fails, late>>
      BY <1>5 DEF Expire
    <2>2. ASSUME Known, client = "in" PROVE Fresh'
      <3>1. ~Bears
        BY <1>3, <2>1, <2>2 DEF LeaseKept
      <3> QED
        BY <1>0, <1>1, <1>2, <2>1, <2>2, <3>1 DEF Fresh
    <2> QED
      BY <1>0, <1>1, <2>1, <2>2
  <1>6. CASE StrayRenewal
    <2>1. UNCHANGED <<renews, client, clock, renewer, timer, call, lag, fails, late>>
      BY <1>6 DEF StrayRenewal
    <2>2. /\ left' \in Nat /\ left' >= left
          /\ handle' = "forgotten" <=> handle = "forgotten"
          /\ left > 0 /\ handle = "held" => handle' = "held"
          /\ left' > 0 => left > 0
      BY <1>1, <1>6 DEF StrayRenewal, RenewHandle
    <2>3. \A n \in Nat : left + n >= lease => left' + n >= lease
      BY ONLY <1>1, <2>2, Later
    <2>4. ASSUME Known, client = "in" PROVE Fresh'
      <3>1. Bears => handle' = "held"
        BY <1>3, <2>2, <2>4 DEF LeaseKept
      <3>2. Fresh
        BY <2>4
      <3>3. /\ left + timer + lag + Spent = left + (timer + lag + Spent)
            /\ left' + timer + lag + Spent = left' + (timer + lag + Spent)
            /\ left + timer + Interval + lag + Spent = left + (timer + Interval + lag + Spent)
            /\ left' + timer + Interval + lag + Spent = left' + (timer + Interval + lag + Spent)
            /\ timer + lag + Spent \in Nat /\ timer + Interval + lag + Spent \in Nat
        BY ONLY <1>1, <2>2
      <3>4. /\ renewer = "sleep" => left' + timer + lag + Spent >= lease
            /\ call \in {"sent", "lost"} => left' + timer + Interval + lag + Spent >= lease
        BY ONLY <2>3, <3>2, <3>3 DEF Fresh
      <3>5. call = "applied" => left' + timer >= lease /\ (left' > 0 => handle' = "held")
        BY <1>1, <2>3, <2>2, <3>2 DEF Fresh
      <3> QED
        BY <1>0, <1>1, <1>2, <2>1, <3>1, <3>2, <3>4, <3>5 DEF Fresh
    <2>5. ASSUME Known, client = "asking"
          PROVE  left' + clock' >= lease /\ (left' > 0 => handle' = "held")
      <3>1. left + clock >= lease /\ (left > 0 => handle = "held")
        BY <2>5
      <3> QED
        BY <1>1, <2>3, <2>1, <2>2, <3>1
    <2> QED
      BY <1>0, <2>1, <2>2, <2>4, <2>5
  <1>7. CASE LateRelease \/ Restart
    BY <1>7, <1>0, <1>1, <1>2 DEF LateRelease, ReleaseHandle, Restart, Fresh
  <1>8. CASE Wake \/ RenewRefused
    <2>1. /\ UNCHANGED <<renews, handle, left, client, clock, lag, fails, late>>
          /\ timer' = 0
          /\ \/ /\ renewer = "sleep" /\ timer = Interval
                /\ renewer' = "call" /\ call' = "sent"
             \/ call \in {"lost", "absent"} /\ renewer' = "ended" /\ call' = "none"
      BY <1>8 DEF Wake, RenewRefused
    <2>2. ASSUME Known, client = "in" PROVE Fresh'
      BY <1>0, <1>1, <1>2, <2>1, <2>2 DEF Fresh
    <2> QED
      BY <2>1, <2>2
  <1>9. CASE RenewOk
    <2>1. /\ call = "applied" /\ timer' = 0 /\ call' = "none" /\ lag' = timer /\ fails' = 0
          /\ UNCHANGED <<renews, handle, left, client, clock, late>>
          /\ renewer' \in {"sleep", "ended"} /\ (client = "in" => renewer' = "sleep")
      BY <1>9 DEF RenewOk, Resume
    <2>2. ASSUME Known, client = "in" PROVE Fresh'
      <3>1. left + timer >= lease /\ (left > 0 => handle = "held") /\ Spent' = 0
        BY <1>2, <2>1, <2>2 DEF Fresh
      <3>2. Bears' => left > 0
        BY <1>0, <1>1, <1>2, <2>1, <3>1
      <3> QED
        BY <1>0, <1>1, <1>2, <2>1, <2>2, <3>1, <3>2 DEF Fresh
    <2> QED
      BY <2>1, <2>2
  <1>10. CASE RenewFails
    <2>1. /\ renewer = "call" /\ timer' = 0 /\ call' = "none" /\ fails' = fails + 1
          /\ UNCHANGED <<renews, handle, left, client, clock, lag, late>>
          /\ renewer' \in {"sleep", "ended"} /\ (client = "in" => renewer' = "sleep")
          /\ client \notin {"out", "asking"}
      BY <1>10 DEF RenewFails, Resume
    <2>2. ASSUME Known, client = "in" PROVE Fresh'
      <3>1. timer <= Timeout /\ call \in {"sent", "lost", "applied"}
        BY <2>1, <2>2 DEF Fresh
      <3>2. left + lag + Spent' >= lease
        BY <1>1, <1>2, <2>1, <2>2, <3>1 DEF Fresh
      <3>3. Bears' => Bears
        BY <1>0, <1>1, <1>2, <2>1, LeaseAssumption
      <3>4. Bears => handle = "held"
        BY <1>3, <2>2 DEF LeaseKept
      <3> QED
        BY <1>0, <1>1, <1>2, <2>1, <2>2, <3>2, <3>3, <3>4 DEF Fresh
    <2> QED
      BY <2>1, <2>2
  <1>11. CASE Answered
    <2>1. /\ client = "asking" /\ client' = "in" /\ renewer' = "sleep" /\ timer' = 0
          /\ lag' = clock /\ fails' = 0 /\ call = "none"
          /\ UNCHANGED <<renews, handle, left, call, late>>
      BY <1>11 DEF Answered
    <2>2. ASSUME Known PROVE Fresh'
      <3>1. left + clock >= lease /\ (left > 0 => handle = "held") /\ Spent' = 0
        BY <1>2, <2>1, <2>2
      <3>2. Bears' => left > 0
        BY <1>0, <1>1, <1>2, <2>1, <3>1
      <3> QED
        BY <1>0, <1>1, <1>2, <2>1, <3>1, <3>2 DEF Fresh
    <2> QED
      BY <2>1, <2>2
  <1>12. CASE Grant \/ AnswerLost \/ Exit \/ Joined \/ Release \/ ReleaseFails \/ Die
    BY <1>12, <1>0 DEF Grant, AnswerLost, Exit, Joined, Release, ReleaseFails, Die
  <1>13. CASE Tick
    <2>1. /\ UNCHANGED <<renews, handle, client, renewer, call, lag, fails, late>>
          /\ left' = IF left > 0 THEN left - 1 ELSE 0
          /\ timer' = IF renewer \in {"sleep", "call"} THEN timer + 1 ELSE timer
          /\ client = "asking" => clock' = clock + 1
          /\ renewer = "sleep" => timer < Interval
          /\ renewer = "call" => timer < Timeout
      BY <1>13, <1>1 DEF Tick, Urgent, Waiting
    <2>2. ASSUME Known, client = "in" PROVE Fresh'
      <3>1. CASE renewer = "sleep"
        BY <1>0, <1>1, <1>2, <2>1, <2>2, <3>1 DEF Fresh
      <3>2. CASE call \in {"sent", "lost"}
        BY <1>0, <1>1, <1>2, <2>1, <2>2, <3>2 DEF Fresh
      <3>3. CASE call = "applied"
        BY <1>0, <1>1, <1>2, <2>1, <2>2, <3>3 DEF Fresh
      <3>4. CASE renewer \notin {"sleep", "call"}
        BY <1>0, <1>1, <1>2, <2>1, <2>2, <3>4 DEF Fresh
      <3> QED
        BY <2>2, <3>1, <3>2, <3>3, <3>4
    <2>3. ASSUME Known, client = "asking"
          PROVE  left' + clock' >= lease /\ (left' > 0 => handle = "held")
      BY <1>1, <2>1, <2>3
    <2> QED
      BY <1>0, <2>1, <2>2, <2>3
  <1>14. CASE UNCHANGED vars
    BY <1>14, <1>0, <1>1, <1>2 DEF vars, Fresh
  <1> QED
    BY <1>4, <1>5, <1>6, <1>7, <1>8, <1>9, <1>10, <1>11, <1>12, <1>13, <1>14
    DEF Next, Broker, Renewer, Client

(* However late the handle came, and however renewals fail, cross or go    *)
(* unanswered, a lease that outlasts the last answer's delay, the renewals *)
(* that failed since and one more has not lapsed under its live client.    *)
THEOREM LeaseSafe == Spec => []LeaseKept
  <1>1. Init => KInv
    BY LeaseAssumption DEF Init, KInv, Known
  <1>2. TypeOK /\ TypeOK' /\ KInv /\ [Next]_vars => KInv'
    BY KeptStep
  <1>3. TypeOK /\ KInv => LeaseKept
    BY Kept
  <1> QED
    BY <1>1, <1>2, <1>3, Typed, PTL DEF Spec

(* A late renewal never brings a handle back.                              *)
THEOREM NoRevival == Spec => GoneForGood
  <1>1. TypeOK /\ [Next]_vars => UNCHANGED handle \/ handle \in {"none", "held"}
    <2> SUFFICES ASSUME TypeOK, [Next]_vars, handle \in {"released", "expired", "forgotten"}
                 PROVE  UNCHANGED handle
      BY DEF TypeOK
    <2>1. CASE Broker
      BY <2>1 DEF Broker, BrokerRenews, StrayRenewal, RenewHandle, Expire, LateRelease,
                  ReleaseHandle, Restart
    <2>2. CASE Renewer
      BY <2>2 DEF Renewer, Wake, RenewOk, RenewFails, RenewRefused, table
    <2>3. CASE Grant
      BY <2>3 DEF Grant
    <2>4. CASE Client /\ ~Grant
      BY <2>4 DEF Client, Answered, AnswerLost, Exit, Joined, Release, ReleaseFails, Die,
                  ReleaseHandle, table
    <2>5. CASE Tick \/ UNCHANGED vars
      BY <2>5 DEF Tick, vars, table
    <2> QED
      BY <2>1, <2>2, <2>3, <2>4, <2>5 DEF Next
  <1> QED
    BY <1>1, Typed, PTL DEF Spec, GoneForGood
=============================================================================
