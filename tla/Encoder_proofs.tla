---------------------------- MODULE Encoder_proofs ----------------------------
(***************************************************************************)
(* The CPU encoder's cache, for any number of threads and models and any   *)
(* limits that meet EncoderAssumption.                                     *)
(***************************************************************************)
EXTENDS Encoder, TLAPS

(* Who loads holds the lock, and _last_use is no older than the work that  *)
(* began with it.                                                          *)
UseFresh ==
    \A t \in Thread :
        /\ pc[t] = "load" <=> lock = t
        /\ pc[t] # "idle" => role[t] \in Role
        /\ pc[t] = "load" => age <= clock[t] /\ clock[t] <= MaxLoad
        /\ pc[t] = "compute" => age <= MaxLoad + clock[t] /\ clock[t] <= MaxCompute

(* At every turn the unloader either clears or leaves a young cache.       *)
TurnInTime == models # {} /\ IdleLimit # 0 => age + nap <= IdleLimit + Period

EInv == TypeOK /\ UseFresh /\ KeptInUse /\ OneCopy /\ TurnInTime

LEMMA EncoderInit == Init => EInv
  BY EncoderAssumption
  DEF Init, EInv, TypeOK, UseFresh, KeptInUse, OneCopy, TurnInTime, MaxAge

LEMMA EncoderStep == EInv /\ [Next]_vars => EInv'
  <1> SUFFICES ASSUME EInv, [Next]_vars PROVE EInv'
    OBVIOUS
  <1> USE EncoderAssumption
      DEF EInv, TypeOK, UseFresh, KeptInUse, OneCopy, TurnInTime, MaxAge, Goto, Answer
  <1>1. ASSUME NEW t \in Thread, NEW r \in Role, Request(t, r) PROVE EInv'
    BY <1>1 DEF Request
  <1>2. ASSUME NEW t \in Thread, Get(t) PROVE EInv'
    <2>1. CASE role[t] \in models
      BY <1>2, <2>1 DEF Get
    <2>2. CASE role[t] \notin models
      BY <1>2, <2>2 DEF Get
    <2> QED
      BY <2>1, <2>2
  <1>3. ASSUME NEW t \in Thread, LoadOk(t) PROVE EInv'
    BY <1>3 DEF LoadOk
  <1>4. ASSUME NEW t \in Thread, LoadFails(t) PROVE EInv'
    BY <1>4 DEF LoadFails
  <1>5. ASSUME NEW t \in Thread, Finish(t) PROVE EInv'
    BY <1>5 DEF Finish
  <1>6. CASE Unload
    BY <1>6 DEF Unload
  <1>7. CASE Tick
    BY <1>7 DEF Tick, Urgent
  <1>8. CASE UNCHANGED vars
    BY <1>8 DEF vars
  <1> QED
    BY <1>1, <1>2, <1>3, <1>4, <1>5, <1>6, <1>7, <1>8 DEF Next, Serve

THEOREM EncoderInvariant == Spec => []EInv
  BY EncoderInit, EncoderStep, PTL DEF Spec

(* The cache holds known models, the lock a thread, and the unloader's     *)
(* clocks stay in their ranges, for every limit and period.                *)
THEOREM EncoderTypes == Spec => []TypeOK
  BY EncoderInvariant, PTL DEF EInv

(* If a load and an inference together take no longer than the idle limit, *)
(* no model is unloaded under a request.                                   *)
THEOREM NeverUnloadedInUse == Spec => []KeptInUse
  BY EncoderInvariant, PTL DEF EInv

(* Then no model is ever in memory twice, however requests, loads, failed  *)
(* loads and unloads interleave.                                           *)
THEOREM NeverTwice == Spec => []OneCopy
  BY EncoderInvariant, PTL DEF EInv

(* Idle models are cleared within one turn of the unloader.                *)
THEOREM ClearedInTime == Spec => []FreedInTime
  <1>1. EInv => FreedInTime
    BY EncoderAssumption DEF EInv, TypeOK, TurnInTime, FreedInTime
  <1> QED
    BY <1>1, EncoderInvariant, PTL
=============================================================================
