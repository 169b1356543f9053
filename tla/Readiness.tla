------------------------------ MODULE Readiness ------------------------------
(***************************************************************************)
(* What the GPU workers promise about /readyz, and what Docker makes of    *)
(* it.  tei-embed and bge-reranker are no more than this; whisperx-server  *)
(* does it behind its uploads, see Whisperx!Latches.                       *)
(***************************************************************************)
EXTENDS Integers

CONSTANTS
    Job,      \* requests
    Retries   \* HEALTHCHECK --retries

VARIABLES
    modelOk,  \* _MODEL_OK
    busy,     \* the requests the model is working for
    streak    \* failed health checks in a row, up to Retries: unhealthy

vars == <<modelOk, busy, streak>>

(* The server listens when its self-test is over, passed or not.           *)
Init == modelOk \in BOOLEAN /\ busy = {} /\ streak = 0

Begin(j) ==
    /\ j \notin busy /\ busy' = busy \cup {j}
    /\ UNCHANGED <<modelOk, streak>>

Succeed(j) ==
    /\ j \in busy /\ busy' = busy \ {j}
    /\ UNCHANGED <<modelOk, streak>>

(* The first failure latches: nothing sets _MODEL_OK again.                *)
Fail(j) ==
    /\ j \in busy /\ busy' = busy \ {j}
    /\ modelOk' = FALSE
    /\ UNCHANGED streak

ProbeOk ==
    /\ modelOk /\ streak' = 0
    /\ UNCHANGED <<modelOk, busy>>

(* /readyz answers 503, or not in time: it needs a thread of the same pool *)
(* as the requests.                                                        *)
ProbeFails ==
    /\ streak' = IF streak < Retries THEN streak + 1 ELSE streak
    /\ UNCHANGED <<modelOk, busy>>

Next ==
    \/ \E j \in Job : Begin(j) \/ Succeed(j) \/ Fail(j)
    \/ ProbeOk \/ ProbeFails

Spec == Init /\ [][Next]_vars
=============================================================================
