------------------------------ MODULE Whisperx ------------------------------
(***************************************************************************)
(* whisperx-server: transcriptions of files by path and of uploads, on one *)
(* thread pool, over lazily loaded alignment and diarization models, with  *)
(* the readiness latch.                                                    *)
(***************************************************************************)
EXTENDS Upload

CONSTANTS
    Align, Diarize,  \* the requests that ask for alignment, for speakers
    Retries          \* HEALTHCHECK --retries

ASSUME WhisperxAssumption ==
    Align \subseteq Job /\ Diarize \subseteq Job /\ Retries \in Nat \ {0}

VARIABLES
    available, \* _DIARIZE_AVAILABLE: token and weights are there
    aligner,   \* _align_cache has the language
    diarizer,  \* _diarize_pipeline is set
    modelOk,   \* _MODEL_OK
    streak     \* failed health checks in a row

decoding == <<body, pipes, ffmpeg>>
models == <<available, aligner, diarizer, modelOk>>
vars == <<client, pipes, ffmpeg, models, streak>>

Places == InPool \cup
    {"new", "stream", "writeQ", "endQ", "close", "waitQ", "join", "implQ", "done"}
Answers == {"none", "200", "400", "500", "503"}

TypeOK ==
    /\ UploadTypeOK
    /\ pc \in [Job -> Places] /\ answer \in [Job -> Answers]
    /\ available \in BOOLEAN /\ aligner \in BOOLEAN
    /\ diarizer \in BOOLEAN /\ modelOk \in BOOLEAN
    /\ streak \in 0..Retries

(* The probe of the weights and the self-test are over, passed or not.     *)
Init ==
    /\ UploadInit
    /\ pc = [j \in Job |-> "new"]
    /\ answer = [j \in Job |-> "none"]
    /\ aligner = FALSE /\ diarizer = FALSE
    /\ available \in BOOLEAN /\ modelOk \in BOOLEAN
    /\ streak = 0
-----------------------------------------------------------------------------
Refused(j) == j \in Diarize /\ ~available

(* POST /transcribe_upload: refused before a byte of the body is read.     *)
UploadBegins(u) ==
    /\ pc[u] = "new" /\ u \in Uploads /\ loop = Free
    /\ IF Refused(u) THEN Reply(u, "503") /\ UNCHANGED <<loop, decoding>> ELSE Popen(u)
    /\ UNCHANGED <<models, streak>>

(* POST /transcribe: a sync endpoint, in the pool from the start.          *)
PathBegins(j) ==
    /\ j \notin Uploads
    /\ TakeToken(j, "new", "load")
    /\ UNCHANGED <<answer, loop, decoding, models, streak>>

(* No such file; refused; undecodable; or an array of samples.             *)
PathLoads(j) ==
    /\ pc[j] = "load"
    /\ \/ Reply(j, "400")
       \/ Refused(j) /\ Reply(j, "503")
       \/ ~Refused(j) /\ Reply(j, "500")
       \/ ~Refused(j) /\ Goto(j, "asr") /\ UNCHANGED answer
    /\ UNCHANGED <<loop, decoding, models, streak>>

ImplBegins(u) ==
    /\ TakeToken(u, "implQ", "asr")
    /\ UNCHANGED <<answer, loop, decoding, models, streak>>

(* Mutant of AsrOk: a transcription that works clears the latch.           *)
AsrOkHeals(j) ==
    /\ pc[j] = "asr" /\ Goto(j, "align") /\ modelOk' = TRUE
    /\ UNCHANGED <<answer, loop, decoding, available, aligner, diarizer, streak>>

AsrOk(j) ==
    /\ pc[j] = "asr" /\ Goto(j, "align")
    /\ UNCHANGED <<answer, loop, decoding, models, streak>>

AsrFails(j) ==
    /\ pc[j] = "asr" /\ Reply(j, "500")
    /\ modelOk' = FALSE
    /\ UNCHANGED <<loop, decoding, available, aligner, diarizer, streak>>

(* Check and load are apart: two requests may both load.                   *)
AlignBegins(j) ==
    /\ pc[j] = "align"
    /\ Goto(j, IF j \in Align /\ ~aligner THEN "alignLoad" ELSE "diarize")
    /\ UNCHANGED <<answer, loop, decoding, models, streak>>

(* Whatever fails here is swallowed.                                       *)
AlignLoads(j) ==
    /\ pc[j] = "alignLoad" /\ Goto(j, "diarize")
    /\ aligner' \in {aligner, TRUE}
    /\ UNCHANGED <<answer, loop, decoding, available, diarizer, modelOk, streak>>

(* Diarizing may fail, too, and that is the request's answer; 200 leaves   *)
(* out who could not be aligned or needs no speakers.                      *)
DiarizeOrReply(j) ==
    /\ pc[j] = "diarize"
    /\ IF j \notin Diarize THEN Reply(j, "200")
       ELSE \/ diarizer /\ \E status \in {"200", "500"} : Reply(j, status)
            \/ ~diarizer /\ ~available /\ Reply(j, "503")
            \/ ~diarizer /\ available /\ Goto(j, "diaLoad") /\ UNCHANGED answer
    /\ UNCHANGED <<loop, decoding, models, streak>>

DiarizerLoads(j) ==
    /\ pc[j] = "diaLoad"
    /\ \/ diarizer' = TRUE /\ Goto(j, "diarize") /\ UNCHANGED answer
       \/ Reply(j, "500") /\ UNCHANGED diarizer
    /\ UNCHANGED <<loop, decoding, available, aligner, modelOk, streak>>

ProbeOk ==
    /\ modelOk /\ streak' = 0
    /\ UNCHANGED <<client, pipes, ffmpeg, models>>

(* 503, or no thread free in time.                                         *)
ProbeFails ==
    /\ ~modelOk \/ loop # Free \/ Cardinality(Threads) >= Pool
    /\ streak' = IF streak < Retries THEN streak + 1 ELSE streak
    /\ UNCHANGED <<client, pipes, ffmpeg, models>>
-----------------------------------------------------------------------------
Impl(j) ==
    \/ PathLoads(j) \/ AsrOk(j) \/ AsrFails(j) \/ AlignBegins(j) \/ AlignLoads(j)
    \/ DiarizeOrReply(j) \/ DiarizerLoads(j)
Queue(j) == UploadBegins(j) \/ PathBegins(j) \/ ImplBegins(j)
Decode(u) ==
    /\ \/ Streaming(u) \/ WriteBegins(u) \/ WaitBegins(u)
       \/ Blocking(u) \/ Drains(u) \/ Ffmpeg(u) \/ FfStop(u)
    /\ UNCHANGED <<models, streak>>

Next ==
    \/ \E j \in Job : Queue(j) \/ Impl(j)
    \/ \E u \in Uploads : Decode(u)
    \/ ProbeOk \/ ProbeFails

Spec == Init /\ [][Next]_vars

(* Threads, processes and probes run on; models and ffmpeg come to an end, *)
(* a client goes on sending or leaves.  The event loop and the pool serve  *)
(* in order of arrival: what is possible again and again happens.          *)
FairSpec ==
    /\ Spec
    /\ WF_vars(ProbeFails) /\ WF_vars(ProbeOk)
    /\ \A j \in Job : SF_vars(Queue(j)) /\ WF_vars(Impl(j))
    /\ \A u \in Uploads :
        /\ SF_vars(Streaming(u) /\ UNCHANGED <<models, streak>>)
        /\ SF_vars((WriteBegins(u) \/ WaitBegins(u)) /\ UNCHANGED <<models, streak>>)
        /\ WF_vars(Blocking(u) /\ UNCHANGED <<models, streak>>)
        /\ WF_vars(DrainOut(u) /\ UNCHANGED <<models, streak>>)
        /\ WF_vars(DrainErr(u) /\ UNCHANGED <<models, streak>>)
        /\ WF_vars(Ffmpeg(u) /\ UNCHANGED <<models, streak>>)
-----------------------------------------------------------------------------
Transcribed == {"asr", "align", "alignLoad", "diarize", "diaLoad"}

(* What reaches the model of an upload is all the audio ffmpeg made, and   *)
(* unless ffmpeg itself stopped early that is the audio of the whole body: *)
(* never that of an upload cut short, never what was drained in time.      *)
TranscribedWhole ==
    \A u \in Uploads :
        pc[u] \in Transcribed \/ answer[u] = "200" =>
            /\ got[u] = made[u]
            /\ ff[u] \in {"ok", "early"} /\ (ff[u] = "ok" => fed[u] = Body)

(* No ffmpeg outlives its request, however the upload ends.                *)
NoLeak == \A u \in Uploads : pc[u] = "done" => ff[u] # "run"

(* stdin, stdout and stderr never wait for each other in a circle: whoever *)
(* holds up the event loop, and every thread of the pool in write() or in  *)
(* wait(), is done, or something between its own pipes can go on.          *)
NoCircle ==
    /\ loop # Free => Flushed(loop) \/ Drained(loop) \/ Flows(loop)
    /\ \A u \in Uploads :
          pc[u] \in {"write", "wait"} =>
              Written(u) \/ Broken(u) \/ Reaped(u) \/ Flows(u)

(* Every request is answered: ffmpeg, its pipes, the writer, the drains    *)
(* and the pool never wait for each other in a circle, and what            *)
(* stdin.close() and join() hold up on the event loop goes on.             *)
Answered == \A j \in Job : pc[j] # "done" ~> pc[j] = "done"

(* The worker, uploads and pool and all, is a latch in front of Docker's   *)
(* health check as Readiness has it.                                       *)
Ready == INSTANCE Readiness WITH busy <- {j \in Job : pc[j] = "asr"}
Latches == Ready!Spec

(* A model that has failed once is reported, and stays so.                 *)
Reported == ~modelOk ~> [](streak = Retries)
=============================================================================
