---------------------------- MODULE Whisperx_proofs ----------------------------
(***************************************************************************)
(* whisperx-server, for any number of requests, chunks, pool threads and   *)
(* any size of pipes: what reaches the model is whole, no ffmpeg is left   *)
(* behind, and the worker is the latch of Readiness.                       *)
(***************************************************************************)
EXTENDS Whisperx, TLAPS

(* Bytes on their way through ffmpeg are neither lost nor made up, but for *)
(* those the buffer drops when ffmpeg is gone.                             *)
Conserved(u) ==
    /\ body[u] + buf[u] + inp[u] + fed[u] <= Body
    /\ ff[u] \in {"none", "run"} => body[u] + buf[u] + inp[u] + fed[u] = Body
    /\ made[u] + hold[u] <= fed[u]
    /\ got[u] + outp[u] = made[u]
    /\ ff[u] = "ok" => fed[u] = Body

(* An ffmpeg that still runs when its stdin is closed was sent everything. *)
ClosedWhole(u) ==
    /\ pc[u] = "close" /\ ff[u] = "run" => body[u] = 0
    /\ eof[u] /\ ff[u] = "run" => body[u] = 0 /\ buf[u] = 0

(* Where an upload is tells what became of its ffmpeg.                     *)
Followed(u) ==
    /\ pc[u] # "load"
    /\ pc[u] = "new" => ff[u] = "none"
    /\ ff[u] = "none" => pc[u] \in {"new", "done"} /\ buf[u] = 0 /\ ~eof[u]
    /\ pc[u] = "stream" => buf[u] <= 1
    /\ pc[u] \in {"endQ", "end"} => body[u] = 0
    /\ pc[u] = "done" => ff[u] # "run"
    /\ pc[u] # "done" /\ answer[u] # "none" => pc[u] = "close" /\ Ended(u)
    /\ pc[u] \in Transcribed \cup {"implQ"} \/ answer[u] = "200"
          => ff[u] \in {"ok", "early"} /\ outp[u] = 0

Shapes ==
    /\ pc \in [Job -> Places] /\ answer \in [Job -> Answers]
    /\ body \in [Uploads -> Nat] /\ buf \in [Uploads -> Nat]
    /\ inp \in [Uploads -> Nat] /\ outp \in [Uploads -> Nat] /\ errp \in [Uploads -> Nat]
    /\ eof \in [Uploads -> BOOLEAN] /\ ff \in [Uploads -> Fates]
    /\ fed \in [Uploads -> Nat] /\ hold \in [Uploads -> Nat] /\ noise \in [Uploads -> Nat]
    /\ made \in [Uploads -> Nat] /\ got \in [Uploads -> Nat]

Sound(u) == Conserved(u) /\ ClosedWhole(u) /\ Followed(u)
WInv == TypeOK /\ \A u \in Uploads : Sound(u)

LEMMA WhisperxInit == Init => WInv
  <1> SUFFICES ASSUME Init PROVE WInv
    OBVIOUS
  <1> USE UploadAssumption, WhisperxAssumption DEF Init, UploadInit
  <1>1. TypeOK
    <2>1. UploadTypeOK
      BY DEF UploadTypeOK, Fates
    <2>2. pc \in [Job -> Places] /\ answer \in [Job -> Answers] /\ streak \in 0..Retries
      BY DEF Places, Answers
    <2>3. /\ available \in BOOLEAN /\ aligner \in BOOLEAN
          /\ diarizer \in BOOLEAN /\ modelOk \in BOOLEAN
      OBVIOUS
    <2> QED
      BY <2>1, <2>2, <2>3 DEF TypeOK
  <1>2. ASSUME NEW u \in Uploads PROVE Sound(u)
    BY <1>2 DEF Sound, Conserved, ClosedWhole, Followed, Transcribed, Ended, InPool
  <1> QED
    BY <1>1, <1>2 DEF WInv

LEMMA ShapesHold == WInv => Shapes
  <1> SUFFICES ASSUME WInv PROVE Shapes
    OBVIOUS
  <1>1. pc \in [Job -> Places] /\ answer \in [Job -> Answers]
    BY DEF WInv, TypeOK
  <1>2. UploadTypeOK
    BY DEF WInv, TypeOK
  <1>3. inp \in [Uploads -> Nat] /\ outp \in [Uploads -> Nat] /\ errp \in [Uploads -> Nat]
    BY <1>2, UploadAssumption DEF UploadTypeOK
  <1>4. ff \in [Uploads -> Fates]
    BY <1>2 DEF UploadTypeOK
  <1> QED
    BY <1>1, <1>2, <1>3, <1>4, UploadAssumption DEF UploadTypeOK, Shapes

LEMMA DecodeTypes ==
    ASSUME WInv, NEW u \in Uploads, Decode(u)
    PROVE  TypeOK'
  <1> USE UploadAssumption DEF UploadTypeOK, Sound, Conserved, Followed, Goto, Reply
  <1>a. TypeOK /\ Sound(u)
    BY DEF WInv
  <1>b. UNCHANGED <<models, streak>>
    BY DEF Decode
  <1>1. ASSUME UploadTypeOK', pc' \in [Job -> Places], answer' \in [Job -> Answers]
        PROVE  TypeOK'
    BY <1>1, <1>a, <1>b DEF TypeOK, models
  <1>2. CASE Receive(u)
    <2>1. buf[u] + 1 \in 0..2 /\ body[u] - 1 \in 0..Body
      BY <1>2, <1>a DEF TypeOK, Receive
    <2>2. UploadTypeOK'
      BY <1>2, <2>1, <1>a DEF TypeOK, Receive, ffmpeg
    <2> QED
      BY <1>1, <2>2, <1>2, <1>a DEF TypeOK, Places, Answers, InPool, Fates, Receive
  <1>3. CASE BodyEnds(u) \/ EndReturns(u)
    BY <1>1, <1>3, <1>a DEF TypeOK, Places, Answers, InPool, Fates, BodyEnds, EndReturns, client, pipes, ffmpeg
  <1>4. CASE Disconnect(u)
    BY <1>1, <1>4, <1>a DEF TypeOK, Places, Answers, InPool, Fates, Disconnect, client, pipes, ffmpeg
  <1>5. CASE WriteReturns(u)
    BY <1>1, <1>5, <1>a DEF TypeOK, Places, Answers, InPool, Fates, WriteReturns, Written, client, pipes, ffmpeg
  <1>6. CASE WriteBreaks(u)
    BY <1>1, <1>6, <1>a DEF TypeOK, Places, Answers, InPool, Fates, WriteBreaks, Broken, client, pipes, ffmpeg
  <1>7. CASE Waited(u)
    BY <1>1, <1>7, <1>a DEF TypeOK, Places, Answers, InPool, Fates, Waited, Reaped, client, pipes, ffmpeg
  <1>8. CASE WriteBegins(u)
    BY <1>1, <1>8, <1>a DEF TypeOK, Places, Answers, InPool, Fates, WriteBegins, TakeToken, client, pipes, ffmpeg
  <1>9. CASE WaitBegins(u)
    BY <1>1, <1>9, <1>a DEF TypeOK, Places, Answers, InPool, Fates, WaitBegins, TakeToken, client, pipes, ffmpeg
  <1>10. CASE Put(u)
    BY <1>1, <1>10, <1>a DEF TypeOK, Places, Answers, InPool, Fates, Put, Puts, client, pipes, ffmpeg
  <1>11. CASE Closed(u)
    BY <1>1, <1>11, <1>a DEF TypeOK, Places, Answers, InPool, Fates, Closed, Flushed, client, pipes, ffmpeg
  <1>12. CASE Joined(u)
    BY <1>1, <1>12, <1>a DEF TypeOK, Places, Answers, InPool, Fates, Joined, Drained, client, pipes, ffmpeg
  <1>13. CASE DrainOut(u)
    BY <1>1, <1>13, <1>a DEF TypeOK, Places, Answers, InPool, Fates, DrainOut, Audio, client, pipes, ffmpeg
  <1>14. CASE DrainErr(u)
    BY <1>1, <1>14, <1>a DEF TypeOK, Places, Answers, InPool, Fates, DrainErr, Messages, client, pipes, ffmpeg
  <1>15. CASE FfRead(u)
    <2>1. body[u] + buf[u] + inp[u] + fed[u] = Body /\ inp[u] \in 1..Pipe
      BY <1>15, <1>a DEF TypeOK, FfRead, Reads, FfIdle
    <2>a. {body[u], buf[u], fed[u]} \subseteq Nat
      BY <1>a DEF TypeOK
    <2>b. fed[u] + 1 \in 0..Body /\ inp[u] - 1 \in 0..Pipe
      BY <2>1, <2>a, UploadAssumption
    <2>2. hold' \in [Uploads -> 0..1] /\ noise' \in [Uploads -> 0..Noise]
      BY <1>15, <1>a DEF TypeOK, FfRead, Reads
    <2>3. UploadTypeOK'
      BY <1>15, <2>b, <2>2, <1>a DEF TypeOK, FfRead, Reads, client
    <2> QED
      BY <1>1, <2>3, <1>15, <1>a DEF TypeOK, FfRead, Reads, client
  <1>16. CASE FfWrite(u)
    <2>1. UNCHANGED <<client, buf, inp, eof, ff, fed, got>>
      BY <1>16 DEF FfWrite
    <2>2. CASE hold[u] = 1 /\ outp[u] < Pipe
               /\ outp' = [outp EXCEPT ![u] = @ + 1] /\ hold' = [hold EXCEPT ![u] = 0]
               /\ made' = [made EXCEPT ![u] = @ + 1]
               /\ UNCHANGED <<errp, noise>>
      <3>1. outp[u] + 1 \in 0..Pipe /\ made[u] + 1 \in 0..Body
        BY <2>2, <1>a DEF TypeOK
      <3>2. UploadTypeOK'
        BY <2>1, <2>2, <3>1, <1>a DEF TypeOK, client
      <3> QED
        BY <1>1, <2>1, <3>2, <1>a DEF TypeOK, client
    <2>3. CASE noise[u] > 0 /\ errp[u] < Pipe
               /\ errp' = [errp EXCEPT ![u] = @ + 1] /\ noise' = [noise EXCEPT ![u] = @ - 1]
               /\ UNCHANGED <<outp, hold, made>>
      <3>1. errp[u] + 1 \in 0..Pipe /\ noise[u] - 1 \in 0..Noise
        BY <2>3, <1>a DEF TypeOK
      <3>2. UploadTypeOK'
        BY <2>1, <2>3, <3>1, <1>a DEF TypeOK, client
      <3> QED
        BY <1>1, <2>1, <3>2, <1>a DEF TypeOK, client
    <2> QED
      BY <1>16, <2>2, <2>3 DEF FfWrite, Gives, Complains
  <1>17. CASE FfEnd(u)
    BY <1>1, <1>17, <1>a DEF TypeOK, Places, Answers, InPool, Fates, FfEnd, Ends, FfExit, FfIdle, client, pipes, ffmpeg
  <1>18. CASE FfStop(u)
    BY <1>1, <1>18, <1>a DEF TypeOK, Places, Answers, InPool, Fates, FfStop, FfExit, FfIdle, client, pipes, ffmpeg
  <1> QED
    BY <1>2, <1>3, <1>4, <1>5, <1>6, <1>7, <1>8, <1>9, <1>10, <1>11, <1>12, <1>13, <1>14, <1>15, <1>16, <1>17, <1>18
    DEF Decode, Streaming, Blocking, Drains, Ffmpeg

LEMMA DecodeSound ==
    ASSUME WInv, NEW u \in Uploads, Decode(u), NEW v \in Uploads
    PROVE  Sound(v)'
  <1> USE UploadAssumption DEF Goto, Reply, Sound, Conserved, ClosedWhole, Followed, Transcribed, Ended
  <1>a. Shapes /\ Sound(u) /\ Sound(v)
    BY ShapesHold DEF WInv
  <1> USE <1>a DEF Shapes, client, pipes, ffmpeg
  <1>2. CASE Receive(u)
    BY <1>2 DEF Receive
  <1>3. CASE BodyEnds(u) \/ EndReturns(u)
    BY <1>3 DEF BodyEnds, EndReturns
  <1>4. CASE Disconnect(u)
    BY <1>4 DEF Disconnect
  <1>5. CASE WriteReturns(u)
    BY <1>5 DEF WriteReturns, Written
  <1>6. CASE WriteBreaks(u)
    BY <1>6 DEF WriteBreaks, Broken
  <1>7. CASE Waited(u)
    BY <1>7 DEF Waited, Reaped
  <1>8. CASE WriteBegins(u)
    <2>1. CASE TakeToken(u, "writeQ", "write")
      BY <1>8, <2>1 DEF WriteBegins, TakeToken
    <2>2. CASE TakeToken(u, "endQ", "end")
      BY <1>8, <2>2 DEF WriteBegins, TakeToken
    <2> QED
      BY <1>8, <2>1, <2>2 DEF WriteBegins
  <1>9. CASE WaitBegins(u)
    BY <1>9 DEF WaitBegins, TakeToken
  <1>10. CASE Put(u)
    BY <1>10 DEF Put, Puts
  <1>11. CASE Closed(u)
    <2>1. CASE v = u
      BY <1>11, <2>1 DEF Closed, Flushed
    <2>2. CASE v # u
      BY <1>11, <2>2 DEF Closed, Flushed
    <2> QED
      BY <2>1, <2>2
  <1>12. CASE Joined(u)
    BY <1>12 DEF Joined, Drained
  <1>13. CASE DrainOut(u)
    BY <1>13 DEF DrainOut, Audio
  <1>14. CASE DrainErr(u)
    BY <1>14 DEF DrainErr, Messages
  <1>15. CASE FfRead(u)
    BY <1>15 DEF FfRead, Reads, FfIdle
  <1>16. CASE FfWrite(u)
    BY <1>16 DEF FfWrite, Gives, Complains
  <1>17. CASE FfEnd(u)
    BY <1>17 DEF FfEnd, Ends, FfExit, FfIdle
  <1>18. CASE FfStop(u)
    BY <1>18 DEF FfStop, FfExit, FfIdle
  <1> QED
    BY <1>2, <1>3, <1>4, <1>5, <1>6, <1>7, <1>8, <1>9, <1>10, <1>11, <1>12, <1>13, <1>14, <1>15, <1>16, <1>17, <1>18
    DEF Decode, Streaming, Blocking, Drains, Ffmpeg

LEMMA RequestStep ==
    ASSUME WInv, NEW j \in Job, Queue(j) \/ Impl(j)
    PROVE  WInv'
  <1> USE UploadAssumption, WhisperxAssumption DEF Goto, Reply
  <1>a. TypeOK /\ Shapes
    BY ShapesHold DEF WInv
  <1>1. TypeOK'
    <2>1. CASE UploadBegins(j)
      BY <2>1, <1>a DEF UploadBegins, Popen, TypeOK, UploadTypeOK, Places, Answers, Fates,
                        client, decoding, models, pipes, ffmpeg
    <2>2. CASE PathBegins(j) \/ ImplBegins(j)
      BY <2>2, <1>a DEF PathBegins, ImplBegins, TakeToken, TypeOK, UploadTypeOK, Places,
                        InPool, decoding, models, pipes, ffmpeg
    <2>3. CASE Impl(j)
      <3>1. UNCHANGED <<loop, decoding, available, streak>>
        BY <2>3 DEF Impl, PathLoads, AsrOk, AsrFails, AlignBegins, AlignLoads,
                    DiarizeOrReply, DiarizerLoads, models
      <3>2. UploadTypeOK'
        BY <3>1, <1>a DEF TypeOK, UploadTypeOK, decoding, pipes, ffmpeg
      <3>3. /\ \E p \in Places : pc' = [pc EXCEPT ![j] = p]
            /\ answer' = answer \/ \E a \in Answers : answer' = [answer EXCEPT ![j] = a]
        BY <2>3 DEF Impl, PathLoads, AsrOk, AsrFails, AlignBegins, AlignLoads,
                    DiarizeOrReply, DiarizerLoads, Places, Answers, InPool
      <3>4. pc' \in [Job -> Places] /\ answer' \in [Job -> Answers]
        BY <3>3, <1>a DEF TypeOK
      <3>5. aligner' \in BOOLEAN /\ diarizer' \in BOOLEAN /\ modelOk' \in BOOLEAN
        BY <2>3, <1>a
        DEF Impl, PathLoads, AsrOk, AsrFails, AlignBegins, AlignLoads,
            DiarizeOrReply, DiarizerLoads, models, TypeOK
      <3> QED
        BY <3>1, <3>2, <3>4, <3>5, <1>a DEF TypeOK
    <2> QED
      BY <2>1, <2>2, <2>3 DEF Queue
  <1>2. ASSUME NEW v \in Uploads PROVE Sound(v)'
    <2>a. Sound(v) /\ v \in Job
      BY DEF WInv
    <2> USE <1>a, <2>a DEF Shapes, Sound, Conserved, ClosedWhole, Followed, Transcribed,
                           Ended, decoding, pipes, ffmpeg
    <2>1. CASE UploadBegins(j)
      BY <2>1 DEF UploadBegins, Popen
    <2>2. CASE PathBegins(j) \/ ImplBegins(j)
      BY <2>2 DEF PathBegins, ImplBegins, TakeToken
    <2>3. CASE PathLoads(j)
      BY <2>3 DEF PathLoads
    <2>4. CASE AsrOk(j) \/ AsrFails(j)
      BY <2>4 DEF AsrOk, AsrFails
    <2>5. CASE AlignBegins(j) \/ AlignLoads(j)
      <3>1. pc[j] \in {"align", "alignLoad"} /\ UNCHANGED <<answer, decoding>>
        BY <2>5 DEF AlignBegins, AlignLoads
      <3>2. \E p \in {"alignLoad", "diarize"} : pc' = [pc EXCEPT ![j] = p]
        BY <2>5 DEF AlignBegins, AlignLoads
      <3> QED
        BY <3>1, <3>2
    <2>6. CASE DiarizeOrReply(j) \/ DiarizerLoads(j)
      BY <2>6 DEF DiarizeOrReply, DiarizerLoads
    <2> QED
      BY <2>1, <2>2, <2>3, <2>4, <2>5, <2>6 DEF Queue, Impl
  <1> QED
    BY <1>1, <1>2 DEF WInv

LEMMA ProbeStep == WInv /\ (ProbeOk \/ ProbeFails \/ UNCHANGED vars) => WInv'
  <1> SUFFICES ASSUME WInv, ProbeOk \/ ProbeFails \/ UNCHANGED vars PROVE WInv'
    OBVIOUS
  <1>1. UNCHANGED <<client, pipes, ffmpeg, models>>
    BY DEF ProbeOk, ProbeFails, vars
  <1>2. streak' \in 0..Retries
    BY WhisperxAssumption DEF ProbeOk, ProbeFails, vars, WInv, TypeOK
  <1>3. TypeOK'
    BY <1>1, <1>2 DEF WInv, TypeOK, UploadTypeOK, client, pipes, ffmpeg, models
  <1>4. ASSUME NEW v \in Uploads PROVE Sound(v)'
    BY <1>1, <1>4 DEF WInv, Sound, Conserved, ClosedWhole, Followed, Ended,
                      client, pipes, ffmpeg
  <1> QED
    BY <1>3, <1>4 DEF WInv

LEMMA WhisperxStep == WInv /\ [Next]_vars => WInv'
  BY DecodeTypes, DecodeSound, RequestStep, ProbeStep DEF Next, WInv

(* Every variable keeps its type, in particular no pipe and no buffer is   *)
(* overrun and no block of audio is made up.                               *)
THEOREM WhisperxTypes == Spec => []TypeOK
  <1>1. WInv => TypeOK
    BY DEF WInv
  <1> QED
    BY <1>1, WhisperxInit, WhisperxStep, PTL DEF Spec

(* A transcription sees all the audio ffmpeg made of the upload, and the   *)
(* whole upload unless ffmpeg stopped early.                               *)
THEOREM UploadsWhole == Spec => []TranscribedWhole
  <1>1. WInv => TranscribedWhole
    BY UploadAssumption
    DEF WInv, TypeOK, UploadTypeOK, Sound, Conserved, Followed, TranscribedWhole
  <1> QED
    BY <1>1, WhisperxInit, WhisperxStep, PTL DEF Spec

(* Whichever way a request ends, its ffmpeg has ended.                     *)
THEOREM FfmpegEnds == Spec => []NoLeak
  <1>1. WInv => NoLeak
    BY DEF WInv, Sound, Followed, NoLeak
  <1> QED
    BY <1>1, WhisperxInit, WhisperxStep, PTL DEF Spec
-----------------------------------------------------------------------------
(* The event loop is held up by the one upload that closes stdin or joins  *)
(* its drains; a thread waits only for an ffmpeg whose input has ended.    *)
LoopHeld ==
    /\ loop # Free => pc[loop] \in {"close", "join"}
    /\ \A u \in Uploads :
          /\ pc[u] \in {"close", "join"} => loop = u
          /\ pc[u] = "join" => Ended(u)
          /\ pc[u] \in {"waitQ", "wait"} => eof[u]

LEMMA HeldStep == WInv /\ LoopHeld /\ [Next]_vars => LoopHeld'
  <1> SUFFICES ASSUME WInv, LoopHeld, [Next]_vars PROVE LoopHeld'
    OBVIOUS
  <1>a. Shapes /\ loop \in Uploads \cup {Free} /\ Uploads \subseteq Job /\ Free \notin Job
    BY ShapesHold, UploadAssumption DEF WInv, TypeOK, UploadTypeOK
  <1> USE <1>a DEF LoopHeld, Shapes, Goto, Reply, Ended
  <1>1. ASSUME NEW u \in Uploads, Decode(u) PROVE LoopHeld'
    <2> USE DEF client, pipes, ffmpeg
    <2>1. CASE EndReturns(u) \/ Disconnect(u) \/ WriteBreaks(u) \/ Waited(u)
      BY <2>1 DEF EndReturns, Disconnect, WriteBreaks, Waited, Reaped
    <2>2. CASE Receive(u) \/ BodyEnds(u) \/ WriteReturns(u)
      BY <2>2 DEF Receive, BodyEnds, WriteReturns
    <2>3. CASE WriteBegins(u) \/ WaitBegins(u)
      BY <2>3 DEF WriteBegins, WaitBegins, TakeToken
    <2>4. CASE Closed(u)
      BY <2>4 DEF Closed, Flushed
    <2>5. CASE Joined(u)
      BY <2>5 DEF Joined, Drained
    <2>6. CASE Put(u) \/ Drains(u) \/ Ffmpeg(u) \/ FfStop(u)
      <3>1. UNCHANGED <<pc, loop, eof>>
        BY <2>6 DEF Put, Drains, DrainOut, DrainErr, Ffmpeg, FfRead, FfWrite, FfEnd, FfStop, FfExit
      <3>2. \A v \in Uploads : Ended(v) => ff'[v] = ff[v] \/ ff'[v] \notin {"none", "run"}
        BY <2>6 DEF Put, Drains, DrainOut, DrainErr, Ffmpeg, FfRead, FfWrite, FfEnd, FfStop, FfExit
      <3> QED
        BY <3>1, <3>2
    <2> QED
      BY <1>1, <2>1, <2>2, <2>3, <2>4, <2>5, <2>6 DEF Decode, Streaming, Blocking
  <1>2. ASSUME NEW j \in Job, Queue(j) PROVE LoopHeld'
    <2>1. CASE UploadBegins(j)
      <3>1. loop = Free /\ UNCHANGED <<loop, eof>> /\ pc[j] = "new"
        BY <2>1 DEF UploadBegins, Popen, decoding, pipes
      <3>2. \E p \in {"stream", "done"} : pc' = [pc EXCEPT ![j] = p]
        BY <2>1 DEF UploadBegins, Popen
      <3>3. \A v \in Uploads : v # j => ff'[v] = ff[v]
        BY <2>1 DEF UploadBegins, Popen, decoding, ffmpeg
      <3> QED
        BY <3>1, <3>2, <3>3
    <2>2. CASE PathBegins(j) \/ ImplBegins(j)
      BY <2>2 DEF PathBegins, ImplBegins, TakeToken, decoding, pipes, ffmpeg
    <2> QED
      BY <1>2, <2>1, <2>2 DEF Queue
  <1>3. ASSUME NEW j \in Job, Impl(j) PROVE LoopHeld'
    <2>1. UNCHANGED <<loop, ff, eof>>
      BY <1>3 DEF Impl, PathLoads, AsrOk, AsrFails, AlignBegins, AlignLoads, DiarizeOrReply,
                  DiarizerLoads, decoding, pipes, ffmpeg
    <2>2. /\ pc[j] \notin {"close", "join"}
          /\ \E p \in Transcribed \cup {"done"} : pc' = [pc EXCEPT ![j] = p]
      BY <1>3 DEF Impl, PathLoads, AsrOk, AsrFails, AlignBegins, AlignLoads, DiarizeOrReply,
                  DiarizerLoads, Transcribed
    <2> QED
      BY <2>1, <2>2 DEF Transcribed
  <1>4. CASE ProbeOk \/ ProbeFails \/ UNCHANGED vars
    <2>1. UNCHANGED <<pc, loop, eof, ff>>
      BY <1>4 DEF ProbeOk, ProbeFails, vars, client, pipes, ffmpeg
    <2> QED
      BY <2>1
  <1> QED
    BY <1>1, <1>2, <1>3, <1>4 DEF Next

(* However small the pipes, however long the body and however much ffmpeg  *)
(* complains about it, the handler never waits for a pipe that waits for   *)
(* the handler.                                                            *)
THEOREM NoPipeWaits == Spec => []NoCircle
  <1>1. Init => LoopHeld
    BY UploadAssumption DEF Init, UploadInit, LoopHeld, Ended
  <1>2. WInv /\ LoopHeld => NoCircle
    <2> SUFFICES ASSUME WInv, LoopHeld PROVE NoCircle
      OBVIOUS
    <2>a. Shapes /\ loop \in Uploads \cup {Free}
      BY ShapesHold DEF WInv, TypeOK, UploadTypeOK
    <2>1. ASSUME NEW u \in Uploads, ff[u] = "run", buf[u] > 0 \/ eof[u],
                 pc[u] \in {"write", "close"} \/ buf[u] = 0
          PROVE  Flows(u)
      <3>1. /\ inp[u] \in 0..Pipe /\ outp[u] \in 0..Pipe /\ errp[u] \in 0..Pipe
            /\ hold[u] \in 0..1 /\ noise[u] \in 0..Noise /\ buf[u] \in 0..2
        BY <2>1 DEF WInv, TypeOK, UploadTypeOK
      <3>2. CASE FfIdle(u)
        BY <2>1, <3>1, <3>2, UploadAssumption DEF Flows, Puts, Reads, Ends
      <3>3. CASE hold[u] = 1
        BY <2>1, <3>1, <3>3, UploadAssumption DEF Flows, Gives, Audio
      <3>4. CASE noise[u] > 0
        BY <2>1, <3>1, <3>4, UploadAssumption DEF Flows, Complains, Messages
      <3> QED
        BY <2>1, <3>1, <3>2, <3>3, <3>4, UploadAssumption DEF FfIdle
    <2>2. ASSUME NEW u \in Uploads, pc[u] \in {"close", "join", "write", "wait"}
          PROVE  Flushed(u) \/ Drained(u) \/ Written(u) \/ Broken(u) \/ Reaped(u) \/ Flows(u)
      <3>1. Sound(u) /\ buf[u] \in Nat /\ outp[u] \in Nat /\ errp[u] \in Nat
        BY <2>2, <2>a DEF WInv, Shapes
      <3>2. ff[u] # "none"
        BY <2>2, <3>1 DEF Sound, Followed
      <3>3. CASE pc[u] = "join"
        BY <3>1, <3>3 DEF LoopHeld, Drained, Flows, Audio, Messages
      <3>4. CASE pc[u] \in {"close", "write"}
        <4>1. CASE buf[u] = 0
          BY <3>4, <4>1 DEF Flushed, Written
        <4>2. CASE buf[u] > 0 /\ ff[u] = "run"
          BY <2>1, <3>4, <4>2
        <4>3. CASE buf[u] > 0 /\ Ended(u)
          BY <3>4, <4>3 DEF Flushed, Broken
        <4> QED
          BY <3>1, <3>2, <4>1, <4>2, <4>3 DEF Ended
      <3>5. CASE pc[u] = "wait"
        <4>1. eof[u]
          BY <3>5 DEF LoopHeld
        <4>2. ff[u] = "run" => buf[u] = 0
          BY <3>1, <4>1 DEF Sound, ClosedWhole
        <4> QED
          BY <2>1, <3>2, <3>5, <4>1, <4>2 DEF Reaped, Ended
      <3> QED
        BY <2>2, <3>3, <3>4, <3>5
    <2>3. ASSUME loop # Free PROVE Flushed(loop) \/ Drained(loop) \/ Flows(loop)
      <3>1. loop \in Uploads /\ pc[loop] \in {"close", "join"}
        BY <2>3, <2>a DEF LoopHeld
      <3> QED
        BY <2>2, <3>1 DEF Written, Broken, Reaped
    <2>4. ASSUME NEW u \in Uploads, pc[u] \in {"write", "wait"}
          PROVE  Written(u) \/ Broken(u) \/ Reaped(u) \/ Flows(u)
      BY <2>2, <2>4 DEF Flushed, Drained
    <2> QED
      BY <2>3, <2>4 DEF NoCircle
  <1> QED
    BY <1>1, <1>2, WhisperxInit, WhisperxStep, HeldStep, PTL DEF Spec
-----------------------------------------------------------------------------
(* What u's pipes have still to do: a block is put, read, answered with    *)
(* audio or with at most Noise messages, and each of these drained; then   *)
(* ffmpeg ends.                                                            *)
Block == 2 * Noise + 3
Work(u) ==
    (Block + 1) * buf[u] + Block * inp[u] + 2 * hold[u] + 2 * noise[u]
        + outp[u] + errp[u] + IF ff[u] = "run" THEN 1 ELSE 0

Plumbing(u) ==
    <<buf[u], inp[u], outp[u], errp[u], eof[u],
      ff[u], fed[u], hold[u], noise[u], made[u], got[u]>>

(* While u's handler stays where it is, whatever happens to its pipes is   *)
(* some of that work.  NoCircle says that there is a move to make until    *)
(* what the handler waits for is done; so it is done in Work(u) moves.     *)
ShortStalls ==
    [][\A u \in Uploads :
          UNCHANGED pc[u] =>
              \/ UNCHANGED Plumbing(u)
              \/ Work(u)' \in Nat /\ Work(u)' < Work(u)]_vars

LEMMA WorkCounts == WInv => \A u \in Uploads : Work(u) \in Nat
  <1> SUFFICES ASSUME WInv, NEW u \in Uploads PROVE Work(u) \in Nat
    OBVIOUS
  <1>1. /\ {buf[u], inp[u], hold[u], noise[u], outp[u], errp[u]} \subseteq Nat
        /\ Block \in Nat /\ Block + 1 \in Nat
    BY ShapesHold, UploadAssumption DEF Shapes, Block
  <1>2. (Block + 1) * buf[u] \in Nat /\ Block * inp[u] \in Nat
    BY <1>1
  <1> QED
    BY <1>1, <1>2 DEF Work

LEMMA OneLess ==
    ASSUME NEW b \in Nat, NEW n \in Nat, n > 0
    PROVE  b * (n - 1) = b * n - b
  OBVIOUS

LEMMA WorkStep ==
    ASSUME WInv, NEW u \in Uploads, Put(u) \/ Drains(u) \/ Ffmpeg(u) \/ FfStop(u)
    PROVE  Work(u)' < Work(u)
  <1>a. /\ buf[u] \in Nat /\ inp[u] \in Nat /\ hold[u] \in 0..1 /\ noise[u] \in 0..Noise
        /\ outp[u] \in Nat /\ errp[u] \in Nat /\ Shapes
        /\ Noise \in Nat /\ Block \in Nat /\ Block + 1 \in Nat /\ Block = 2 * Noise + 3
    BY ShapesHold, UploadAssumption DEF WInv, TypeOK, UploadTypeOK, Shapes, Block
  <1> DEFINE f == IF ff[u] = "run" THEN 1 ELSE 0
  <1>b. f \in Nat
    OBVIOUS
  <1>c. /\ (Block + 1) * buf[u] \in Nat /\ Block * inp[u] \in Nat
    BY <1>a
  <1>1. CASE Put(u)
    <2>1. /\ buf[u] > 0 /\ buf'[u] = buf[u] - 1 /\ inp'[u] = inp[u] + 1
          /\ UNCHANGED <<outp, errp, ff, hold, noise>>
      BY <1>1, <1>a DEF Put, Puts, Shapes, ffmpeg
    <2>2. (Block + 1) * buf'[u] = (Block + 1) * buf[u] - (Block + 1)
      BY <2>1, <1>a, OneLess
    <2>3. Block * inp'[u] = Block * inp[u] + Block
      BY <2>1, <1>a
    <2> QED
      BY <2>1, <2>2, <2>3, <1>a, <1>b, <1>c DEF Work
  <1>2. CASE DrainOut(u)
    BY <1>2, <1>a, <1>b, <1>c DEF DrainOut, Audio, Work, Shapes
  <1>3. CASE DrainErr(u)
    BY <1>3, <1>a, <1>b, <1>c DEF DrainErr, Messages, Work, Shapes, ffmpeg
  <1>4. CASE FfRead(u)
    <2>1. /\ inp[u] > 0 /\ inp'[u] = inp[u] - 1 /\ hold[u] = 0 /\ noise[u] = 0
          /\ \/ hold'[u] = 1 /\ noise'[u] = 0
             \/ hold'[u] = 0 /\ noise'[u] = Noise
          /\ UNCHANGED <<buf, outp, errp, ff>>
      BY <1>4, <1>a DEF FfRead, Reads, FfIdle, Shapes
    <2>2. Block * inp'[u] = Block * inp[u] - Block
      BY <2>1, <1>a, OneLess
    <2> QED
      BY <2>1, <2>2, <1>a, <1>b, <1>c DEF Work
  <1>5. CASE FfWrite(u)
    <2>1. /\ UNCHANGED <<buf, inp, ff>>
          /\ \/ /\ outp'[u] = outp[u] + 1 /\ hold'[u] = hold[u] - 1
                /\ UNCHANGED <<errp, noise>>
             \/ /\ errp'[u] = errp[u] + 1 /\ noise'[u] = noise[u] - 1
                /\ UNCHANGED <<outp, hold>>
      BY <1>5, <1>a DEF FfWrite, Gives, Complains, Shapes
    <2> QED
      BY <2>1, <1>a, <1>b, <1>c DEF Work
  <1>6. CASE FfEnd(u) \/ FfStop(u)
    <2>1. /\ ff[u] = "run" /\ ff'[u] # "run"
          /\ UNCHANGED <<buf, inp, outp, errp, hold, noise>>
      BY <1>6, <1>a DEF FfEnd, FfStop, FfExit, FfIdle, Shapes, pipes
    <2> QED
      BY <2>1, <1>a, <1>c DEF Work
  <1> QED
    BY <1>1, <1>2, <1>3, <1>4, <1>5, <1>6 DEF Drains, Ffmpeg

(* What is not one of u's own moves leaves its pipes alone, or moves its   *)
(* handler on.                                                             *)
LEMMA PipesApart ==
    ASSUME WInv, NEW u \in Uploads, [Next]_vars, UNCHANGED pc[u],
           ~(Put(u) \/ Drains(u) \/ Ffmpeg(u) \/ FfStop(u))
    PROVE  UNCHANGED Plumbing(u)
  <1>a. Shapes /\ u \in Job /\ Uploads \subseteq Job
    BY ShapesHold, UploadAssumption DEF WInv
  <1> USE <1>a DEF Plumbing, Goto, Reply, Shapes
  <1>1. ASSUME NEW v \in Uploads, Decode(v) PROVE UNCHANGED Plumbing(u)
    <2>1. CASE v = u
      <3>1. \E q : q # pc[u] /\ pc' = [pc EXCEPT ![u] = q]
        BY <1>1, <2>1
        DEF Decode, Streaming, Receive, BodyEnds, Disconnect, WriteReturns, Written,
            WriteBreaks, Broken, EndReturns, Waited, Reaped, WriteBegins, WaitBegins, TakeToken,
            Blocking, Closed, Flushed, Joined, Drained
      <3> QED
        BY <3>1
    <2>2. CASE v # u
      <3>1. CASE Put(v) \/ Drains(v) \/ Ffmpeg(v) \/ FfStop(v)
        BY <2>2, <3>1
        DEF Put, Drains, DrainOut, DrainErr, Ffmpeg, FfRead, FfWrite, FfEnd, FfStop,
            FfExit, client, pipes, ffmpeg
      <3>2. CASE Streaming(v)
        BY <2>2, <3>2
        DEF Streaming, Receive, BodyEnds, Disconnect, WriteReturns, WriteBreaks,
            EndReturns, Waited, client, pipes, ffmpeg
      <3>3. CASE WriteBegins(v) \/ WaitBegins(v) \/ Closed(v) \/ Joined(v)
        BY <2>2, <3>3 DEF WriteBegins, WaitBegins, Closed, Joined, pipes, ffmpeg
      <3> QED
        BY <1>1, <3>1, <3>2, <3>3 DEF Decode, Blocking
    <2> QED
      BY <2>1, <2>2
  <1>2. ASSUME NEW j \in Job, Queue(j) PROVE UNCHANGED Plumbing(u)
    <2>1. CASE UploadBegins(j)
      BY <2>1 DEF UploadBegins, Popen, decoding, pipes, ffmpeg
    <2>2. CASE PathBegins(j) \/ ImplBegins(j)
      BY <2>2 DEF PathBegins, ImplBegins, decoding, pipes, ffmpeg
    <2> QED
      BY <1>2, <2>1, <2>2 DEF Queue
  <1>3. ASSUME NEW j \in Job, Impl(j) PROVE UNCHANGED Plumbing(u)
    <2>1. UNCHANGED <<pipes, ffmpeg>>
      BY <1>3 DEF Impl, PathLoads, AsrOk, AsrFails, AlignBegins, AlignLoads, DiarizeOrReply,
                  DiarizerLoads, decoding
    <2> QED
      BY <2>1 DEF pipes, ffmpeg
  <1>4. CASE ProbeOk \/ ProbeFails \/ UNCHANGED vars
    BY <1>4 DEF ProbeOk, ProbeFails, vars, pipes, ffmpeg
  <1> QED
    BY <1>1, <1>2, <1>3, <1>4 DEF Next

(* So the event loop is held up, and a thread of the pool is kept, for a   *)
(* number of moves that the data on their way bound.                       *)
THEOREM StallsEnd == Spec => ShortStalls
  <1>0. WInv' => (\A u \in Uploads : Work(u) \in Nat)'
    BY WorkCounts, PTL
  <1>1. WInv /\ [Next]_vars =>
          \A u \in Uploads :
              UNCHANGED pc[u] =>
                  \/ UNCHANGED Plumbing(u)
                  \/ Work(u)' \in Nat /\ Work(u)' < Work(u)
    <2> SUFFICES ASSUME WInv, [Next]_vars, NEW u \in Uploads, UNCHANGED pc[u],
                        ~UNCHANGED Plumbing(u)
                 PROVE  Work(u)' \in Nat /\ Work(u)' < Work(u)
      OBVIOUS
    <2>1. Work(u)' < Work(u)
      BY WorkStep, PipesApart
    <2>2. Work(u)' \in Nat
      BY <1>0, WhisperxStep
    <2> QED
      BY <2>1, <2>2
  <1> QED
    BY <1>1, WhisperxInit, WhisperxStep, PTL DEF Spec, ShortStalls

-----------------------------------------------------------------------------
(* The worker is the latch: every step is one of Readiness or leaves what  *)
(* it speaks of alone.                                                     *)
Busy == {j \in Job : pc[j] = "asr"}

LEMMA LatchStep == WInv /\ [Next]_vars => Ready!Next \/ UNCHANGED <<modelOk, Busy, streak>>
  <1> SUFFICES ASSUME WInv, [Next]_vars
               PROVE  Ready!Next \/ UNCHANGED <<modelOk, Busy, streak>>
    OBVIOUS
  <1> USE UploadAssumption, WhisperxAssumption DEF Busy, Goto, Reply
  <1>a. TypeOK /\ pc \in [Job -> Places]
    BY DEF WInv, TypeOK
  <1>1. ASSUME NEW u \in Uploads, Decode(u) PROVE UNCHANGED <<modelOk, Busy, streak>>
    <2>1. UNCHANGED <<modelOk, streak>>
      BY <1>1 DEF Decode, models
    <2>2. \/ pc' = pc
          \/ pc[u] # "asr" /\ \E p \in Places \ {"asr"} : pc' = [pc EXCEPT ![u] = p]
      BY <1>1, <1>a
      DEF Decode, Streaming, Receive, BodyEnds, Disconnect, WriteReturns, WriteBreaks,
          EndReturns, Waited, WriteBegins, WaitBegins, TakeToken, Blocking, Put, Closed, Joined,
          Drains, DrainOut, DrainErr, Ffmpeg, FfRead, FfWrite, FfEnd, FfStop, FfExit,
          client, Places, InPool, Written, Broken, Reaped, Flushed, Drained
    <2> QED
      BY <2>1, <2>2, <1>a
  <1>2. ASSUME NEW j \in Job, Queue(j) PROVE Ready!Begin(j) \/ UNCHANGED <<modelOk, Busy, streak>>
    BY <1>2, <1>a DEF Queue, UploadBegins, Popen, PathBegins, ImplBegins, TakeToken, models, Ready!Begin
  <1>3. ASSUME NEW j \in Job, Impl(j) PROVE Ready!Next \/ UNCHANGED <<modelOk, Busy, streak>>
    <2>1. CASE PathLoads(j)
      BY <2>1, <1>a DEF PathLoads, models, Ready!Next, Ready!Begin
    <2>2. CASE AsrOk(j)
      BY <2>2, <1>a DEF AsrOk, models, Ready!Next, Ready!Succeed
    <2>3. CASE AsrFails(j)
      BY <2>3, <1>a DEF AsrFails, Ready!Next, Ready!Fail
    <2>4. CASE AlignBegins(j) \/ AlignLoads(j) \/ DiarizeOrReply(j) \/ DiarizerLoads(j)
      BY <2>4, <1>a DEF AlignBegins, AlignLoads, DiarizeOrReply, DiarizerLoads, models
    <2> QED
      BY <1>3, <2>1, <2>2, <2>3, <2>4 DEF Impl
  <1>4. CASE ProbeOk \/ ProbeFails
    BY <1>4 DEF ProbeOk, ProbeFails, client, models, Ready!Next, Ready!ProbeOk, Ready!ProbeFails
  <1>5. CASE UNCHANGED vars
    BY <1>5 DEF vars, client, models
  <1> QED
    BY <1>1, <1>2, <1>3, <1>4, <1>5 DEF Next, Ready!Next

(* Once failed, the self-test included, the model is never reported ready  *)
(* again by whatever request that works, and only health checks count.     *)
THEOREM WorkerLatches == Spec => Latches
  <1>1. Init => Ready!Init
    BY DEF Init, UploadInit, Ready!Init
  <1>2. WInv /\ [Next]_vars => [Ready!Next]_(Ready!vars)
    BY LatchStep DEF Busy, Ready!vars
  <1> QED
    BY <1>1, <1>2, WhisperxInit, WhisperxStep, PTL DEF Spec, Latches, Ready!Spec
=============================================================================
