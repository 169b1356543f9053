------------------------------- MODULE Upload -------------------------------
(***************************************************************************)
(* _decode_request_body of whisperx-server: the body of an upload is       *)
(* written to ffmpeg's stdin by the thread pool while two threads drain    *)
(* its stdout and stderr; closing stdin and joining the threads happen on  *)
(* the event loop, which serves nobody else meanwhile.  Data is counted in *)
(* blocks, one chunk of the body giving one block of audio.                *)
(***************************************************************************)
EXTENDS Integers, FiniteSets

CONSTANTS
    Job,      \* requests
    Uploads,  \* those that come with a body
    Free,     \* the event loop when nothing blocks it
    Body,     \* chunks of a body
    Pipe,     \* blocks a pipe holds
    Noise,    \* blocks ffmpeg writes to stderr about a bad chunk
    Pool      \* threads of the pool

ASSUME UploadAssumption ==
    /\ Uploads \subseteq Job /\ Free \notin Job
    /\ Body \in Nat /\ Noise \in Nat
    /\ Pipe \in Nat \ {0} /\ Pool \in Nat \ {0}

VARIABLES
    pc,       \* where each request is
    answer,   \* its HTTP status, or "none"
    loop,     \* the request whose handler blocks the event loop
    body,     \* chunks the client has not sent
    buf,      \* chunks in proc.stdin's buffer or in write()'s hands
    inp, outp, errp,  \* blocks in ffmpeg's three pipes
    eof,      \* stdin is closed
    ff,       \* ffmpeg: "run", or how it ended
    fed, hold, noise, \* chunks it has read; audio and messages not written yet
    made, got \* blocks of audio it wrote; those the drain has collected

client == <<pc, answer, loop, body>>
pipes == <<buf, inp, outp, errp, eof>>
ffmpeg == <<ff, fed, hold, noise, made, got>>

(* What a request does in a thread of the pool.  Its token is free again   *)
(* when the event loop gets to it: it is the loop that takes tokens, too.  *)
InPool == {"write", "end", "wait", "load", "asr", "align", "alignLoad", "diarize", "diaLoad"}
Threads == {j \in Job : pc[j] \in InPool}

Fates == {"none", "run", "ok", "early", "failed", "killed"}

UploadTypeOK ==
    /\ loop \in Uploads \cup {Free}
    /\ body \in [Uploads -> 0..Body] /\ buf \in [Uploads -> 0..2]
    /\ \A p \in {inp, outp, errp} : p \in [Uploads -> 0..Pipe]
    /\ eof \in [Uploads -> BOOLEAN]
    /\ ff \in [Uploads -> Fates]
    /\ fed \in [Uploads -> 0..Body] /\ hold \in [Uploads -> 0..1]
    /\ noise \in [Uploads -> 0..Noise]
    /\ \A n \in {made, got} : n \in [Uploads -> 0..Body]

UploadInit ==
    LET zero == [u \in Uploads |-> 0]
    IN  /\ loop = Free
        /\ body = [u \in Uploads |-> Body] /\ buf = zero
        /\ inp = zero /\ outp = zero /\ errp = zero
        /\ eof = [u \in Uploads |-> FALSE]
        /\ ff = [u \in Uploads |-> "none"]
        /\ fed = zero /\ hold = zero /\ noise = zero /\ made = zero /\ got = zero

Goto(j, next) == pc' = [pc EXCEPT ![j] = next]
Reply(j, status) == Goto(j, "done") /\ answer' = [answer EXCEPT ![j] = status]
Ended(u) == ff[u] \notin {"none", "run"}
-----------------------------------------------------------------------------
(* The handler                                                             *)

Popen(u) ==
    /\ ff' = [ff EXCEPT ![u] = "run"] /\ Goto(u, "stream")
    /\ UNCHANGED <<answer, loop, body, pipes, fed, hold, noise, made, got>>

(* A chunk arrives and waits for a thread to write it.                     *)
Receive(u) ==
    /\ pc[u] = "stream" /\ loop = Free /\ body[u] > 0
    /\ body' = [body EXCEPT ![u] = @ - 1]
    /\ buf' = [buf EXCEPT ![u] = @ + 1]
    /\ Goto(u, "writeQ")
    /\ UNCHANGED <<answer, loop, inp, outp, errp, eof, ffmpeg>>

(* request.stream() ends with an empty chunk, and that is written, too.    *)
BodyEnds(u) ==
    /\ pc[u] = "stream" /\ loop = Free /\ body[u] = 0
    /\ Goto(u, "endQ")
    /\ UNCHANGED <<answer, loop, body, pipes, ffmpeg>>

(* Mutant of Disconnect: what came so far is transcribed.                  *)
DisconnectIgnored(u) ==
    /\ pc[u] = "stream" /\ loop = Free /\ body[u] > 0
    /\ Goto(u, "close") /\ loop' = u
    /\ UNCHANGED <<answer, body, pipes, ffmpeg>>

(* Mutant of Disconnect: ffmpeg is left to itself, its stdin open.         *)
DisconnectLeaks(u) ==
    /\ pc[u] = "stream" /\ loop = Free /\ body[u] > 0
    /\ Reply(u, "400")
    /\ UNCHANGED <<loop, body, pipes, ffmpeg>>

(* The client is gone before the body ended.                               *)
Disconnect(u) ==
    /\ pc[u] = "stream" /\ loop = Free /\ body[u] > 0
    /\ ff' = [ff EXCEPT ![u] = IF @ = "run" THEN "killed" ELSE @]
    /\ answer' = [answer EXCEPT ![u] = "400"]
    /\ Goto(u, "close") /\ loop' = u
    /\ UNCHANGED <<body, pipes, fed, hold, noise, made, got>>

(* run_in_threadpool: a token is free.                                     *)
TakeToken(j, queue, next) ==
    /\ pc[j] = queue /\ loop = Free /\ Cardinality(Threads) < Pool
    /\ Goto(j, next)

WriteBegins(u) ==
    /\ TakeToken(u, "writeQ", "write") \/ TakeToken(u, "endQ", "end")
    /\ UNCHANGED <<answer, loop, body, pipes, ffmpeg>>

(* Bytes go from the buffer into the pipe, during write() or close().      *)
Puts(u) ==
    /\ pc[u] \in {"write", "close"} /\ buf[u] > 0
    /\ ff[u] = "run" /\ inp[u] < Pipe
Put(u) ==
    /\ Puts(u)
    /\ buf' = [buf EXCEPT ![u] = @ - 1]
    /\ inp' = [inp EXCEPT ![u] = @ + 1]
    /\ UNCHANGED <<client, outp, errp, eof, ffmpeg>>

(* Mutant of WriteReturns: nobody awaits the write.                        *)
WriteUnawaited(u) ==
    /\ pc[u] = "write" /\ loop = Free
    /\ Goto(u, "stream")
    /\ UNCHANGED <<answer, loop, body, pipes, ffmpeg>>

(* write() may leave a small chunk in the buffer, but not two.             *)
Written(u) == pc[u] = "write" /\ buf[u] <= 1
WriteReturns(u) ==
    /\ loop = Free /\ Written(u)
    /\ Goto(u, "stream")
    /\ UNCHANGED <<answer, loop, body, pipes, ffmpeg>>

(* BrokenPipeError: the exit code will say why.                            *)
Broken(u) == pc[u] = "write" /\ buf[u] > 0 /\ Ended(u)
WriteBreaks(u) ==
    /\ loop = Free /\ Broken(u)
    /\ Goto(u, "close") /\ loop' = u
    /\ UNCHANGED <<answer, body, pipes, ffmpeg>>

(* Writing nothing neither waits nor breaks; then the loop is blocked in   *)
(* proc.stdin.close() until the buffer is flushed.                         *)
EndReturns(u) ==
    /\ pc[u] = "end" /\ loop = Free
    /\ Goto(u, "close") /\ loop' = u
    /\ UNCHANGED <<answer, body, pipes, ffmpeg>>

Flushed(u) == pc[u] = "close" /\ (buf[u] = 0 \/ Ended(u))
Closed(u) ==
    /\ Flushed(u)
    /\ buf' = [buf EXCEPT ![u] = 0] /\ eof' = [eof EXCEPT ![u] = TRUE]
    /\ loop' = Free /\ Goto(u, IF answer[u] = "none" THEN "waitQ" ELSE "done")
    /\ UNCHANGED <<answer, body, inp, outp, errp, ffmpeg>>

WaitBegins(u) ==
    /\ TakeToken(u, "waitQ", "wait")
    /\ UNCHANGED <<answer, loop, body, pipes, ffmpeg>>

(* The process is gone; join() blocks the loop until the pipes are empty.  *)
Reaped(u) == pc[u] = "wait" /\ Ended(u)
Waited(u) ==
    /\ loop = Free /\ Reaped(u)
    /\ Goto(u, "join") /\ loop' = u
    /\ UNCHANGED <<answer, body, pipes, ffmpeg>>

Drained(u) == pc[u] = "join" /\ Ended(u) /\ outp[u] = 0 /\ errp[u] = 0

Joined(u) ==
    /\ Drained(u)
    /\ loop' = Free
    /\ IF ff[u] \in {"ok", "early"} /\ got[u] > 0
       THEN Goto(u, "implQ") /\ UNCHANGED answer
       ELSE Reply(u, "400")
    /\ UNCHANGED <<body, pipes, ffmpeg>>
-----------------------------------------------------------------------------
(* The drains and ffmpeg                                                   *)

(* Mutants: nobody reads a pipe before ffmpeg has ended.                   *)
AudioLate(u) == outp[u] > 0 /\ Ended(u)
MessagesLate(u) == errp[u] > 0 /\ Ended(u)

Audio(u) == outp[u] > 0
Messages(u) == errp[u] > 0

DrainOut(u) ==
    /\ Audio(u)
    /\ outp' = [outp EXCEPT ![u] = @ - 1] /\ got' = [got EXCEPT ![u] = @ + 1]
    /\ UNCHANGED <<client, buf, inp, errp, eof, ff, fed, hold, noise, made>>

DrainErr(u) ==
    /\ Messages(u) /\ errp' = [errp EXCEPT ![u] = @ - 1]
    /\ UNCHANGED <<client, buf, inp, outp, eof, ffmpeg>>

FfIdle(u) == ff[u] = "run" /\ hold[u] = 0 /\ noise[u] = 0

(* A chunk gives audio, or it is bad and gives messages.                   *)
Reads(u) == FfIdle(u) /\ inp[u] > 0
FfRead(u) ==
    /\ Reads(u)
    /\ inp' = [inp EXCEPT ![u] = @ - 1]
    /\ fed' = [fed EXCEPT ![u] = @ + 1]
    /\ \/ hold' = [hold EXCEPT ![u] = 1] /\ UNCHANGED noise
       \/ noise' = [noise EXCEPT ![u] = Noise] /\ UNCHANGED hold
    /\ UNCHANGED <<client, buf, outp, errp, eof, ff, made, got>>

(* It blocks on a full pipe.                                               *)
Gives(u) == ff[u] = "run" /\ hold[u] = 1 /\ outp[u] < Pipe
Complains(u) == ff[u] = "run" /\ noise[u] > 0 /\ errp[u] < Pipe
FfWrite(u) ==
    /\ \/ /\ Gives(u)
          /\ outp' = [outp EXCEPT ![u] = @ + 1] /\ hold' = [hold EXCEPT ![u] = 0]
          /\ made' = [made EXCEPT ![u] = @ + 1]
          /\ UNCHANGED <<errp, noise>>
       \/ /\ Complains(u)
          /\ errp' = [errp EXCEPT ![u] = @ + 1] /\ noise' = [noise EXCEPT ![u] = @ - 1]
          /\ UNCHANGED <<outp, hold, made>>
    /\ UNCHANGED <<client, buf, inp, eof, ff, fed, got>>

FfExit(u, how) ==
    /\ FfIdle(u) /\ ff' = [ff EXCEPT ![u] = how]
    /\ UNCHANGED <<client, pipes, fed, hold, noise, made, got>>

(* End of input: it exits with 0, or finds the whole undecodable.          *)
Ends(u) == FfIdle(u) /\ eof[u] /\ inp[u] = 0
FfEnd(u) == Ends(u) /\ \E how \in {"ok", "failed"} : FfExit(u, how)

(* It stops reading: the container says it is over, or it gives up.        *)
FfStop(u) == \E how \in {"early", "failed"} : FfExit(u, how)

(* Something of u's pipes can go on.                                       *)
Flows(u) ==
    \/ Puts(u) \/ Audio(u) \/ Messages(u)
    \/ Reads(u) \/ Gives(u) \/ Complains(u) \/ Ends(u)

Ffmpeg(u) == FfRead(u) \/ FfWrite(u) \/ FfEnd(u)
Drains(u) == DrainOut(u) \/ DrainErr(u)
Blocking(u) == Put(u) \/ Closed(u) \/ Joined(u)
Streaming(u) ==
    \/ Receive(u) \/ BodyEnds(u) \/ Disconnect(u)
    \/ WriteReturns(u) \/ WriteBreaks(u) \/ EndReturns(u) \/ Waited(u)
=============================================================================
