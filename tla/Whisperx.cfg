SPECIFICATION FairSpec
CONSTANTS
    Job = {u, p}
    Uploads = {u}
    Free = Free
    Body = 3
    Pipe = 1
    Noise = 2
    Pool = 1
    Align = {u}
    Diarize = {u, p}
    Retries = 2
INVARIANTS TypeOK TranscribedWhole NoLeak NoCircle
PROPERTIES Answered Latches Reported
