----------------------------- MODULE AlsaDriver ------------------------------
(***************************************************************************)
(* The ALSA driver (src/server/output/alsa.cc).  play() collects sound in  *)
(* buf and writes whole chunks of it to the device, which is opened so     *)
(* that it does not block; what does not fill a chunk waits for the next   *)
(* play() or is filled up with silence by close().                         *)
(*                                                                         *)
(* The states of the device are those of the library's pcm: "ready" when   *)
(* prepared, "running", "xrun" when it has run out of sound, "setup" when  *)
(* stopped and not prepared, "half" when it was opened but its parameters  *)
(* could not be set, and "NULL" when there is none.                        *)
(***************************************************************************)
EXTENDS AudioDriver

CONSTANTS
    Chunk,     \* chunk_frames
    BufSize    \* frames that buf holds

ASSUME ChunkAssumption == Chunk \in 1..(Room - 1) /\ BufSize \in Nat /\ BufSize >= Chunk

VARIABLES
    buf,       \* the frames from the beginning of buf to the end of its filling
    written,   \* where in buf the next chunk begins
    short      \* the device has not taken the whole last chunk of this close()

alsa == <<buf, written, short>>

AlsaInit == buf = << >> /\ written = 0 /\ short = FALSE

buf_fill == Len(buf) - written

\* open_device() fails, or a parameter cannot be set after it: on that way
\* the parameters are freed and the device is not closed.
AlsaOpen ==
    /\ Idle /\ ~opened
    /\ IF dev # "NULL"
         THEN call' = "abort" /\ UNCHANGED <<opened, pc, dev, alsa>>
         ELSE \/ UNCHANGED <<caller, dev, alsa>>
              \/ dev' = "half" /\ UNCHANGED <<caller, alsa>>
              \/ /\ dev' = "ready" /\ opened' = TRUE
                 /\ buf' = << >> /\ written' = 0
                 /\ UNCHANGED <<call, pc, short>>
    /\ UNCHANGED sound

AlsaPlay == PlayCall("copy") /\ UNCHANGED <<opened, heard, dev, queue, alsa>>

\* How much of the argument is copied at a time.
ToCopy == IF left < BufSize - buf_fill THEN left ELSE BufSize - buf_fill

AlsaCopy ==
    /\ pc = "copy"
    /\ buf' = buf \o SubSeq(Argument, 1, ToCopy)
    /\ left' = left - ToCopy
    /\ pc' = "chunks"
    /\ UNCHANGED <<opened, call, given, heard, dev, queue, written, short>>

\* The condition of the loop of play_buf_chunks().
WholeChunk == buf_fill >= Chunk

\* snd_pcm_writei() takes n frames of the chunk, at most what there is room for.
Takes(n) ==
    /\ dev \in {"ready", "running"}
    /\ n <= Room - Len(queue)
    /\ queue' = queue \o SubSeq(buf, written + 1, written + n)
    /\ dev' = "running"

\* It may take a part.  The rest is no whole chunk then and is kept for the
\* next play(); but when close() has filled buf up there is none.
AlsaWrite ==
    /\ pc = "chunks" /\ WholeChunk
    /\ \E n \in 1..Chunk :
          /\ Takes(n) /\ written' = written + n
          /\ short' = (short \/ (call = "close" /\ n < Chunk))
    /\ UNCHANGED <<caller, left, given, heard, buf>>

\* It takes nothing (0, or -EAGAIN and snd_pcm_wait()), for want of room.
AlsaWait ==
    /\ pc = "chunks" /\ WholeChunk
    /\ dev = "running" /\ Len(queue) = Room
    /\ UNCHANGED <<caller, sound, dev, alsa>>

\* It reports that the sound had run out: snd_pcm_recover() prepares it anew.
AlsaRecover ==
    /\ pc = "chunks" /\ WholeChunk
    /\ dev = "xrun" /\ dev' = "ready"
    /\ UNCHANGED <<caller, sound, alsa>>

\* It cannot be recovered: play() fails; close() goes on without a look.
AlsaError ==
    /\ pc = "chunks" /\ WholeChunk
    /\ IF call = "play" THEN PlayFails /\ UNCHANGED opened
                        ELSE pc' = "drain" /\ UNCHANGED <<opened, call>>
    /\ short' = (call = "close")
    /\ UNCHANGED <<sound, dev, buf, written>>

\* What is left in buf, memmove()d to its beginning.
NotMoved == SubSeq(buf, 1, buf_fill)
Rest == SubSeq(buf, written + 1, Len(buf))

\* No whole chunk is left: the rest moves to the beginning of buf.
AlsaMoveRest ==
    /\ pc = "chunks" /\ ~WholeChunk
    /\ buf' = Rest /\ written' = 0
    /\ \/ call = "close" /\ pc' = "drain" /\ UNCHANGED call
       \/ call = "play" /\ left > 0 /\ pc' = "copy" /\ UNCHANGED call
       \/ call = "play" /\ left = 0 /\ Return
    /\ UNCHANGED <<opened, sound, dev, short>>

\* What does not fill a chunk is filled up with silence.
Padded(s) == s \o [i \in 1..(Chunk - Len(s)) |-> 0]

\* Whether close() has something to play first.
NoneUnplayed == FALSE
Unplayed == buf_fill > 0

AlsaClose ==
    /\ Idle /\ opened
    /\ call' = "close"
    /\ IF Unplayed THEN buf' = Padded(buf) /\ pc' = "chunks"
                   ELSE buf' = buf /\ pc' = "drain"
    /\ UNCHANGED <<opened, sound, dev, written, short>>

\* close() has slept for the delay, which is modelled as the queue becoming
\* empty, or has no device that plays; the device is closed, and open() clears
\* buf.  What a short write of the last chunk left there is given up.
AlsaClosed ==
    /\ pc = "drain"
    /\ queue = << >> \/ dev # "running"
    /\ dev' = "NULL" /\ opened' = FALSE /\ queue' = << >>
    /\ heard' = IF short THEN given ELSE heard
    /\ buf' = << >> /\ written' = 0 /\ short' = FALSE
    /\ Return
    /\ UNCHANGED <<left, given>>

\* What reset() leaves in buf.
AfterReset == << >>

\* reset(): snd_pcm_drop() fails; or snd_pcm_prepare() does after it, and buf
\* stays as it is; or neither.
AlsaReset ==
    /\ Idle /\ opened
    /\ \/ UNCHANGED <<heard, dev, queue, alsa>>
       \/ /\ dev' = "setup" /\ queue' = << >> /\ heard' = heard + Len(queue)
          /\ UNCHANGED alsa
       \/ /\ dev' = "ready" /\ queue' = << >>
          /\ buf' = AfterReset /\ written' = 0 /\ heard' = given - Len(AfterReset)
          /\ UNCHANGED short
    /\ UNCHANGED <<caller, left, given>>

\* The device runs as long as there is sound and stops when it runs out.
AlsaSounds ==
    /\ dev = "running" /\ Sounds
    /\ dev' = IF queue' = << >> THEN "xrun" ELSE dev
    /\ UNCHANGED <<caller, left, given, alsa>>

AlsaStep ==
    \/ AlsaCopy \/ AlsaWrite \/ AlsaRecover \/ AlsaMoveRest \/ AlsaClosed
    \/ dev = "setup" /\ AlsaError      \* it takes nothing until it is prepared

AlsaNext == AlsaStep \/ AlsaWait \/ AlsaError \/ AlsaOpen \/ AlsaPlay \/ AlsaClose \/ AlsaReset \/ AlsaSounds
=============================================================================
