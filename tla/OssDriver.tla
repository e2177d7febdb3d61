------------------------------ MODULE OssDriver ------------------------------
(***************************************************************************)
(* The drivers that write straight to a device that blocks: OSS            *)
(* (src/server/output/oss.cc) and sndio (src/server/output/sndio_out.cc).  *)
(* The device is "open", or "none" when dsp_fd is -1 and hdl NULL.         *)
(***************************************************************************)
EXTENDS AudioDriver

\* open() opens the device and sets the parameters; what fails closes it.
Opens ==
    \/ dev' = "open" /\ opened' = TRUE
    \/ dev' = "none" /\ UNCHANGED opened

OssOpen ==
    /\ driver = "OSS" /\ Idle /\ ~opened
    /\ Opens
    /\ UNCHANGED <<call, pc, sound>>

SndioOpen ==
    /\ driver = "SNDIO" /\ Idle /\ ~opened
    /\ IF dev # "none" THEN call' = "abort" /\ UNCHANGED <<opened, dev>>
                       ELSE Opens /\ UNCHANGED call
    /\ UNCHANGED <<pc, sound>>

WriterPlay == PlayCall("write") /\ UNCHANGED <<opened, heard, dev, queue>>

\* The device takes n frames of the argument.
Writes(n) ==
    /\ pc = "write" /\ dev = "open"
    /\ n <= Room - Len(queue)
    /\ queue' = queue \o SubSeq(Argument, 1, n)

\* OSS goes on until all is written.
OssWrite ==
    /\ driver = "OSS"
    /\ \E n \in 1..left :
          /\ Writes(n)
          /\ left' = left - n
          /\ IF n < left THEN UNCHANGED <<call, pc>> ELSE Return
    /\ UNCHANGED <<opened, given, heard, dev>>

\* sndio returns what it has written; the reader gives it the rest anew.
SndioWrite ==
    /\ driver = "SNDIO"
    /\ \E n \in 1..left :
          /\ Writes(n)
          /\ left' = 0 /\ given' = given - (left - n)
    /\ Return
    /\ UNCHANGED <<opened, heard, dev>>

\* The device is not open, the write fails, or the device is gone.
WriterError ==
    /\ pc = "write"
    /\ PlayFails
    /\ UNCHANGED <<opened, sound, dev>>

\* close() of either device lets it play what it holds.
WriterClose ==
    /\ Idle /\ opened
    /\ IF dev = "open" THEN call' = "close" /\ pc' = "drain" /\ UNCHANGED opened
                       ELSE opened' = FALSE /\ UNCHANGED <<call, pc>>
    /\ UNCHANGED <<sound, dev>>

WriterClosed ==
    /\ pc = "drain" /\ queue = << >>
    /\ dev' = "none" /\ opened' = FALSE
    /\ Return
    /\ UNCHANGED sound

\* OSS drops what the device holds, closes it and opens it anew, which may
\* fail and leaves it closed.
OssReset ==
    /\ driver = "OSS" /\ Idle /\ opened
    /\ IF dev = "none" THEN UNCHANGED <<heard, queue, dev>>
       ELSE /\ queue' = << >> /\ heard' = given
            /\ dev' \in {dev, "none"}
    /\ UNCHANGED <<caller, left, given>>

\* sndio has no way to stop, and returns true.
SndioReset ==
    /\ driver = "SNDIO" /\ Idle /\ opened
    /\ UNCHANGED <<caller, sound, dev>>

WriterSounds == Sounds /\ UNCHANGED <<caller, left, given, dev>>

WriterStep == OssWrite \/ SndioWrite \/ WriterClosed \/ (dev = "none" /\ WriterError)

WriterNext ==
    \/ OssOpen \/ SndioOpen \/ OssReset \/ SndioReset \/ WriterPlay \/ WriterClose
    \/ WriterStep \/ WriterError \/ WriterSounds
=============================================================================
