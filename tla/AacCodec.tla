------------------------------ MODULE AacCodec -------------------------------
(***************************************************************************)
(* The AAC decoder (src/server/input/aac.cc).  data.rbuf is what rbuf holds *)
(* from rbuf_pos on, data.over what overflow_buf holds.  It cannot seek.   *)
(***************************************************************************)
EXTENDS Codec

CONSTANTS AacBuf, Header    \* BUFFER_SIZE, and the 6 bytes a frame is known by

ASSUME AacAssumption ==
    AacBuf \in Nat /\ Header \in 1..FrameBytes /\ AacBuf > FrameBytes

AacInit == [rbuf |-> << >>, over |-> << >>]

\* Where in rbuf a frame is seen to begin.
Seen == {i \in 1..(Len(data.rbuf) - Header + 1) : Starts(data.rbuf[i])}

\* rbuf after the scan of buffer_fill_frame(): from the frame on, or the
\* bytes that may be the beginning of one.
Scanned ==
    CASE Seen # {} -> After(data.rbuf, (CHOOSE i \in Seen : \A j \in Seen : i <= j) - 1)
      [] Seen = {} /\ Len(data.rbuf) >= Header -> After(data.rbuf, Len(data.rbuf) - Header + 1)
      [] OTHER -> data.rbuf

\* The bytes buffer_fill_min() is asked for.
Needed == IF Seen # {} THEN FrameBytes ELSE Header

AacOverflow ==
    /\ data.over # << >>
    /\ Gives(Upto(data.over, room), "ok")
    /\ data' = [data EXCEPT !.over = After(@, room)]
    /\ UNCHANGED <<io, asked>>

AacFill ==
    /\ data.over = << >> /\ Len(Scanned) < Needed
    /\ LET got == Bytes(AacBuf - Len(Scanned))
       IN  IF got = << >>
           THEN /\ Gives(<< >>, "ok") /\ ReadNothing
                /\ data' = [data EXCEPT !.rbuf = Scanned]
           ELSE /\ data' = [data EXCEPT !.rbuf = Scanned \o got]
                /\ ReadSome(got) /\ UNCHANGED result
    /\ UNCHANGED asked

\* A failed read is taken as the end: no error is set.
AacReadFails ==
    /\ data.over = << >> /\ Len(Scanned) < Needed
    /\ ReadFails /\ Gives(<< >>, "ok")
    /\ data' = [data EXCEPT !.rbuf = Scanned]
    /\ UNCHANGED asked

\* What decode_one_frame() keeps of a frame for the next call.
Overflow(frame) == After(SamplesOf(frame), room)

\* decode_one_frame(): a damaged frame is passed over, or is the end.
AacFrame ==
    /\ data.over = << >> /\ Len(Scanned) >= Needed
    /\ LET frame == FrameOf(Head(Scanned))
           rest  == After(Scanned, FrameBytes)
       IN  IF frame \in broken
           THEN /\ data' = [data EXCEPT !.rbuf = rest]
                /\ UNCHANGED result \/ Gives(<< >>, "fatal")
           ELSE /\ data' = [rbuf |-> rest, over |-> Overflow(frame)]
                /\ Gives(Upto(SamplesOf(frame), room), "ok")
    /\ UNCHANGED <<io, asked>>

AacDecode == AacOverflow \/ AacFill \/ AacFrame

AacSeek(sec) == SeekTo(sec) /\ NotSought(sec, Duration) /\ UNCHANGED <<data, io, strayed>>
=============================================================================
