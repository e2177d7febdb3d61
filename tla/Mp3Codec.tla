------------------------------ MODULE Mp3Codec -------------------------------
(***************************************************************************)
(* The MP3 decoder (src/server/input/mp3.cc).  in_buff holds a piece of    *)
(* the file; libmad decodes a frame from it when the frame is there whole, *)
(* with MAD_BUFFER_GUARD bytes after it.  data.next is stream.next_frame,  *)
(* 0 for NULL, and data.short says that libmad wants more bytes.           *)
(***************************************************************************)
EXTENDS Codec

CONSTANTS InBuf, Guard    \* INPUT_BUFFER and MAD_BUFFER_GUARD, in bytes

ASSUME Mp3Assumption == Guard \in Nat /\ InBuf \in Nat /\ InBuf > FrameBytes + Guard

Mp3Init == [buf |-> << >>, next |-> 0, short |-> TRUE, skip |-> 0]

\* What fill_buff() keeps of the buffer.
Unread == IF data.next = 0 THEN << >> ELSE After(data.buf, data.next - 1)

\* fill_buff(), and the guard it appends at the end of the file.
Filled(got) == Unread \o got \o IF eof THEN [i \in 1..Guard |-> 0] ELSE << >>

Mp3Fill ==
    /\ data.short
    /\ LET got == Bytes(InBuf - Len(Unread))
       IN  IF got = << >>
           THEN Gives(<< >>, "ok") /\ ReadNothing /\ UNCHANGED data
           ELSE /\ data' = [data EXCEPT !.buf = Filled(got), !.next = 1, !.short = FALSE]
                /\ ReadSome(got) /\ UNCHANGED result
    /\ UNCHANGED asked

Mp3ReadFails ==
    /\ data.short /\ ReadFails
    /\ Gives(<< >>, "fatal")
    /\ UNCHANGED <<data, asked>>

\* Where the next frame begins in the buffer, if it does.
FrameStarts == {i \in data.next..Len(data.buf) : Starts(data.buf[i])}
FrameStart  == CHOOSE i \in FrameStarts : \A j \in FrameStarts : i <= j

\* Whether the frame is there whole, with the guard.
IsWhole == FrameStarts # {} /\ FrameStart + FrameBytes + Guard - 1 <= Len(data.buf)

\* libmad wants more: it keeps the frame that has begun, or a guard.
Mp3Short ==
    /\ ~data.short /\ ~IsWhole
    /\ data' = [data EXCEPT !.short = TRUE,
                   !.next = CASE FrameStarts # {} -> FrameStart
                              [] Len(data.buf) - data.next + 1 >= Guard -> Len(data.buf) - Guard + 1
                              [] OTHER -> data.next]
    /\ UNCHANGED <<io, asked, result>>

\* Mutant: a frame that just fits is refused.
PutSmaller(frame) == IF FrameLen >= room THEN << >> ELSE SoundOf(frame)

\* put_output() takes a frame only whole.
PutWhole(frame) == IF FrameLen > room THEN << >> ELSE SoundOf(frame)

Mp3Frame ==
    /\ ~data.short /\ IsWhole
    /\ LET frame == FrameOf(data.buf[FrameStart])
           past  == [data EXCEPT !.next = FrameStart + FrameBytes]
       IN  CASE frame \in broken -> data' = past /\ UNCHANGED result
             [] frame \notin broken /\ data.skip > 0 ->
                    data' = [past EXCEPT !.skip = @ - 1] /\ UNCHANGED result
             [] OTHER -> data' = past /\ Gives(PutWhole(frame), "ok")
    /\ UNCHANGED <<io, asked>>

Mp3Decode == Mp3Fill \/ Mp3Short \/ Mp3Frame

\* Mutant: the division is made first, in whole numbers.
DividedFirst(sec) == (sec \div Duration) * Size

\* Where in the file the second is, as far as the mean bitrate tells.
NewPosition(sec) == (sec * Size) \div Duration

\* What is left of the buffer after a seek: nothing is read from it again.
Mp3Rewound == [buf |-> data.buf, next |-> 0, short |-> TRUE, skip |-> 2]

Mp3Seek(sec) ==
    /\ SeekTo(sec)
    /\ IF sec < Duration
       THEN /\ Sought(sec) /\ UNCHANGED strayed
            /\ pos' = NewPosition(sec) /\ eof' = (pos' >= Size)
            /\ data' = Mp3Rewound /\ UNCHANGED failed
       ELSE NotSought(sec, Duration) /\ UNCHANGED <<data, io, strayed>>
=============================================================================
