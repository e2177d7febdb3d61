----------------------------- MODULE SpeexCodec ------------------------------
(***************************************************************************)
(* The Speex decoder (src/server/input/speex.cc).  A frame stands for a    *)
(* page of the Ogg file with the packet in it.  data.oy is what the        *)
(* ogg_sync_state holds of the file, data.os the packets of the            *)
(* ogg_stream_state, data.rest the output from output_start on; data.under *)
(* says that the ogg_sync_state is filled to before its beginning.         *)
(***************************************************************************)
EXTENDS Codec

CONSTANT Piece    \* the 200 bytes get_more_data() reads

ASSUME SpeexAssumption == Piece \in Nat \ {0}

SpeexInit == [oy |-> << >>, os |-> << >>, rest |-> << >>, under |-> FALSE,
              begin |-> 0, end |-> 0, want |-> 0]

\* The whole pages in oy; one that is damaged or has lost a byte is passed
\* over by its checksum.
PageStarts ==
    {i \in 1..(Len(data.oy) - FrameBytes + 1) :
        /\ Starts(data.oy[i]) /\ FrameOf(data.oy[i]) \notin broken
        /\ data.oy[i + FrameBytes - 1] = data.oy[i] + FrameBytes - 1}
PageStart == CHOOSE i \in PageStarts : \A j \in PageStarts : i <= j

Wanted == room - Len(out)

SpeexCopy ==
    /\ Wanted > 0 /\ data.rest # << >>
    /\ out' = out \o Upto(data.rest, Wanted)
    /\ data' = [data EXCEPT !.rest = After(@, Wanted)]
    /\ UNCHANGED <<io, asked, call, err, fill, done>>

SpeexPacket ==
    /\ Wanted > 0 /\ data.rest = << >> /\ data.os # << >>
    /\ data' = [data EXCEPT !.rest = SamplesOf(Head(data.os)), !.os = Tail(@)]
    /\ UNCHANGED <<io, asked, result>>

SpeexPage ==
    /\ Wanted > 0 /\ data.rest = << >> /\ data.os = << >> /\ PageStarts # {}
    /\ data' = [data EXCEPT !.os = <<FrameOf(data.oy[PageStart])>>,
                            !.oy = After(@, PageStart + FrameBytes - 1)]
    /\ UNCHANGED <<io, asked, result>>

WantsData == Wanted > 0 /\ data.rest = << >> /\ data.os = << >> /\ PageStarts = {} /\ ~eof

\* get_more_data() reads on; before the beginning of the buffer it must not.
SpeexRead ==
    /\ WantsData
    /\ LET got == Bytes(Piece)
       IN  IF got = << >> THEN ReadNothing /\ UNCHANGED <<data, result>>
           ELSE /\ ReadSome(got)
                /\ IF data.under THEN call' = "ub" /\ UNCHANGED <<data, out, err, fill, done>>
                   ELSE data' = [data EXCEPT !.oy = @ \o got] /\ UNCHANGED result
    /\ UNCHANGED asked

\* No page has begun in oy: what is in it may have been passed over already.
NothingBegun ==
    \A i \in 1..Len(data.oy) : Starts(data.oy[i]) => FrameOf(data.oy[i]) \in broken

\* get_more_data() tells ogg_sync_wrote() of -1 bytes, and is called again.
SpeexReadFails ==
    /\ WantsData /\ ReadFails
    /\ \/ data.oy # << >> /\ data' = [data EXCEPT !.oy = Front(@)]
       \/ NothingBegun /\ data' = [data EXCEPT !.oy = << >>, !.under = TRUE]
    /\ UNCHANGED <<asked, result>>

AtEnd == data.rest = << >> /\ data.os = << >> /\ PageStarts = {} /\ eof

SpeexReturns ==
    /\ Wanted = 0 \/ AtEnd
    /\ call' = "none" /\ fill' = fill + Len(out) /\ done' = (out = << >>)
    /\ UNCHANGED <<data, io, asked, out, err>>

SpeexDecode == SpeexCopy \/ SpeexPacket \/ SpeexPage \/ SpeexRead \/ SpeexReturns

SpeexSeek(sec) ==
    /\ SeekTo(sec)
    /\ call' = "seek"
    /\ data' = [data EXCEPT !.begin = 0, !.end = Size, !.want = sec]
    /\ UNCHANGED <<codec, broken, room, io, out, err, fill, done, due, goal, strayed>>

\* The pages that begin in the middle of the search or later.
Middle   == (data.begin + data.end) \div 2
PagesAhead == {p \in (1..Frames) \ broken : (p - 1) * FrameBytes >= Middle}
NextPage == CHOOSE p \in PagesAhead : \A q \in PagesAhead : p <= q

\* Where the file is once that page has been read, piece after piece.
PiecesTo(byte) == (byte - Middle + Piece - 1) \div Piece
PosAfter(page) == AtMost(Middle + Piece * PiecesTo(page * FrameBytes), Size)

\* The second a page ends in, by its granule position.
SecondOf(page) == (page * FrameLen) \div Rate

\* The search ends: what was read and not decoded is dropped; what was
\* decoded and not given is not.
SpeexFound(sec, page) ==
    /\ Sought(sec) /\ strayed' = (strayed \/ data.rest # << >>)
    /\ pos' = PosAfter(page) /\ eof' = FALSE
    /\ data' = [data EXCEPT !.oy = << >>, !.os = << >>, !.under = FALSE]
    /\ UNCHANGED seeks

\* No page begins after the middle: the file is left at its end.
SpeexLost ==
    /\ NotSought(data.want, -1)
    /\ pos' = Size /\ eof' = TRUE /\ strayed' = TRUE
    /\ data' = [data EXCEPT !.oy = << >>, !.under = FALSE]
    /\ UNCHANGED seeks

\* Mutant: the search never gives up the first half.
HalfNarrowed(page) ==
    IF data.want < SecondOf(page) THEN [data EXCEPT !.end = Middle] ELSE data

\* One half of the file or the other.
Narrowed(page) ==
    IF data.want < SecondOf(page) THEN [data EXCEPT !.end = Middle]
                                  ELSE [data EXCEPT !.begin = Middle]

\* What follows from the page found after the middle.
SpeexAt(page) ==
    IF SecondOf(page) = data.want THEN SpeexFound(data.want, page)
    ELSE IF Narrowed(page).end - Narrowed(page).begin <= Piece THEN SpeexFound(SecondOf(page), page)
    ELSE /\ data' = Narrowed(page)
         /\ pos' = PosAfter(page) /\ eof' = FALSE
         /\ UNCHANGED <<asked, result>>

SpeexSearch ==
    /\ call = "seek" /\ ~Unreadable /\ UNCHANGED failed
    /\ IF PagesAhead = {} THEN SpeexLost ELSE SpeexAt(NextPage)

\* A read fails on the way and spoils a page, or, as the first one of all,
\* makes the next write to before the buffer; in an unreadable file the
\* search does not end.
SpeexSearchFails ==
    /\ call = "seek" /\ failed' = AtMost(failed + 1, MaxFailed)
    /\ IF failed' = MaxFailed THEN UNCHANGED <<data, pos, eof, asked, result>>
       ELSE \/ SpeexLost
            \/ \E page \in PagesAhead : SpeexAt(page)
            \/ call' = "ub" /\ UNCHANGED <<data, pos, eof, asked, out, err, fill, done>>
=============================================================================
