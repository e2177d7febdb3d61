---------------------------- MODULE LibraryCodecs ----------------------------
(***************************************************************************)
(* The decoders whose library reads the file and finds the frames in it:   *)
(* FLAC (flac.cc), FFmpeg (ffmpeg.cc: "FFMPEG", "OPUS" with a codec that   *)
(* holds frames back, "PACKED" with one that gives packed sound or one     *)
(* channel), Vorbis (vorbis.cc), Musepack (musepack.cc) and those that     *)
(* only pass samples on: sndfile.cc, modplug.cc and wavpack.cc, all under  *)
(* src/server/input/.                                                      *)
(*                                                                         *)
(* data.at is the frame, or for the last three the sample, the library has *)
(* come to, data.rest what the decoder keeps for the next call.            *)
(***************************************************************************)
EXTENDS Codec

LibraryInit == [at |-> 0, rest |-> << >>, held |-> << >>, eof |-> FALSE, dead |-> FALSE]

Plain == {"SNDFILE", "MODPLUG", "WAVPACK"}

\* What was kept is given first.
GiveRest ==
    /\ data.rest # << >>
    /\ Gives(Upto(data.rest, room), "ok")
    /\ data' = [data EXCEPT !.rest = After(@, room)]

\* Mutant: what the caller has no room for is lost.
NothingOf(sound) == << >>

\* The frame that comes to the caller, and what is left of it.
GiveFrame(sound, e) == Gives(Upto(sound, room), e)
LeftOf(sound) == After(sound, room)

Frame == data.at + 1
FrameOfSample(sample) == (sample - 1) \div FrameLen + 1
FramesEnd == data.at = Frames

-----------------------------------------------------------------------------
\* process_single() has no frame to give at the end.
FlacEnds ==
    /\ data.rest = << >> /\ FramesEnd /\ ~data.dead
    /\ Gives(<< >>, "ok") /\ UNCHANGED data

FlacFrame ==
    /\ data.rest = << >> /\ ~FramesEnd /\ ~data.dead /\ Frame \notin broken
    /\ data' = [data EXCEPT !.at = Frame, !.rest = LeftOf(SamplesOf(Frame))]
    /\ GiveFrame(SamplesOf(Frame), "ok")

\* error_cb(): after a lost sync the next frame is found, and is the last
\* one; after another error write_cb() refuses all frames.
FlacBroken ==
    /\ data.rest = << >> /\ ~FramesEnd /\ ~data.dead /\ Frame \in broken
    /\ LET found == IF Frame < Frames THEN SoundOf(Frame + 1) ELSE << >>
       IN \/ /\ data' = [data EXCEPT !.at = AtMost(@ + 2, Frames), !.rest = LeftOf(found)]
             /\ GiveFrame(found, "fatal")
          \/ data' = [data EXCEPT !.at = Frame, !.dead = TRUE] /\ Gives(<< >>, "fatal")

FlacDead ==
    /\ data.rest = << >> /\ data.dead
    /\ Gives(<< >>, "fatal") /\ UNCHANGED data

FlacDecode ==
    /\ GiveRest \/ FlacEnds \/ FlacFrame \/ FlacBroken \/ FlacDead
    /\ UNCHANGED <<io, asked>>

\* The sample of a second, from the length in whole seconds; for a song
\* shorter than one 0/0 is made a number, which may be any.
TargetSamples(sec) ==
    IF Duration = 0 THEN 1..(Total + 1) ELSE {(sec * Total) \div Duration + 1}

\* seek_absolute() leaves in sample_buffer the frame of the target, from the
\* target on; it refuses a target past the end and fails at a damaged frame.
FlacSeek(sec) ==
    /\ SeekTo(sec)
    /\ \E target \in TargetSamples(sec) :
         LET frame == FrameOfSample(target)
         IN  IF sec > Duration \/ target > Total \/ data.dead
             THEN NotSought(sec, Duration) /\ UNCHANGED <<data, strayed>>
             ELSE IF frame \in broken
             THEN /\ NotSought(sec, Duration) /\ strayed' = TRUE
                  /\ data' = [data EXCEPT !.dead = TRUE]
             ELSE /\ Sought(sec) /\ UNCHANGED strayed
                  /\ data' = [data EXCEPT !.at = frame, !.rest = Run(target, frame * FrameLen)]
    /\ UNCHANGED io

-----------------------------------------------------------------------------
\* Whether the codec keeps a frame until it has the next (CODEC_CAP_DELAY).
Delay == codec = "OPUS"

NoRest == data.rest = << >> /\ ~data.dead

\* After the last packet there are only empty ones.
FfEnds ==
    /\ NoRest /\ FramesEnd /\ ~Delay
    /\ data' = [data EXCEPT !.eof = TRUE, !.dead = TRUE]
    /\ Gives(<< >>, "ok")

\* dead is eos: nothing more is decoded.
FfEnded == data.dead /\ Gives(<< >>, "ok") /\ UNCHANGED data

\* An empty packet is passed over, and never sent to the codec.
FfFlushes ==
    /\ NoRest /\ FramesEnd /\ Delay
    /\ data' = [data EXCEPT !.eof = TRUE]
    /\ UNCHANGED result

\* Planar sound is packed from its channels.  Of packed sound, or of one
\* channel, it is not the samples that are copied but the pointers to them.
PackedSound(frame) ==
    IF codec = "PACKED" THEN [i \in 1..FrameLen |-> 0] ELSE SamplesOf(frame)

\* A packet is sent to the codec, which may want another first.
FfPacket ==
    /\ NoRest /\ ~FramesEnd /\ Frame \notin broken
    /\ LET held == Append(data.held, Frame)
       IN  IF Delay /\ Len(held) = 1
           THEN data' = [data EXCEPT !.at = Frame, !.held = held] /\ UNCHANGED result
           ELSE LET sound == PackedSound(Head(held))
                IN  /\ data' = [data EXCEPT !.at = Frame, !.held = Tail(held), !.rest = LeftOf(sound)]
                    /\ GiveFrame(sound, "ok")

\* And where they were packed is freed: for such sound that is the frame,
\* which is freed once more after it.
FfFreesTwice ==
    /\ codec = "PACKED" /\ NoRest /\ ~FramesEnd /\ Frame \notin broken
    /\ call' = "ub" /\ UNCHANGED <<data, out, err, fill, done>>

\* A damaged packet is dropped if it is flagged so, else it is an error.
FfBroken ==
    /\ NoRest /\ ~FramesEnd /\ Frame \in broken
    /\ data' = [data EXCEPT !.at = Frame]
    /\ UNCHANGED result \/ Gives(<< >>, "fatal")

FfDecode ==
    /\ GiveRest \/ FfEnds \/ FfEnded \/ FfFlushes \/ FfPacket \/ FfFreesTwice \/ FfBroken
    /\ UNCHANGED <<io, asked>>

\* Mutant: what was kept of the frame before the seek is given after it.
RestKept(packet) == [data EXCEPT !.at = packet - 1, !.held = << >>]

\* At the packet, with nothing kept of another.
AtPacket(packet) == [data EXCEPT !.at = packet - 1, !.held = << >>, !.rest = << >>]

\* The packet the sample of the second is in; there may be none.
FfSeek(sec) ==
    LET packet == FrameOfSample(sec * Rate + 1)
    IN  /\ SeekTo(sec)
        /\ IF data.eof \/ packet > Frames
           THEN NotSought(sec, Duration) /\ UNCHANGED <<data, strayed>>
           ELSE /\ Sought(sec) /\ UNCHANGED strayed
                /\ data' = AtPacket(packet)
        /\ UNCHANGED io

-----------------------------------------------------------------------------
\* ov_read() gives what is left of a packet, or tells of a hole.
VorbisPacket ==
    /\ ~FramesEnd /\ Frame \notin broken
    /\ LET sound == IF data.rest = << >> THEN SamplesOf(Frame) ELSE data.rest
       IN  /\ GiveFrame(sound, "ok")
           /\ data' = IF LeftOf(sound) = << >> THEN [data EXCEPT !.at = Frame, !.rest = << >>]
                                               ELSE [data EXCEPT !.rest = LeftOf(sound)]

VorbisHole ==
    /\ ~FramesEnd /\ Frame \in broken
    /\ data' = [data EXCEPT !.at = Frame] /\ UNCHANGED result

VorbisEnds == FramesEnd /\ Gives(<< >>, "ok") /\ UNCHANGED data

VorbisDecode == (VorbisPacket \/ VorbisHole \/ VorbisEnds) /\ UNCHANGED <<io, asked>>

\* ov_time_seek() goes to the sample, in whatever packet it is.  The length
\* get_duration() gives was never set: a variable of its name was.
VorbisSeek(sec) ==
    LET frame == FrameOfSample(sec * Rate + 1)
    IN  /\ SeekTo(sec)
        /\ IF frame > Frames
           THEN (\E length \in 0..(sec + 1) : NotSought(sec, length)) /\ UNCHANGED <<data, strayed>>
           ELSE /\ Sought(sec) /\ UNCHANGED strayed
                /\ data' = [data EXCEPT !.at = frame - 1,
                               !.rest = IF frame \in broken THEN << >>
                                        ELSE Run(sec * Rate + 1, frame * FrameLen)]
        /\ UNCHANGED io

-----------------------------------------------------------------------------
\* held is <<remain_buf_len>> when there is a remain_buf, and what remain_buf
\* holds is not the sound: its bytes are counted as floats.
MpcRest ==
    /\ data.held # << >>
    /\ LET n == Head(data.held)
       IN  /\ Gives([i \in 1..AtMost(n, room) |-> 0], "ok")
           /\ data' = [data EXCEPT !.held = IF room < n THEN <<n - room>> ELSE << >>]

MpcFrame ==
    /\ data.held = << >> /\ ~FramesEnd /\ Frame \notin broken
    /\ GiveFrame(SamplesOf(Frame), "ok")
    /\ data' = [data EXCEPT !.at = Frame,
                   !.held = IF FrameLen >= room THEN <<FrameLen - room>> ELSE << >>]

MpcBroken ==
    /\ data.held = << >> /\ ~FramesEnd /\ Frame \in broken
    /\ data' = [data EXCEPT !.at = Frame] /\ UNCHANGED result

MpcEnds == data.held = << >> /\ FramesEnd /\ Gives(<< >>, "ok") /\ UNCHANGED data

MpcDecode == (MpcRest \/ MpcFrame \/ MpcBroken \/ MpcEnds) /\ UNCHANGED <<io, asked>>

\* The library seeks to a frame.
MpcSeek(sec) ==
    LET frame == FrameOfSample(sec * Rate + 1)
    IN  /\ SeekTo(sec)
        /\ IF frame > Frames
           THEN NotSought(sec, Duration) /\ UNCHANGED <<data, strayed>>
           ELSE Sought(sec) /\ UNCHANGED strayed /\ data' = [data EXCEPT !.at = frame - 1, !.held = << >>]
        /\ UNCHANGED io

-----------------------------------------------------------------------------
\* The library fills what there is room for; at is the last sample given.
PlainDecode ==
    LET n == AtMost(room, Total - data.at)
    IN  /\ Gives(Run(data.at + 1, data.at + n), "ok")
        /\ data' = [data EXCEPT !.at = @ + n]
        /\ UNCHANGED <<io, asked>>

\* ModPlug goes to the very end of a song shorter than that.
PlainTarget(sec) == IF codec = "MODPLUG" THEN AtMost(sec * Rate, Total) ELSE sec * Rate
PlainSecond(sec) == IF codec = "MODPLUG" THEN AtMost(sec, Duration) ELSE sec

PlainSeek(sec) ==
    /\ SeekTo(sec)
    /\ IF PlainTarget(sec) > Total
       THEN NotSought(sec, Duration) /\ UNCHANGED <<data, strayed>>
       ELSE /\ Sought(PlainSecond(sec)) /\ UNCHANGED strayed
            /\ data' = [data EXCEPT !.at = PlainTarget(sec)]
    /\ UNCHANGED io
=============================================================================
