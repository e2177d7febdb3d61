-------------------------------- MODULE Codec --------------------------------
(***************************************************************************)
(* The interface of a decoder of one song (Codec, src/server/input/        *)
(* decoder.h), as DecoderState (src/server/output/player.cc) uses it, and  *)
(* the file it is read from (io_stream, src/server/input/io.cc).           *)
(*                                                                         *)
(* The song is compressed in frames of equal size; its bytes and its       *)
(* samples are numbered from 1.  0 stands for a byte or a sample that is   *)
(* none of the song's.                                                     *)
(***************************************************************************)
EXTENDS Integers, Sequences, SequencesExt

CONSTANTS
    Frames,       \* frames of the song
    FrameBytes,   \* bytes of a frame in the file
    FrameLens,    \* samples a frame decodes to, by decoder
    Rate,         \* samples in a second
    BufLen,       \* PCM_BUF_SIZE, in samples
    MaxSeeks,     \* bound of the model: seeks made
    MaxFailed     \* reads that fail before all do

ASSUME CodecAssumption ==
    /\ {Frames, FrameBytes, Rate, BufLen} \subseteq Nat \ {0} /\ MaxSeeks \in Nat /\ MaxFailed \in Nat
    /\ \A c \in DOMAIN FrameLens : FrameLens[c] \in Nat \ {0}

VARIABLES
    codec,    \* the decoder of the song
    broken,   \* the frames of the file that are damaged
    data,     \* what the decoder keeps: mp3_data, aac_data and so on
    pos, eof, \* of the io_stream
    failed,   \* reads that have failed
    call,     \* the call being made: "none", "decode", "seek"; "ub" when it has
              \* corrupted the memory
    room,     \* buf_len of the last decode()
    out,      \* what it has given
    err,      \* error.type: "ok", "fatal"; "stopped" when a seek has ended the song
    fill,     \* buf_fill of the DecoderState
    done,     \* done of the DecoderState
    due,      \* the sample that comes after those given before the last call; 0 after a seek
    goal,     \* where the last seek said it went, in seconds
    strayed,  \* a seek has left the decoder elsewhere than it said
    seeks     \* seeks made

io     == <<pos, eof, failed>>
result == <<call, out, err, fill, done>>
asked  == <<codec, broken, room, due, goal, strayed, seeks>>

FrameLen == FrameLens[codec]

Size  == Frames * FrameBytes
Total == Frames * FrameLen
Duration == Total \div Rate

FrameOf(byte) == (byte - 1) \div FrameBytes + 1
Starts(byte)  == byte > 0 /\ (byte - 1) % FrameBytes = 0

\* The numbers from a to b.
Run(a, b) == [i \in 1..(b - a + 1) |-> a + i - 1]

SamplesOf(frame) == Run((frame - 1) * FrameLen + 1, frame * FrameLen)
SoundOf(frame)   == IF frame \in broken THEN << >> ELSE SamplesOf(frame)

AtMost(a, b) == IF a < b THEN a ELSE b

\* The first n elements of s and those after them.
Upto(s, n)  == SubSeq(s, 1, AtMost(n, Len(s)))
After(s, n) == SubSeq(s, n + 1, Len(s))

\* What read() of n bytes gives; nothing at the end.
Bytes(n) == Run(pos + 1, AtMost(pos + n, Size))

\* From then on the file cannot be read any more.
Unreadable == failed = MaxFailed

ReadSome(got) == ~Unreadable /\ pos' = pos + Len(got) /\ UNCHANGED <<eof, failed>>

ReadNothing == ~Unreadable /\ eof' = TRUE /\ UNCHANGED <<pos, failed>>

ReadFails == failed' = AtMost(failed + 1, MaxFailed) /\ UNCHANGED <<pos, eof>>

-----------------------------------------------------------------------------
\* DecoderState::decode() has room for more.
Decode ==
    /\ call = "none" /\ ~done /\ fill < BufLen
    /\ call' = "decode" /\ room' = BufLen - fill
    /\ due' = IF out = << >> THEN due ELSE Last(out) + 1
    /\ out' = << >> /\ err' = "ok"
    /\ UNCHANGED <<codec, broken, data, io, fill, done, goal, strayed, seeks>>

\* decode() gives s, with error e; nothing, or a fatal error, is the end.
Gives(s, e) ==
    /\ call' = "none" /\ out' = s /\ err' = e
    /\ fill' = fill + Len(s)
    /\ done' = (s = << >> \/ e = "fatal")

\* flush() hands the sound over.
FlushBuf ==
    /\ call = "none" /\ fill > 0
    /\ fill' = 0
    /\ UNCHANGED <<data, io, asked, call, out, err, done>>

\* The requests to seek, made between two calls of decode().
SeekTo(sec) ==
    /\ call = "none" /\ seeks < MaxSeeks
    /\ sec \in 0..(Duration + 1)
    /\ seeks' = seeks + 1

\* seek() returned sec: what was decoded before is dropped.
Sought(sec) ==
    /\ call' = "none" /\ fill' = 0 /\ out' = << >>
    /\ due' = 0 /\ goal' = sec
    /\ UNCHANGED <<codec, broken, room, err, done>>

\* seek(sec) returned -1: past the end it ends the song, else it is forgotten.
NotSought(sec, length) ==
    /\ call' = "none"
    /\ IF length > 0 /\ length <= sec
       THEN done' = TRUE /\ err' = "stopped" /\ fill' = 0
       ELSE UNCHANGED <<done, err, fill>>
    /\ UNCHANGED <<codec, broken, room, out, due, goal>>
=============================================================================
