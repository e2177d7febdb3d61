---------------------------- MODULE SongDecoders -----------------------------
(***************************************************************************)
(* The decoder that get_decoder() has chosen for the song (decoder.cc),    *)
(* and what the player may rely on whichever it is.                        *)
(***************************************************************************)
EXTENDS Mp3Codec, AacCodec, SpeexCodec, LibraryCodecs

CONSTANTS
    Codecs,    \* the decoders there are
    Damage     \* what may be damaged in the file: sets of frames

ASSUME DamageAssumption == Damage \subseteq SUBSET (1..Frames)

cvars == <<data, io, result, asked>>

Fresh(c) == CASE c = "MP3" -> Mp3Init [] c = "AAC" -> AacInit
              [] c = "SPX" -> SpeexInit [] OTHER -> LibraryInit

Init ==
    /\ codec \in Codecs /\ broken \in (IF codec \in Plain THEN {{}} ELSE Damage)
    /\ data = Fresh(codec)
    /\ pos = 0 /\ eof = FALSE /\ failed = 0
    /\ call = "none" /\ room = 0 /\ out = << >> /\ err = "ok"
    /\ fill = 0 /\ done = FALSE
    /\ due = 1 /\ goal = 0 /\ strayed = FALSE /\ seeks = 0

Decoding ==
    /\ call = "decode"
    /\ \/ codec = "MP3" /\ Mp3Decode
       \/ codec = "AAC" /\ AacDecode
       \/ codec = "SPX" /\ SpeexDecode
       \/ codec = "FLAC" /\ FlacDecode
       \/ codec \in {"FFMPEG", "OPUS", "PACKED"} /\ FfDecode
       \/ codec = "VORBIS" /\ VorbisDecode
       \/ codec = "MPC" /\ MpcDecode
       \/ codec \in Plain /\ PlainDecode

Seek(sec) ==
    \/ codec = "MP3" /\ Mp3Seek(sec)
    \/ codec = "AAC" /\ AacSeek(sec)
    \/ codec = "SPX" /\ SpeexSeek(sec)
    \/ codec = "FLAC" /\ FlacSeek(sec)
    \/ codec \in {"FFMPEG", "OPUS", "PACKED"} /\ FfSeek(sec)
    \/ codec = "VORBIS" /\ VorbisSeek(sec)
    \/ codec = "MPC" /\ MpcSeek(sec)
    \/ codec \in Plain /\ PlainSeek(sec)

\* A read of the decoder fails.
ReadError ==
    \/ call = "decode" /\ codec = "MP3" /\ Mp3ReadFails
    \/ call = "decode" /\ codec = "AAC" /\ AacReadFails
    \/ call = "decode" /\ codec = "SPX" /\ SpeexReadFails
    \/ SpeexSearchFails

CodecStep == Decoding \/ SpeexSearch \/ (Unreadable /\ ReadError)

Next ==
    \/ Decode \/ FlushBuf \/ CodecStep \/ ReadError
    \/ \E sec \in 0..(Duration + 1) : Seek(sec)

Spec == Init /\ [][Next]_cvars

\* The code of the decoder goes on; reads need not fail.
FairSpec == Spec /\ WF_cvars(CodecStep)

-----------------------------------------------------------------------------
\* The samples there are to hear: those of the frames that are not damaged.
Sound == {n \in 1..Total : FrameOfSample(n) \notin broken}

\* s is sound from sample n on, each sample once and in order.
Ascends(n, s) ==
    /\ \A i \in 1..Len(s) : s[i] \in Sound /\ s[i] >= n
    /\ \A i \in 1..(Len(s) - 1) : s[i] < s[i + 1]

\* None is left out of it but the damaged.
NoneMissing(n, s) ==
    s # << >> => {m \in Sound : m >= n /\ m <= Last(s)} \subseteq {s[i] : i \in 1..Len(s)}

\* The song is decoded in order, each sample once, over however many calls
\* with however little room, and no call gives more than it was asked for:
\* decoder.h:81-93 and the assert() at player.cc:124.  Excepted are Musepack
\* (RestIsSound), packed sound of FFmpeg (PackedSound), and what Speex loses
\* to a failed read or has kept over a seek.
SoundInOrder ==
    call = "none" =>
        /\ Len(out) <= room
        /\ fill <= BufLen
        /\ codec \notin {"MPC", "PACKED"} /\ ~(codec = "SPX" /\ strayed) /\ due > 0 =>
              /\ Ascends(due, out)
              /\ (codec = "SPX" /\ failed > 0) \/ NoneMissing(due, out)

\* How far from the first sample of the second a seek may lead: FFmpeg and
\* Musepack begin with the whole packet; FLAC and MP3 reckon with the length
\* in whole seconds, MP3 with the next frame whole and two more muted; and
\* damaged frames are passed over.
Early == IF codec \in {"FFMPEG", "OPUS", "MPC"} THEN FrameLen - 1 ELSE 0
Late  == CASE codec = "FLAC" -> Rate [] codec = "MP3" -> Rate + 3 * FrameLen [] OTHER -> 0
Passed == {f \in broken : goal * Rate < f * FrameLen /\ f * FrameLen < Head(out)}

\* After a seek the sound is that of the second seek() said it went to, no
\* farther off than that, and with nothing from before (decoder.h:101, "The
\* position that we actually seek to"; mp3.cc:464-495, flac.cc:167-183,
\* ffmpeg.cc:473-497, vorbis.cc:162, musepack.cc:76, modplug.cc:109).  Speex
\* first gives the rest of the packet it was in, and is left out.
SeekLands ==
    call = "none" /\ due = 0 /\ out # << >> /\ codec # "SPX" /\ Head(out) # 0 =>
        Head(out) - (goal * Rate + 1) \in (-Early)..(Late + Cardinality(Passed) * FrameLen)

Given == IF out = << >> THEN due - 1 ELSE Last(out)

\* The end of the song is told when all of it has been given: a decode()
\* that gives nothing, without a fatal error, comes after the last sample
\* (decoder.h:93, "Number of bytes written or 0 on EOF").  Known to fall
\* short: MP3 by its last frame, Speex after a seek that failed, Musepack,
\* and packed sound of FFmpeg.
EndIsEnd ==
    done /\ err = "ok" /\ due > 0 /\ failed = 0 /\ ~strayed /\ codec \notin {"MPC", "PACKED"} =>
        \A n \in Sound : n <= Given \/ (codec = "MP3" /\ FrameOfSample(n) = Frames)

\* Every call of decode() and seek() returns (ffmpeg.cc:349-459,
\* aac.cc:366-369, speex.cc:379-441 and 458-525), though reads fail, once or
\* often.  Excepted are the codecs of FFmpeg that keep a frame, at the end of
\* the song; Speex when reads go on failing for ever, for get_more_data()
\* does not tell; and calls that corrupt the memory.
CallsEnd ==
    call # "none" /\ codec # "OPUS" ~>
        call \in {"none", "ub"} \/ (codec = "SPX" /\ Unreadable)

-----------------------------------------------------------------------------
\* The end of a song whose codec keeps a frame is told: ffmpeg.cc:350 reads
\* "empty packet if flushing delayed samples".
DelayedSongEnds == call = "decode" ~> call = "none"

\* What is left of a frame is the sound that comes next (musepack.cc:143).
RestIsSound == call = "none" /\ due > 0 => Ascends(due, out) /\ NoneMissing(due, out)

\* All of the song is given: "0 on EOF" (decoder.h:93).
WholeSong == done /\ err = "ok" /\ due > 0 /\ failed = 0 => \A n \in Sound : n <= Given
=============================================================================
