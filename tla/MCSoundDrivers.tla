--------------------------- MODULE MCSoundDrivers ----------------------------
(* All four drivers; ALSA's device holds a chunk and a frame.  And every   *)
(* conversion from the sounds that the decoders give to the formats that   *)
(* the drivers report, with the samples at the ends of their ranges.       *)
EXTENDS SoundDrivers, SoundConversion

Builds == {"ALSA", "JACK", "OSS", "SNDIO"}

\* flac.cc:194-196 and mp3.cc:447; aac.cc:354, ffmpeg.cc:275-332, speex.cc:456,
\* vorbis.cc:204, wavpack.cc:107-122; musepack.cc:146 and sndfile.cc:148.
Decoded == {<<"S8", {}>>, <<"S16", {"LE"}>>, <<"S32", {"LE"}>>, <<"FLOAT", {}>>}
           \cup ({"S8", "U8", "S16", "S32", "FLOAT"} \X {{NE}})
Songs == {[fmt |-> d[1], bits |-> d[2], rate |-> r, channels |-> c] :
             d \in Decoded, r \in {1, 2}, c \in {1, 2}}

\* jack.cc:89, null_out.cc:22, sndio_out.cc:33, and what ALSA's and OSS's
\* devices may know.
Devices == {[formats |-> f[1], bits |-> f[2], min |-> m, max |-> 2] :
               m \in {1, 2},
               f \in {<<{"FLOAT"}, {}>>, <<{"S8", "S16"}, {"LE"}>>, <<{"S8", "S16"}, {"BE"}>>,
                      <<{"S8", "U8", "S16", "U16"}, {NE}>>, <<{"S8", "U8"}, {NE}>>,
                      <<{"S16", "S32"}, {"LE", "BE"}>>, <<{"S32"}, {"BE"}>>}}

Extremes(f) == IF f = "FLOAT" THEN {-Full - 1, -Full, -Full \div 2, -1, 0, 1, Full - 1, Full, Full + 1}
               ELSE {Zero(f) + d : d \in {-Half(f), -Half(f) \div 2, -1, 0, 1, Half(f) - 1}}

Sound(p, v) == [fmt |-> p.fmt, bits |-> p.bits, samples |-> 4, value |-> v, ok |-> TRUE,
                order |-> IF p.fmt = "FLOAT" \/ p.bits = {} THEN NE ELSE CHOOSE b \in p.bits : TRUE]

ConvertsRightly(from, to, v, down) ==
    LET t == IF NeedsConversion(from, to)
             THEN AudioConv([from |-> from, to |-> to, rest |-> 2], Sound(from, v),
                            [frames |-> 4, value |-> v], down)
             ELSE Sound(from, v)
    IN  /\ t.fmt = to.fmt /\ t.bits = to.bits /\ t.ok /\ t.value \in Values(to.fmt)
        /\ t.fmt \in Sixteen \cup ThirtyTwo => t.bits = {t.order}
        /\ from.rate = to.rate /\ from.fmt \in Fixed =>
               Level(from.fmt, v) - Level(to.fmt, t.value) \in (-1)..Grain(to.fmt)
        /\ \A percent \in {0, 100, 200} :
               SoftMixed(t, percent, FALSE).value \in Values(to.fmt)

ASSUME ConversionsRight ==
    \A from \in Songs, caps \in Devices, rate \in {1, 2}, down \in {0, 1} :
        LET to == DriverParams(caps, from, rate) IN
        CanConvert(from, to) => \A v \in Extremes(from.fmt) : ConvertsRightly(from, to, v, down)

ASSUME MixedInRange ==
    \A f \in Fixed, percent \in {0, 50, 100, 200} :
        \A v \in Extremes(f) : Louder(f, v, percent) \in Values(f)
=============================================================================
