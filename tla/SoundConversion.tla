--------------------------- MODULE SoundConversion ---------------------------
(***************************************************************************)
(* What becomes of the sound of a song on its way to the device: the       *)
(* device's parameters (audio_open() in server/audio.cc), the conversion   *)
(* to them (output/audio_conversion.cc) and the mixing in software         *)
(* (output/softmixer.cc).                                                  *)
(*                                                                         *)
(* A sound is the format and the endianness bits the program takes it for, *)
(* the order its bytes really have, the number of its samples, and one     *)
(* sample that stands for all.  A float is in units of 2^-23, the last bit *)
(* of the 24-bit formats; .ok is FALSE once the code has read samples in   *)
(* the other byte order or worked past the end of a buffer.                *)
(***************************************************************************)
EXTENDS Integers

CONSTANT NE    \* SFMT_NE, the byte order of the machine

ASSUME NEAssumption == NE \in {"LE", "BE"}

Eight     == {"S8", "U8"}
Sixteen   == {"S16", "U16"}
ThirtyTwo == {"S32", "U32"}
Unsigned  == {"U8", "U16", "U32"}
Fixed     == Eight \cup Sixteen \cup ThirtyTwo
Format    == Fixed \cup {"FLOAT"}
Bits      == SUBSET {"LE", "BE"}

Width(f) == CASE f \in Eight -> 1 [] f \in Sixteen -> 2 [] OTHER -> 4

SameWidth(f, g) ==
    \/ {f, g} \subseteq Eight
    \/ {f, g} \subseteq Sixteen
    \/ {f, g} \subseteq ThirtyTwo
    \/ f = "FLOAT" /\ g = "FLOAT"

OtherSign(f) ==
    CASE f = "S8"  -> "U8"  [] f = "U8"  -> "S8"
      [] f = "S16" -> "U16" [] f = "U16" -> "S16"
      [] f = "S32" -> "U32" [] f = "U32" -> "S32"

-----------------------------------------------------------------------------
(* The device's parameters                                                 *)

\* sound_format_ok()
FormatOk(f, bits) == f \in Eight \cup {"FLOAT"} \/ bits # {}

Params == {p \in [fmt : Format, bits : Bits, rate : Nat \ {0}, channels : Nat \ {0}] :
              FormatOk(p.fmt, p.bits) /\ p.bits # {"LE", "BE"}}

\* What audio_initialize() lets pass.
Caps == {c \in [formats : SUBSET Format, bits : Bits, min : Nat \ {0}, max : Nat \ {0}] :
            /\ c.formats # {} /\ c.min <= c.max
            /\ \E f \in c.formats : FormatOk(f, c.bits)}

\* The formats to try, best first, when the device lacks the one asked for.
Preferred(req) ==
    CASE req \in Eight   -> <<"S8", "U8", "S16", "U16", "S32", "U32", "FLOAT">>
      [] req \in Sixteen -> <<"S16", "U16", "S32", "U32", "FLOAT", "S8", "U8">>
      [] OTHER           -> <<"S32", "U32", "S16", "U16", "FLOAT", "S8", "U8">>

FirstOf(order, formats) ==
    order[CHOOSE i \in 1..7 : order[i] \in formats /\ \A j \in 1..(i - 1) : order[j] \notin formats]

BestMatching(formats, req) ==
    IF req \in formats THEN req ELSE FirstOf(Preferred(req), formats)

BestBits(f, bits) ==
    IF f \in Eight THEN {} ELSE IF bits = {"LE", "BE"} THEN {NE} ELSE bits

Clamped(lo, n, hi) == IF n < lo THEN lo ELSE IF n > hi THEN hi ELSE n

\* audio_open(): the device may have chosen another rate than it was asked for.
DriverParams(caps, req, rate) ==
    LET best == BestMatching(caps.formats, req.fmt)
    IN  [fmt |-> best, bits |-> BestBits(best, caps.bits), rate |-> rate,
         channels |-> Clamped(caps.min, req.channels, caps.max)]

RateCompat(sound, device) == 105 * device >= 100 * sound /\ 95 * device <= 100 * sound

NeedsConversion(from, to) ==
    \/ from.fmt # to.fmt \/ from.bits # to.bits
    \/ from.channels # to.channels
    \/ ~RateCompat(from.rate, to.rate)

\* audio_conv_new(), where the resampler has nothing against the rates.
CanConvert(from, to) ==
    from.channels = to.channels \/ (from.channels = 1 /\ to.channels = 2)

-----------------------------------------------------------------------------
(* Samples                                                                 *)
Full == 8388608    \* 1.0

Half(f) == IF f \in Eight THEN 128 ELSE IF f \in Sixteen THEN 32768 ELSE Full
Grain(f) == IF f \in Eight THEN 65536 ELSE IF f \in Sixteen THEN 256 ELSE 1
Zero(f) == IF f \in Unsigned THEN Half(f) ELSE 0

Values(f) == IF f = "FLOAT" THEN Int ELSE (Zero(f) - Half(f))..(Zero(f) + Half(f) - 1)

\* The float that a sample is.
Level(f, v) == (v - Zero(f)) * Grain(f)

\* float_to_s32() scales by 2^23 - 1 and rounds: it comes out with the number
\* it was given or, if down is 1, with the next one towards zero.
Scaled(x, down) ==
    IF x > 0 THEN x - down ELSE IF x = 0 THEN 0 ELSE IF x < -Full THEN -Full ELSE x + down

Quantised(x, f, down) ==
    Zero(f) + IF x >= Full THEN Half(f) - 1
              ELSE IF f \in ThirtyTwo THEN Scaled(x, down)
              ELSE IF x <= -Full THEN -Half(f)
              ELSE x \div Grain(f)

-----------------------------------------------------------------------------
(* The steps of audio_conv()                                               *)
SoundStates == [fmt : Format, bits : Bits, order : {"LE", "BE"}, samples : Nat,
           value : Int, ok : BOOLEAN]

Flipped(order) == IF order = "LE" THEN "BE" ELSE "LE"
Readable(s) == s.fmt \in Eight \/ s.order = NE

SwapEndian(s) ==
    IF s.fmt \in Eight \cup {"FLOAT"} THEN s ELSE [s EXCEPT !.order = Flipped(@)]

ToNative(s) == IF NE \in s.bits THEN s ELSE [SwapEndian(s) EXCEPT !.bits = {NE}]

\* s32_to_s16() and u32_to_u16()
Narrowed(conv, s) ==
    IF s.fmt \in ThirtyTwo /\ conv.to.fmt \in Sixteen /\ conv.from.rate = conv.to.rate
    THEN [s EXCEPT !.fmt = IF s.fmt = "S32" THEN "S16" ELSE "U16",
                   !.value = @ \div 256, !.ok = @ /\ Readable(s)]
    ELSE s

FixedToFloat(s) ==
    [s EXCEPT !.fmt = "FLOAT", !.order = NE, !.value = Level(s.fmt, @), !.ok = @ /\ Readable(s)]

Floated(conv, s) ==
    IF /\ s.fmt # "FLOAT"
       /\ \/ conv.from.rate # conv.to.rate
          \/ conv.to.fmt = "FLOAT"
          \/ ~SameWidth(conv.to.fmt, s.fmt)
    THEN FixedToFloat(s)
    ELSE s

\* resample_sound() makes room for whole frames: of the device's channels,
\* though the sound of a mono song has not been doubled yet.
FramesIn(n, samples, rest) == samples \div n + rest \div n

Resampled(conv, s, got) ==
    IF conv.from.rate = conv.to.rate THEN s
    ELSE LET n == conv.to.channels IN
         [s EXCEPT !.samples = got.frames * n, !.value = got.value,
                   !.ok = @ /\ conv.rest + s.samples <= n * FramesIn(n, s.samples, conv.rest)]

\* Changes the sign in the first size bytes of the sound.
ChangeSign(s, size) ==
    [s EXCEPT !.fmt = OtherSign(@),
              !.value = IF s.fmt \in Unsigned THEN @ - Half(s.fmt) ELSE @ + Half(s.fmt),
              !.ok = @ /\ Readable(s) /\ size <= s.samples * Width(s.fmt)]

\* The endianness bits of the device are added to those there are.
FloatToFixed(s, to, down) ==
    [s EXCEPT !.fmt = to.fmt, !.bits = @ \cup to.bits, !.value = Quantised(@, to.fmt, down),
              !.ok = @ /\ s.fmt = "FLOAT"]

\* size is that of the sound the conversion was given.
Formatted(conv, s, size, down) ==
    IF s.fmt = conv.to.fmt THEN s
    ELSE IF SameWidth(s.fmt, conv.to.fmt) THEN ChangeSign(s, size)
    ELSE FloatToFixed(s, conv.to, down)

Ordered(conv, s) ==
    IF s.bits = conv.to.bits THEN s ELSE [SwapEndian(s) EXCEPT !.bits = conv.to.bits]

Doubled(conv, s) ==
    IF conv.from.channels = 1 /\ conv.to.channels = 2 THEN [s EXCEPT !.samples = 2 * @] ELSE s

\* got is what the resampler makes of the sound, down how samples are rounded.
InFloat(conv, s) == Floated(conv, Narrowed(conv, ToNative(s)))

AudioConv(conv, s, got, down) ==
    LET resampled == Resampled(conv, InFloat(conv, s), got)
        formatted == Formatted(conv, resampled, s.samples * Width(s.fmt), down)
    IN  Doubled(conv, Ordered(conv, formatted))

-----------------------------------------------------------------------------
(* The mixing in software, in percent                                      *)
Quotient(n, d) == IF n >= 0 THEN n \div d ELSE -((-n) \div d)

\* The middle of unsigned numbers is taken to be half the greatest one; the
\* least float is the least one above zero (softmixer.cc:46, 60).
Middle(f) == IF f = "U32" THEN Half(f) ELSE Half(f) - 1

Louder(f, v, percent) ==
    CASE f \in Unsigned ->
            Clamped(0, Quotient((v - Middle(f)) * percent, 100) + Middle(f), 2 * Half(f) - 1)
      [] f = "FLOAT" -> Clamped(0, Quotient(v * percent, 100), Full)
      [] OTHER -> Clamped(-Half(f), Quotient(v * percent, 100), Half(f) - 1)

\* do_endian is never true for samples of several bytes (softmixer.cc:87), so
\* they are read as they are.  To mix equal channels to one changes nothing.
SoftMixed(s, percent, mono) ==
    IF percent = 100 /\ ~mono THEN s
    ELSE [s EXCEPT !.value = Louder(s.fmt, @, percent), !.ok = @ /\ Readable(s)]
=============================================================================
