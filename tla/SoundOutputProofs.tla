--------------------------- MODULE SoundOutputProofs ---------------------------
(***************************************************************************)
(* Proofs about the sound on its way out.  What the conversion promises,   *)
(* for every sound and device; and, whatever the sizes of the buffers, of  *)
(* the device's and of what there is to play, the types of the drivers,    *)
(* that they keep the sound whole and in order, and JACK its two channels  *)
(* in step.                                                                *)
(***************************************************************************)
EXTENDS SoundConversion, SoundDrivers, SequenceLemmas

-----------------------------------------------------------------------------
(* The conversion                                                          *)

\* The bits of a sound say how its bytes are ordered, where they matter; a
\* sound of floats is in the machine's order, whatever its bits.
BitsRight(s) ==
    /\ s.fmt \in Sixteen \cup ThirtyTwo => s.bits = {s.order}
    /\ s.fmt = "FLOAT" => s.order = NE

\* A conversion from one to the other, and a sound for it.
ConvOf(from, to, rest) == [from |-> from, to |-> to, rest |-> rest]
SoundOf(s, p) == s \in SoundStates /\ s.fmt = p.fmt /\ s.bits = p.bits /\ BitsRight(s)

Outcomes == [frames : Nat, value : Int]

-----------------------------------------------------------------------------
(* sfmt_best_matching() returns a format that the device has (audio.cc:147 *)
(* asserts that it returns one).                                           *)
LEMMA BestIsThere ==
    ASSUME NEW formats \in SUBSET Format, formats # {}, NEW req \in Format
    PROVE  BestMatching(formats, req) \in formats
<1> DEFINE p == Preferred(req)
           Found(i) == p[i] \in formats /\ \A j \in 1..(i - 1) : p[j] \notin formats
<1>1. \A f \in Format : \E i \in 1..7 : p[i] = f
  BY DEF Preferred, Format, Fixed, Eight, Sixteen, ThirtyTwo
<1>2. PICK i \in 1..7 : p[i] \in formats
  BY <1>1
<1>3. \E k \in 1..7 : Found(k)
  <2>1. CASE p[1] \in formats
    BY <2>1
  <2>2. CASE p[1] \notin formats /\ p[2] \in formats
    BY <2>2
  <2>3. CASE p[1] \notin formats /\ p[2] \notin formats /\ p[3] \in formats
    BY <2>3
  <2>4. CASE p[1] \notin formats /\ p[2] \notin formats /\ p[3] \notin formats /\ p[4] \in formats
    BY <2>4
  <2>5. CASE /\ p[1] \notin formats /\ p[2] \notin formats /\ p[3] \notin formats
             /\ p[4] \notin formats /\ p[5] \in formats
    BY <2>5
  <2>6. CASE /\ p[1] \notin formats /\ p[2] \notin formats /\ p[3] \notin formats
             /\ p[4] \notin formats /\ p[5] \notin formats /\ p[6] \in formats
    BY <2>6
  <2>7. CASE /\ p[1] \notin formats /\ p[2] \notin formats /\ p[3] \notin formats
             /\ p[4] \notin formats /\ p[5] \notin formats /\ p[6] \notin formats
    BY <1>2, <2>7
  <2> QED BY <2>1, <2>2, <2>3, <2>4, <2>5, <2>6, <2>7
<1>4. p[CHOOSE k \in 1..7 : Found(k)] \in formats
  BY <1>3
<1> QED BY <1>4 DEF BestMatching, FirstOf

\* audio_open() asks for parameters that sound_format_ok() accepts, if the
\* device's endianness is known wherever it has wide samples.
LEMMA DriverParamsOk ==
    ASSUME NEW caps \in Caps, NEW req \in Params, NEW rate \in Nat \ {0},
           caps.bits # {} \/ caps.formats \subseteq Eight \cup {"FLOAT"}
    PROVE  DriverParams(caps, req, rate) \in Params
<1> DEFINE best == BestMatching(caps.formats, req.fmt)
<1>1. best \in caps.formats /\ best \in Format
  BY BestIsThere DEF Caps, Params
<1>2. BestBits(best, caps.bits) \in Bits /\ BestBits(best, caps.bits) # {"LE", "BE"}
  BY NEAssumption DEF BestBits, Bits, Caps
<1>3. FormatOk(best, BestBits(best, caps.bits))
  BY <1>1, NEAssumption DEF FormatOk, BestBits
<1>4. Clamped(caps.min, req.channels, caps.max) \in Nat \ {0}
  BY DEF Clamped, Caps, Params
<1> QED BY <1>1, <1>2, <1>3, <1>4 DEF DriverParams, Params

-----------------------------------------------------------------------------
(* The steps of audio_conv()                                               *)

LEMMA NativeSound ==
    ASSUME NEW s \in SoundStates, BitsRight(s)
    PROVE  /\ ToNative(s) \in SoundStates /\ NE \in ToNative(s).bits
           /\ ToNative(s).fmt = s.fmt /\ ToNative(s).value = s.value
           /\ ToNative(s).samples = s.samples /\ ToNative(s).ok = s.ok
           /\ Readable(ToNative(s))
           /\ s.bits # {"LE", "BE"} => ToNative(s).bits = {NE}
  BY NEAssumption
     DEF ToNative, SwapEndian, Flipped, SoundStates, Bits, Format, Fixed, Readable, BitsRight,
         Eight, Sixteen, ThirtyTwo

\* What the sound is when it is ready for the resampler.
LEMMA FloatedSound ==
    ASSUME NEW from \in Params, NEW to \in Params, NEW rest \in Nat, NEW s, SoundOf(s, from)
    PROVE  LET t == InFloat(ConvOf(from, to, rest), s) IN
           /\ t \in SoundStates /\ t.bits = {NE} /\ Readable(t) /\ t.ok = s.ok
           /\ t.samples = s.samples
           /\ t.fmt = IF from.rate # to.rate \/ to.fmt = "FLOAT" THEN "FLOAT"
                      ELSE IF SameWidth(from.fmt, to.fmt) THEN from.fmt
                      ELSE IF from.fmt = "S32" /\ to.fmt \in Sixteen THEN "S16"
                      ELSE IF from.fmt = "U32" /\ to.fmt \in Sixteen THEN "U16"
                      ELSE "FLOAT"
           /\ t.value = IF t.fmt = "FLOAT" /\ from.fmt # "FLOAT" THEN Level(from.fmt, s.value)
                        ELSE IF t.fmt \in Sixteen /\ from.fmt \in ThirtyTwo THEN s.value \div 256
                        ELSE s.value
<1> DEFINE conv == ConvOf(from, to, rest)
           n == ToNative(s)
           w == Narrowed(conv, n)
<1>0. /\ s \in SoundStates /\ s.fmt = from.fmt /\ s.bits = from.bits /\ from.bits # {"LE", "BE"}
      /\ from.fmt \in Format /\ to.fmt \in Format
  BY DEF SoundOf, Params
<1>1. /\ n \in SoundStates /\ n.bits = {NE} /\ n.fmt = from.fmt /\ n.value = s.value
      /\ n.samples = s.samples /\ n.ok = s.ok /\ Readable(n)
  BY <1>0, NativeSound DEF SoundOf
<1>2. CASE from.fmt \in ThirtyTwo /\ to.fmt \in Sixteen /\ from.rate = to.rate
  <2> DEFINE f == IF from.fmt = "S32" THEN "S16" ELSE "U16"
             v == s.value \div 256
  <2>1. w = [n EXCEPT !.fmt = f, !.value = v, !.ok = s.ok]
    <3>1. w = [n EXCEPT !.fmt = IF n.fmt = "S32" THEN "S16" ELSE "U16",
                        !.value = n.value \div 256, !.ok = n.ok /\ Readable(n)]
      BY <1>1, <1>2 DEF Narrowed, ConvOf
    <3>2. (n.ok /\ Readable(n)) = s.ok
      BY <1>1 DEF SoundStates
    <3> QED BY ZenonT(20), <3>1, <3>2, <1>1
  <2>2. f \in Sixteen /\ f \in Format /\ v \in Int
    BY <1>0 DEF SoundStates, Format, Fixed, Sixteen
  <2> HIDE DEF f, v, w, n
  <2>3. /\ w \in SoundStates /\ w.bits = {NE} /\ w.ok = s.ok /\ w.samples = s.samples
        /\ w.fmt = f /\ w.value = v /\ w.order = n.order
    BY <2>1, <2>2, <1>1 DEF SoundStates
  <2>3a. Readable(w)
    BY <2>3, <1>1, <1>2 DEF Readable, Eight, ThirtyTwo
  <2> USE DEF f, v, w, n
  <2>4. SameWidth(to.fmt, w.fmt) /\ w.fmt # "FLOAT" /\ to.fmt # "FLOAT"
    BY <2>2, <2>3, <1>2 DEF SameWidth, Sixteen
  <2>5. InFloat(conv, s) = w
    BY <2>4, <1>2 DEF InFloat, Floated, ConvOf
  <2> QED
    BY <2>2, <2>3, <2>3a, <2>5, <1>2 DEF SameWidth, Eight, Sixteen, ThirtyTwo
<1>3. CASE ~(from.fmt \in ThirtyTwo /\ to.fmt \in Sixteen /\ from.rate = to.rate)
  <2>1. w = n
    BY <1>1, <1>3 DEF Narrowed, ConvOf
  <2>2. CASE /\ from.fmt # "FLOAT"
             /\ from.rate # to.rate \/ to.fmt = "FLOAT" \/ ~SameWidth(to.fmt, from.fmt)
    <3>1. InFloat(conv, s) = FixedToFloat(n)
      BY <2>1, <2>2, <1>1 DEF InFloat, Floated, ConvOf
    <3>2. Level(from.fmt, s.value) \in Int
      BY <1>0, SMT DEF Level, Zero, Half, Grain, SoundStates, Full
    <3>3. FixedToFloat(n) = [n EXCEPT !.fmt = "FLOAT", !.order = NE, !.value = Level(from.fmt, s.value),
                                      !.ok = s.ok]
      BY <1>1 DEF FixedToFloat, SoundStates
    <3>4. /\ FixedToFloat(n) \in SoundStates /\ FixedToFloat(n).bits = {NE}
          /\ Readable(FixedToFloat(n)) /\ FixedToFloat(n).ok = s.ok
          /\ FixedToFloat(n).samples = s.samples /\ FixedToFloat(n).fmt = "FLOAT"
          /\ FixedToFloat(n).value = Level(from.fmt, s.value)
      BY <3>2, <3>3, <1>1, NEAssumption DEF SoundStates, Readable, Format
    <3> QED
      BY <3>1, <3>4, <2>2, <1>3, <1>0
         DEF SameWidth, Eight, Sixteen, ThirtyTwo, Format, Fixed
  <2>3. CASE ~(/\ from.fmt # "FLOAT"
               /\ from.rate # to.rate \/ to.fmt = "FLOAT" \/ ~SameWidth(to.fmt, from.fmt))
    <3>1. InFloat(conv, s) = n
      BY <2>1, <2>3, <1>1 DEF InFloat, Floated, ConvOf
    <3> QED
      BY <3>1, <1>1, <2>3, <1>3, <1>0
         DEF SameWidth, Eight, Sixteen, ThirtyTwo, Format, Fixed
  <2> QED BY <2>2, <2>3
<1> QED BY <1>2, <1>3

\* The resampler is given whole frames: what it has kept and what it gets are
\* multiples of the device's channels.
WholeFrames(s, rest, n) == \E a, b \in Nat : s.samples = n * a /\ rest = n * b

LEMMA RoomForFrames ==
    ASSUME NEW n \in Nat \ {0}, NEW samples \in Nat, NEW rest \in Nat,
           \E a, b \in Nat : samples = n * a /\ rest = n * b
    PROVE  rest + samples <= n * FramesIn(n, samples, rest)
<1>1. PICK a \in Nat, b \in Nat : samples = n * a /\ rest = n * b
  OBVIOUS
<1>2. \A k \in Nat : (n * k) \div n = k
  OBVIOUS
<1>3. FramesIn(n, samples, rest) = a + b
  BY <1>1, <1>2 DEF FramesIn
<1>4. n * (a + b) = n * a + n * b
  OBVIOUS
<1> QED BY <1>1, <1>3, <1>4

LEMMA ResampledSound ==
    ASSUME NEW from \in Params, NEW to \in Params, NEW rest \in Nat, NEW s \in SoundStates,
           NEW got \in Outcomes
    PROVE  LET t == Resampled(ConvOf(from, to, rest), s, got) IN
           /\ t \in SoundStates /\ t.fmt = s.fmt /\ t.bits = s.bits /\ t.order = s.order
           /\ from.rate = to.rate => t = s
           /\ s.ok /\ WholeFrames(s, rest, to.channels) => t.ok
<1> DEFINE t == Resampled(ConvOf(from, to, rest), s, got)
           n == to.channels
<1>1. CASE from.rate = to.rate
  BY <1>1 DEF Resampled, ConvOf
<1>2. CASE from.rate # to.rate
  <2> DEFINE k == got.frames * n
             fits == rest + s.samples <= n * FramesIn(n, s.samples, rest)
             ok == s.ok /\ fits
  <2>1. t = [s EXCEPT !.samples = k, !.value = got.value, !.ok = ok]
    BY <1>2 DEF Resampled, ConvOf
  <2>2. k \in Nat /\ got.value \in Int /\ ok \in BOOLEAN
    BY DEF Params, Outcomes
  <2>3. s.ok /\ WholeFrames(s, rest, n) => ok
    BY RoomForFrames DEF WholeFrames, SoundStates, Params
  <2> HIDE DEF k, ok, t
  <2>4. /\ t \in SoundStates /\ t.fmt = s.fmt /\ t.bits = s.bits /\ t.order = s.order
        /\ t.ok = ok
    BY <2>1, <2>2 DEF SoundStates
  <2> USE DEF t
  <2> QED BY <1>2, <2>3, <2>4
<1> QED BY <1>1, <1>2

\* What the last steps make of sound s: sign or format, byte order, channels.
Delivered(from, to, conv, s, size, down) ==
    LET f == Formatted(conv, s, size, down)
        t == Doubled(conv, Ordered(conv, f))
    IN  /\ t.fmt = to.fmt /\ t.bits = to.bits /\ BitsRight(t)
        /\ t.value = f.value
        /\ t.samples = IF from.channels = 1 /\ to.channels = 2 THEN 2 * s.samples ELSE s.samples
        /\ s.ok /\ (s.fmt # to.fmt /\ s.fmt # "FLOAT" => size <= s.samples * Width(s.fmt)) => t.ok

LEMMA FormattedSound ==
    ASSUME NEW from \in Params, NEW to \in Params, NEW rest \in Nat, NEW s \in SoundStates,
           NEW size \in Nat, NEW down \in {0, 1},
           s.bits = {NE}, Readable(s),
           s.fmt = to.fmt \/ SameWidth(s.fmt, to.fmt) \/ s.fmt = "FLOAT"
    PROVE  Delivered(from, to, ConvOf(from, to, rest), s, size, down)
<1> DEFINE conv == ConvOf(from, to, rest)
           f == Formatted(conv, s, size, down)
           o == Ordered(conv, f)
           t == Doubled(conv, o)
           Goal == /\ t.fmt = to.fmt /\ t.bits = to.bits /\ BitsRight(t)
                   /\ t.value = f.value
                   /\ t.samples = IF from.channels = 1 /\ to.channels = 2 THEN 2 * s.samples ELSE s.samples
                   /\ s.ok /\ (s.fmt # to.fmt /\ s.fmt # "FLOAT" => size <= s.samples * Width(s.fmt)) => t.ok
<1>0. /\ to.fmt \in Format /\ to.bits \in Bits /\ to.bits # {"LE", "BE"} /\ FormatOk(to.fmt, to.bits)
      /\ conv.to = to /\ conv.from = from
  BY DEF Params, ConvOf
<1>1. /\ f = [fmt |-> f.fmt, bits |-> f.bits, order |-> f.order, samples |-> f.samples,
              value |-> f.value, ok |-> f.ok]
      /\ f.fmt = to.fmt /\ f.order = s.order /\ f.samples = s.samples
      /\ f.bits = {NE} \/ f.bits = {NE} \cup to.bits
      /\ s.ok /\ (s.fmt # to.fmt /\ s.fmt # "FLOAT" => size <= s.samples * Width(s.fmt)) => f.ok
      /\ f.fmt \in Eight \/ f.order = NE
  <2>1. CASE s.fmt = to.fmt
    BY <2>1, <1>0 DEF Formatted, SoundStates, Readable
  <2>2. CASE s.fmt # to.fmt /\ SameWidth(s.fmt, to.fmt)
    <3> DEFINE v == IF s.fmt \in Unsigned THEN s.value - Half(s.fmt) ELSE s.value + Half(s.fmt)
               ok == s.ok /\ Readable(s) /\ size <= s.samples * Width(s.fmt)
    <3>1. f = [s EXCEPT !.fmt = OtherSign(s.fmt), !.value = v, !.ok = ok]
      BY <2>2, <1>0 DEF Formatted, ChangeSign
    <3>2. OtherSign(s.fmt) = to.fmt /\ s.fmt # "FLOAT"
      BY <2>2 DEF SameWidth, OtherSign, Eight, Sixteen, ThirtyTwo
    <3>3. s.fmt \in Eight => to.fmt \in Eight
      BY <2>2 DEF SameWidth, Eight, Sixteen, ThirtyTwo
    <3> HIDE DEF v, ok, f
    <3>4. /\ f = [fmt |-> to.fmt, bits |-> s.bits, order |-> s.order, samples |-> s.samples,
                  value |-> v, ok |-> ok]
      BY <3>1, <3>2 DEF SoundStates
    <3> USE DEF ok
    <3> QED BY <3>2, <3>3, <3>4, <2>2 DEF Readable
  <2>3. CASE s.fmt # to.fmt /\ ~SameWidth(s.fmt, to.fmt)
    <3> DEFINE b == s.bits \cup to.bits
               v == Quantised(s.value, to.fmt, down)
               ok == s.ok /\ s.fmt = "FLOAT"
    <3>1. f = [s EXCEPT !.fmt = to.fmt, !.bits = b, !.value = v, !.ok = ok]
      BY <2>3, <1>0 DEF Formatted, FloatToFixed
    <3> HIDE DEF v, ok, f, b
    <3>4. /\ f = [fmt |-> to.fmt, bits |-> b, order |-> s.order, samples |-> s.samples,
                  value |-> v, ok |-> ok]
      BY <3>1 DEF SoundStates
    <3> USE DEF ok, b
    <3> QED BY <3>4, <2>3 DEF Readable, Eight
  <2> QED BY <2>1, <2>2, <2>3
<1> HIDE DEF f
<1>2. /\ o.fmt = to.fmt /\ o.bits = to.bits /\ BitsRight(o)
      /\ o.value = f.value /\ o.samples = f.samples /\ o.ok = f.ok
      /\ o = [fmt |-> o.fmt, bits |-> o.bits, order |-> o.order, samples |-> o.samples,
              value |-> o.value, ok |-> o.ok]
  <2>1. CASE f.bits = to.bits
    <3>1. o = f
      BY <2>1, <1>0 DEF Ordered
    <3>2. f.fmt \in Sixteen \cup ThirtyTwo => f.bits = {f.order}
      BY <1>0, <1>1, <2>1, NEAssumption
         DEF FormatOk, Bits, Eight, Sixteen, ThirtyTwo
    <3>3. f.fmt = "FLOAT" => f.order = NE
      BY <1>1 DEF Eight
    <3> QED BY <3>1, <3>2, <3>3, <1>1, <2>1 DEF BitsRight
  <2>2. CASE f.bits # to.bits
    <3>1. o = [SwapEndian(f) EXCEPT !.bits = to.bits]
      BY <2>2, <1>0 DEF Ordered
    <3>2. CASE f.fmt \in Eight \cup {"FLOAT"}
      <4>1. o = [f EXCEPT !.bits = to.bits]
        BY <3>1, <3>2 DEF SwapEndian
      <4>2. o = [fmt |-> f.fmt, bits |-> to.bits, order |-> f.order, samples |-> f.samples,
                 value |-> f.value, ok |-> f.ok]
        BY <4>1, <1>1
      <4> QED BY <4>2, <1>1, <3>2 DEF BitsRight, Eight, Sixteen, ThirtyTwo
    <3>3. CASE f.fmt \notin Eight \cup {"FLOAT"}
      <4>1. o = [[f EXCEPT !.order = Flipped(f.order)] EXCEPT !.bits = to.bits]
        BY <3>1, <3>3 DEF SwapEndian
      <4>2. o = [fmt |-> f.fmt, bits |-> to.bits, order |-> Flipped(f.order), samples |-> f.samples,
                 value |-> f.value, ok |-> f.ok]
        BY <4>1, <1>1
      <4>3. to.bits = {Flipped(f.order)}
        <5>1. to.bits = {"LE"} \/ to.bits = {"BE"}
          BY <1>0, <1>1, <3>3 DEF FormatOk, Bits
        <5>2. f.order = NE /\ to.bits # {NE}
          BY <1>1, <2>2, <3>3, <5>1
        <5> QED BY <5>1, <5>2, NEAssumption DEF Flipped
      <4> QED BY <4>2, <4>3, <1>1, <3>3 DEF BitsRight
    <3> QED BY <3>2, <3>3
  <2> QED BY <2>1, <2>2
<1> HIDE DEF o
<1>3. ASSUME from.channels = 1 /\ to.channels = 2 PROVE Goal
  <2>1. t = [o EXCEPT !.samples = 2 * o.samples]
    BY <1>3, <1>0 DEF Doubled
  <2>2. t = [fmt |-> o.fmt, bits |-> o.bits, order |-> o.order, samples |-> 2 * o.samples,
             value |-> o.value, ok |-> o.ok]
    BY <2>1, <1>2
  <2> QED BY <2>2, <1>1, <1>2, <1>3 DEF BitsRight, ConvOf
<1>4. ASSUME ~(from.channels = 1 /\ to.channels = 2) PROVE Goal
  <2>1. t = o
    BY <1>4, <1>0 DEF Doubled
  <2> QED BY <2>1, <1>1, <1>2, <1>4
<1>5. Goal
  BY <1>3, <1>4
<1> QED BY <1>5 DEF Delivered, f, o

-----------------------------------------------------------------------------
(* The conversion as a whole                                               *)

\* 24-bit samples cut to 16 bits that need the other sign: change_sign() is
\* told the size they had before (audio_conversion.cc:692).
CutAndFlipped(from, to) ==
    /\ from.rate = to.rate
    /\ \/ from.fmt = "S32" /\ to.fmt = "U16"
       \/ from.fmt = "U32" /\ to.fmt = "S16"

\* Whatever the song and the device, the sound comes out in the format, the
\* byte order and the channels that the device was opened with; and the code
\* reads no sample in the wrong order and no byte that is not there, except
\* for CutAndFlipped() and for resampled sounds that are no whole frames of
\* the device (audio_conv(), whose steps assert part of this).
THEOREM DeviceGetsItsFormat ==
    ASSUME NEW from \in Params, NEW to \in Params, NEW rest \in Nat, NEW s, SoundOf(s, from),
           NEW got \in Outcomes, NEW down \in {0, 1}
    PROVE  LET t == AudioConv(ConvOf(from, to, rest), s, got, down) IN
           /\ t.fmt = to.fmt /\ t.bits = to.bits /\ BitsRight(t)
           /\ from.rate = to.rate /\ from.channels = to.channels => t.samples = s.samples
           /\ /\ s.ok /\ ~CutAndFlipped(from, to)
              /\ from.rate = to.rate \/ WholeFrames(s, rest, to.channels)
              => t.ok
<1> DEFINE conv == ConvOf(from, to, rest)
           n == InFloat(conv, s)
           r == Resampled(conv, n, got)
           size == s.samples * Width(s.fmt)
           t == AudioConv(conv, s, got, down)
<1>0. s \in SoundStates /\ s.fmt = from.fmt /\ from.fmt \in Format /\ to.fmt \in Format
  BY DEF SoundOf, Params
<1>1. /\ n \in SoundStates /\ n.bits = {NE} /\ Readable(n) /\ n.ok = s.ok /\ n.samples = s.samples
      /\ n.fmt = IF from.rate # to.rate \/ to.fmt = "FLOAT" THEN "FLOAT"
                 ELSE IF SameWidth(from.fmt, to.fmt) THEN from.fmt
                 ELSE IF from.fmt = "S32" /\ to.fmt \in Sixteen THEN "S16"
                 ELSE IF from.fmt = "U32" /\ to.fmt \in Sixteen THEN "U16"
                 ELSE "FLOAT"
  BY FloatedSound
<1> HIDE DEF n
<1>2. /\ r \in SoundStates /\ r.fmt = n.fmt /\ r.bits = {NE} /\ r.order = n.order
      /\ from.rate = to.rate => r = n
      /\ n.ok /\ WholeFrames(n, rest, to.channels) => r.ok
  BY <1>1, ResampledSound
<1>3. Readable(r)
  BY <1>1, <1>2 DEF Readable
<1>4. r.fmt = to.fmt \/ SameWidth(r.fmt, to.fmt) \/ r.fmt = "FLOAT"
  BY <1>1, <1>2 DEF SameWidth, Sixteen
<1>5. size \in Nat
  BY <1>0 DEF SoundStates, Width
<1>6. s.ok /\ (from.rate = to.rate \/ WholeFrames(s, rest, to.channels)) => r.ok
  BY <1>1, <1>2 DEF WholeFrames
<1>7. ~CutAndFlipped(from, to) /\ r.fmt # to.fmt /\ r.fmt # "FLOAT" => size <= r.samples * Width(r.fmt)
  <2>1. SUFFICES ASSUME ~CutAndFlipped(from, to), r.fmt # to.fmt, r.fmt # "FLOAT"
                 PROVE  size <= r.samples * Width(r.fmt)
    OBVIOUS
  <2>2. from.rate = to.rate /\ r = n
    BY <1>1, <1>2, <2>1
  <2>3. r.fmt = from.fmt
    BY <2>1, <2>2, <1>1 DEF CutAndFlipped, Sixteen
  <2> QED BY <2>2, <2>3, <1>0, <1>1 DEF SoundStates, Width
<1> HIDE DEF r, size
<1>8. Delivered(from, to, ConvOf(from, to, rest), r, size, down)
  <2>1. r.bits = {NE} /\ r \in SoundStates
    BY <1>2
  <2> QED BY <2>1, <1>3, <1>4, <1>5, FormattedSound
<1>9. t = Doubled(conv, Ordered(conv, Formatted(conv, r, size, down)))
  BY DEF AudioConv, r, n, size
<1> HIDE DEF t
<1>10. /\ t.fmt = to.fmt /\ t.bits = to.bits /\ BitsRight(t)
       /\ t.samples = IF from.channels = 1 /\ to.channels = 2 THEN 2 * r.samples ELSE r.samples
       /\ r.ok /\ (r.fmt # to.fmt /\ r.fmt # "FLOAT" => size <= r.samples * Width(r.fmt)) => t.ok
  BY <1>8, <1>9 DEF Delivered
<1>11. from.rate = to.rate /\ from.channels = to.channels => t.samples = s.samples
  BY <1>1, <1>2, <1>10
<1> HIDE DEF conv
<1> QED BY <1>6, <1>7, <1>10, <1>11 DEF t, conv

LEMMA FullIs == Full = 8388608
  BY SMT DEF Full

LEMMA LevelOfNarrow ==
    ASSUME NEW f \in Eight \cup Sixteen, NEW v \in Values(f)
    PROVE  /\ Level(f, v) \in Int /\ -Full <= Level(f, v) /\ Level(f, v) < Full
           /\ \E k \in Int : Level(f, v) = 256 * k
<1>1. CASE f \in Eight
  <2>1. Half(f) = 128 /\ Grain(f) = 65536 /\ f # "FLOAT" /\ Zero(f) \in Int
    BY <1>1 DEF Half, Grain, Zero, Eight
  <2> DEFINE d == v - Zero(f)
  <2>2. d \in Int /\ -128 <= d /\ d <= 127
    BY <2>1 DEF Values
  <2>3. Level(f, v) = 256 * (256 * d) /\ 256 * d \in Int
    BY <2>1, <2>2 DEF Level
  <2> HIDE DEF d
  <2> QED BY <2>2, <2>3, FullIs, SMT
<1>2. CASE f \in Sixteen
  <2>1. Half(f) = 32768 /\ Grain(f) = 256 /\ f # "FLOAT" /\ Zero(f) \in Int
    BY <1>2 DEF Half, Grain, Zero, Eight, Sixteen
  <2> DEFINE d == v - Zero(f)
  <2>2. d \in Int /\ -32768 <= d /\ d <= 32767
    BY <2>1, SMT DEF Values
  <2>3. Level(f, v) = 256 * d
    BY <2>1, <2>2 DEF Level
  <2> HIDE DEF d
  <2> QED BY <2>2, <2>3, FullIs, SMT
<1> QED BY <1>1, <1>2

\* The levels of 24-bit samples are in the same range.
LEMMA LevelInRange ==
    ASSUME NEW f \in Fixed, NEW v \in Values(f)
    PROVE  /\ Level(f, v) \in Int /\ -Full <= Level(f, v) /\ Level(f, v) < Full
           /\ f \in Eight \cup Sixteen => \E k \in Int : Level(f, v) = 256 * k
<1>1. CASE f \in Eight \cup Sixteen
  BY <1>1, LevelOfNarrow
<1>2. CASE f \in ThirtyTwo
  <2>1. /\ Half(f) = Full /\ Grain(f) = 1 /\ f # "FLOAT" /\ Zero(f) \in Int /\ Full \in Int
        /\ f \notin Eight \cup Sixteen
    BY <1>2, FullIs DEF Half, Grain, Zero, Eight, Sixteen, ThirtyTwo
  <2>2. v \in (Zero(f) - Full)..(Zero(f) + Full - 1) /\ Level(f, v) = (v - Zero(f)) * 1
    BY <2>1 DEF Values, Level
  <2> QED BY <2>1, <2>2, SMT
<1> QED BY <1>1, <1>2 DEF Fixed

\* Changing the sign of a format changes no level.
LEMMA FlippedLevel ==
    ASSUME NEW f \in Fixed, NEW g \in Format, NEW v \in Values(f), NEW w, SameWidth(f, g) \/ f = g,
           w = IF f = g THEN v ELSE IF f \in Unsigned THEN v - Half(f) ELSE v + Half(f)
    PROVE  Level(g, w) = Level(f, v) /\ Level(f, v) - Level(g, w) = 0 /\ Grain(g) \in Nat
<1>1. /\ Half(f) \in Int /\ Grain(f) \in Nat /\ f # "FLOAT" /\ Half(g) = Half(f)
      /\ Grain(g) = Grain(f)
  BY FullIs DEF Half, Grain, SameWidth, Fixed, Eight, Sixteen, ThirtyTwo
<1>2. Zero(f) \in Int /\ Zero(g) \in Int /\ v \in Int
  BY <1>1 DEF Zero, Values
<1>3. w - Zero(g) = v - Zero(f)
  <2>1. CASE f = g
    BY <2>1
  <2>2. CASE f # g
    <3>1. f \in Unsigned <=> g \notin Unsigned
      BY <2>2 DEF SameWidth, Unsigned, Eight, Sixteen, ThirtyTwo
    <3>2. w = IF f \in Unsigned THEN v - Half(f) ELSE v + Half(f)
      BY <2>2
    <3> QED BY <3>1, <3>2, <1>1, <1>2 DEF Zero
  <2> QED BY <2>1, <2>2
<1>4. Level(g, w) = Level(f, v) /\ Level(f, v) \in Int
  <2>1. Level(g, w) = (v - Zero(f)) * Grain(f) /\ Level(f, v) = (v - Zero(f)) * Grain(f)
    BY <1>1, <1>3 DEF Level
  <2> QED BY <2>1, <1>1, <1>2, SMT
<1> QED BY <1>1, <1>4

\* Cutting 24 bits to 16 drops what 16 bits cannot tell apart.
LEMMA CutLevel ==
    ASSUME NEW f \in ThirtyTwo, NEW v \in Values(f), NEW g, g = IF f = "S32" THEN "S16" ELSE "U16"
    PROVE  /\ v \div 256 \in Values(g)
           /\ Level(f, v) - Level(g, v \div 256) \in Nat
           /\ Level(f, v) - Level(g, v \div 256) <= 256
<1> DEFINE c == v \div 256
<1>0. Full \in Int
  BY FullIs
<1>1. /\ Half(f) = Full /\ Grain(f) = 1 /\ Half(g) = 32768 /\ Grain(g) = 256
      /\ f # "FLOAT" /\ g # "FLOAT"
  BY SMT DEF Half, Grain, Eight, Sixteen, ThirtyTwo
<1>2. CASE f = "S32"
  <2>1. Zero(f) = 0 /\ Zero(g) = 0
    BY <1>2, SMT DEF Zero, Unsigned
  <2>2. v \in Int /\ -Full <= v /\ v < Full
    <3>1. v \in (0 - Full)..(0 + Full - 1)
      BY <1>1, <2>1 DEF Values
    <3> QED BY <3>1, <1>0, SMT
  <2>3. c \in Int /\ -32768 <= c /\ c < 32768 /\ 0 <= v - 256 * c /\ v - 256 * c < 256
    BY <2>2, FullIs, SMT
  <2> HIDE DEF c
  <2>4. Level(f, v) = v /\ Level(g, c) = 256 * c
    BY <1>1, <2>1, <2>2, <2>3, SMT DEF Level
  <2>5. c \in Values(g)
    BY <1>1, <2>1, <2>3, SMT DEF Values
  <2> QED BY <2>2, <2>3, <2>4, <2>5, SMT DEF c
<1>3. CASE f = "U32"
  <2>1. Zero(f) = Full /\ Zero(g) = 32768
    BY <1>1, <1>3, SMT DEF Zero, Unsigned
  <2>2. v \in Int /\ 0 <= v /\ v < 2 * Full
    <3>1. v \in (Full - Full)..(Full + Full - 1)
      BY <1>1, <2>1 DEF Values
    <3> QED BY <3>1, <1>0, SMT
  <2>3. c \in Int /\ 0 <= c /\ c < 65536 /\ 0 <= v - 256 * c /\ v - 256 * c < 256
    BY <2>2, FullIs, SMT
  <2> HIDE DEF c
  <2>4. Level(f, v) = v - Full /\ Level(g, c) = 256 * (c - 32768)
    BY <1>1, <2>1, <2>2, <2>3, FullIs, SMT DEF Level
  <2>5. c \in Values(g)
    BY <1>1, <2>1, <2>3, SMT DEF Values
  <2>6. Level(f, v) - Level(g, c) = v - 256 * c
    BY <2>2, <2>3, <2>4, FullIs, SMT
  <2> QED BY <2>2, <2>3, <2>5, <2>6, SMT DEF c
<1> QED BY <1>2, <1>3 DEF ThirtyTwo

\* Making a sample of a float loses as much as its format cannot tell apart.
Near(x, f, q) ==
    /\ x - Level(f, q) \in Int /\ -1 <= x - Level(f, q) /\ x - Level(f, q) <= Grain(f)
    /\ f \in Sixteen /\ (\E k \in Int : x = 256 * k) => Level(f, q) = x

LEMMA QuantisedLevel ==
    ASSUME NEW f \in Fixed, NEW x \in Int, -Full <= x, x < Full, NEW down \in {0, 1}
    PROVE  Near(x, f, Quantised(x, f, down))
<1> USE DEF Near
<1> DEFINE q == Quantised(x, f, down)
<1>0. Half(f) \in Int /\ Zero(f) \in Int /\ Full \in Int
  BY FullIs, SMT DEF Half, Zero
<1>1. CASE f \in Eight
  <2>1. Half(f) = 128 /\ Grain(f) = 65536 /\ f \notin Sixteen /\ f \notin ThirtyTwo
    BY <1>1 DEF Half, Grain, Eight, Sixteen, ThirtyTwo
  <2>2. q = Zero(f) + (IF x <= -Full THEN -128 ELSE x \div 65536)
    BY <1>0, <2>1, SMT DEF Quantised
  <2>3. q = Zero(f) + (x \div 65536)
    BY <2>2, FullIs, SMT
  <2> HIDE DEF q
  <2>4. Level(f, q) = 65536 * (x \div 65536)
    BY <1>0, <2>1, <2>3, SMT DEF Level
  <2> QED BY <1>0, <2>1, <2>4, SMT DEF q
<1>2. CASE f \in Sixteen
  <2>1. Half(f) = 32768 /\ Grain(f) = 256 /\ f \notin ThirtyTwo
    BY <1>2 DEF Half, Grain, Eight, Sixteen, ThirtyTwo
  <2>2. q = Zero(f) + (IF x <= -Full THEN -32768 ELSE x \div 256)
    BY <1>0, <2>1, SMT DEF Quantised
  <2>3. q = Zero(f) + (x \div 256)
    BY <2>2, FullIs, SMT
  <2> HIDE DEF q
  <2>4. Level(f, q) = 256 * (x \div 256)
    BY <1>0, <2>1, <2>3, SMT DEF Level
  <2> QED BY <1>0, <2>1, <2>4, SMT DEF q
<1>3. CASE f \in ThirtyTwo
  <2>1. Half(f) = Full /\ Grain(f) = 1 /\ f \notin Sixteen
    BY <1>3 DEF Half, Grain, Eight, Sixteen, ThirtyTwo
  <2>2. /\ q = Zero(f) + Scaled(x, down) /\ Scaled(x, down) \in Int
        /\ -1 <= x - Scaled(x, down) /\ x - Scaled(x, down) <= 1
    BY <1>0, <1>3, <2>1, SMT DEF Quantised, Scaled
  <2> HIDE DEF q
  <2>3. Level(f, q) = Scaled(x, down)
    BY <1>0, <2>1, <2>2, SMT DEF Level
  <2> QED BY <1>0, <2>1, <2>2, <2>3, SMT DEF q
<1> QED BY <1>1, <1>2, <1>3 DEF Fixed

\* A sample that keeps its rate is as loud as it was: it loses at most what the
\* device's format cannot tell apart, and one in 2^23 where 24-bit samples are
\* made from floats (audio_conversion.cc:130-152; 24-225, 592-616).
THEOREM LevelIsKept ==
    ASSUME NEW from \in Params, NEW to \in Params, NEW rest \in Nat, NEW s, SoundOf(s, from),
           NEW got \in Outcomes, NEW down \in {0, 1},
           from.rate = to.rate, from.fmt \in Fixed, to.fmt \in Format,
           s.value \in Values(from.fmt)
    PROVE  LET t == AudioConv(ConvOf(from, to, rest), s, got, down)
               lost == Level(from.fmt, s.value) - Level(to.fmt, t.value)
           IN  /\ lost \in (-1)..Grain(to.fmt)
               /\ from.fmt \in Eight \cup Sixteen /\ to.fmt \in Sixteen \cup {"FLOAT"} => lost = 0
<1> DEFINE conv == ConvOf(from, to, rest)
           n == InFloat(conv, s)
           r == Resampled(conv, n, got)
           size == s.samples * Width(s.fmt)
           f == Formatted(conv, r, size, down)
           t == AudioConv(conv, s, got, down)
           lost(v) == Level(from.fmt, s.value) - Level(to.fmt, v)
           Keeps(v) == /\ lost(v) \in (-1)..Grain(to.fmt)
                       /\ from.fmt \in Eight \cup Sixteen /\ to.fmt \in Sixteen \cup {"FLOAT"} => lost(v) = 0
<1>0. s \in SoundStates /\ s.fmt = from.fmt /\ from.fmt # "FLOAT"
  BY DEF SoundOf, Fixed, Eight, Sixteen, ThirtyTwo
<1>1. /\ n \in SoundStates /\ n.bits = {NE} /\ Readable(n)
      /\ n.fmt = IF to.fmt = "FLOAT" THEN "FLOAT"
                 ELSE IF SameWidth(from.fmt, to.fmt) THEN from.fmt
                 ELSE IF from.fmt = "S32" /\ to.fmt \in Sixteen THEN "S16"
                 ELSE IF from.fmt = "U32" /\ to.fmt \in Sixteen THEN "U16"
                 ELSE "FLOAT"
      /\ n.value = IF n.fmt = "FLOAT" THEN Level(from.fmt, s.value)
                   ELSE IF n.fmt \in Sixteen /\ from.fmt \in ThirtyTwo THEN s.value \div 256
                   ELSE s.value
  BY <1>0, FloatedSound
<1>2. r = n
  BY DEF Resampled, ConvOf
<1> HIDE DEF n
<1>3. n.fmt = to.fmt \/ SameWidth(n.fmt, to.fmt) \/ n.fmt = "FLOAT"
  BY <1>1 DEF SameWidth, Sixteen
<1>4. f.value = IF n.fmt = to.fmt THEN n.value
                ELSE IF SameWidth(n.fmt, to.fmt)
                THEN IF n.fmt \in Unsigned THEN n.value - Half(n.fmt) ELSE n.value + Half(n.fmt)
                ELSE Quantised(n.value, to.fmt, down)
  BY <1>1, <1>2 DEF Formatted, ChangeSign, FloatToFixed, ConvOf, SoundStates
<1>5. t.value = f.value
  <2>1. size \in Nat
    BY <1>0 DEF SoundStates, Width
  <2>2. t = Doubled(conv, Ordered(conv, f))
    BY DEF AudioConv, n
  <2>3. Delivered(from, to, conv, r, size, down)
    <3> HIDE DEF r, size
    <3> QED BY <2>1, <1>1, <1>2, <1>3, FormattedSound
  <2> HIDE DEF t, r, size, conv
  <2> QED BY <2>2, <2>3 DEF Delivered, f
<1> HIDE DEF f, t
<1>6. ASSUME n.fmt = from.fmt, n.value = s.value, SameWidth(from.fmt, to.fmt)
      PROVE  Keeps(f.value)
  <2> DEFINE w == f.value
  <2>1. w = IF from.fmt = to.fmt THEN s.value
            ELSE IF from.fmt \in Unsigned THEN s.value - Half(from.fmt)
            ELSE s.value + Half(from.fmt)
    BY <1>4, <1>6
  <2> HIDE DEF w
  <2>2. Level(from.fmt, s.value) - Level(to.fmt, w) = 0 /\ Grain(to.fmt) \in Nat
    BY <2>1, <1>6, FlippedLevel
  <2> QED BY <2>2 DEF w
<1>7. Keeps(f.value)
  <2>0. CASE n.fmt = "FLOAT"
    <3> DEFINE x == Level(from.fmt, s.value)
    <3>1. /\ x \in Int /\ -Full <= x /\ x < Full
          /\ from.fmt \in Eight \cup Sixteen => \E k \in Int : x = 256 * k
      BY LevelInRange
    <3>2. n.value = x
      BY <1>1, <2>0
    <3> HIDE DEF x
    <3>3. CASE to.fmt = "FLOAT"
      <4>1. f.value = x
        BY <1>4, <2>0, <3>2, <3>3
      <4>2. Zero("FLOAT") = 0 /\ Grain("FLOAT") = 1
        BY DEF Zero, Grain, Unsigned, Eight, Sixteen
      <4>3. Level(to.fmt, f.value) = x
        BY <3>1, <3>3, <4>1, <4>2, SMT DEF Level
      <4>4. lost(f.value) = x - x
        BY <4>3 DEF x
      <4> QED BY <3>1, <3>3, <4>2, <4>4, SMT
    <3>4. CASE to.fmt # "FLOAT"
      <4>1. f.value = Quantised(x, to.fmt, down) /\ to.fmt \in Fixed
        BY <1>4, <2>0, <3>2, <3>4
           DEF SameWidth, Eight, Sixteen, ThirtyTwo, Format, Fixed
      <4>2. Near(x, to.fmt, f.value)
        BY <3>1, <4>1, QuantisedLevel
      <4>3. lost(f.value) = x - Level(to.fmt, f.value) /\ Grain(to.fmt) \in Int
        BY DEF x, Grain
      <4>4. to.fmt \in Sixteen \cup {"FLOAT"} => to.fmt \in Sixteen
        BY <3>4
      <4> QED BY <3>1, <4>2, <4>3, <4>4, SMT DEF Near
    <3> QED BY <3>3, <3>4
  <2>1. CASE from.fmt \in Eight \cup Sixteen /\ n.fmt # "FLOAT"
    <3>1. SameWidth(from.fmt, to.fmt) /\ n.fmt = from.fmt /\ n.value = s.value
      BY <1>1, <2>1 DEF Eight, Sixteen, ThirtyTwo
    <3> QED BY <3>1, <1>6
  <2>2. CASE from.fmt \in ThirtyTwo /\ SameWidth(from.fmt, to.fmt)
    <3>1. n.fmt = from.fmt /\ n.value = s.value
      BY <1>1, <2>2 DEF SameWidth, Eight, Sixteen, ThirtyTwo
    <3> QED BY <3>1, <2>2, <1>6
  <2>3. CASE from.fmt \in ThirtyTwo /\ to.fmt \in Sixteen
    <3> DEFINE c == s.value \div 256
    <3>1. n.fmt = (IF from.fmt = "S32" THEN "S16" ELSE "U16") /\ n.value = c
      BY <1>1, <2>3 DEF SameWidth, Eight, Sixteen, ThirtyTwo
    <3>2. /\ c \in Values(n.fmt) /\ Level(from.fmt, s.value) - Level(n.fmt, c) \in Nat
          /\ Level(from.fmt, s.value) - Level(n.fmt, c) <= 256
      BY <2>3, <3>1, CutLevel
    <3>3. n.fmt \in Sixteen
      BY <3>1 DEF Sixteen
    <3>4. n.fmt = to.fmt \/ SameWidth(n.fmt, to.fmt)
      BY <1>3, <3>3 DEF Sixteen
    <3> HIDE DEF c
    <3>5. Level(to.fmt, f.value) = Level(n.fmt, c)
      <4> DEFINE w == f.value
                 g == n.fmt
      <4>1. w = IF g = to.fmt THEN c ELSE IF g \in Unsigned THEN c - Half(g) ELSE c + Half(g)
        BY <1>4, <3>1, <3>4
      <4>2. g \in Fixed
        BY <3>3 DEF Fixed
      <4>3. SameWidth(g, to.fmt) \/ g = to.fmt
        BY <3>4
      <4> HIDE DEF w, g
      <4> QED BY <4>1, <4>2, <4>3, <3>2, FlippedLevel DEF w, g
    <3>6. Grain(to.fmt) = 256 /\ from.fmt \notin Eight \cup Sixteen
      BY <2>3 DEF Grain, Eight, Sixteen, ThirtyTwo
    <3> QED BY <3>2, <3>5, <3>6
  <2>4. n.fmt = "FLOAT" \/ SameWidth(from.fmt, to.fmt) \/ to.fmt \in Sixteen
    BY <1>1
  <2> QED
    BY <2>0, <2>1, <2>2, <2>3, <2>4 DEF Fixed
<1> QED BY <1>5, <1>7 DEF t

-----------------------------------------------------------------------------
(* The drivers                                                             *)

(* Where a driver is in a call, and what its variables are outside it.     *)
Places ==
  /\ pc # "none" <=> call \in {"play", "close"}
  /\ pc # "none" => opened
  /\ pc \in {"copy", "chunks"} => driver = "ALSA"
  /\ pc \in {"room", "left", "right"} => driver = "JACK"
  /\ pc = "write" => driver \in {"OSS", "SNDIO"} /\ left > 0
  /\ pc = "drain" => driver # "JACK"
  /\ call = "play" => pc # "drain"
  /\ call = "close" => pc \in {"chunks", "drain"}
  /\ call \notin {"play", "fatal"} => left = 0
  /\ driver = "ALSA" /\ (call = "none" \/ pc = "copy") => written = 0 /\ Len(buf) < Chunk
  /\ driver = "ALSA" /\ ~opened => buf = << >>
  /\ driver # "ALSA" => buf = << >> /\ written = 0
  /\ driver # "JACK" => right = << >> /\ heardRight = 0 /\ batch = 0 /\ cb = NoCallback

(* Every frame given is heard, in the device, in buf or still to be taken; *)
(* only silence that fills up a chunk comes on top of that.                *)
InHand == IF pc = "right" THEN 1 ELSE 0
InBuf == Len(buf) - written
Accounted == heard + Len(queue) + InBuf + left - InHand

Counted ==
  /\ heard <= given /\ left <= given /\ Accounted >= given
  /\ driver # "ALSA" \/ call # "close" => Accounted = given

(* What is at the n-th place from the first frame on.                      *)
Frame(n) == IF n <= given THEN n ELSE 0

InOrder ==
  /\ \A i \in 1..Len(queue) : queue[i] = Frame(heard + i)
  /\ \A i \in 1..InBuf : buf[written + i] = Frame(heard + Len(queue) + i)

(* The two rings of JACK; what the callback has taken from the first only. *)
Ahead == IF cb.at = "right" THEN cb.n ELSE 0

RingsInStep ==
  driver = "JACK" =>
    /\ heardRight + Len(right) + left = given /\ left <= MaxPlay
    /\ \A i \in 1..Len(right) : right[i] = heardRight + i
    /\ heard = heardRight + Ahead
    /\ pc \in {"left", "right"} => batch \in 1..left /\ Len(right) + batch <= Room
    /\ cb.at # "idle" => cb.n \in 1..Len(right)

DriverInv == TypeOK /\ Places /\ Counted /\ InOrder /\ RingsInStep

(* ALSA's device holds nothing unless it runs, and a close() whose chunk   *)
(* the device has taken whole keeps nothing back.                          *)
LastChunk ==
  driver = "ALSA" =>
    /\ dev # "running" => queue = << >>
    /\ call = "close" /\ ~short /\ pc = "chunks" => InBuf \in {0, Chunk}
    /\ call = "close" /\ ~short /\ pc = "drain" => buf = << >>

-----------------------------------------------------------------------------
(* Sizes, numbers and frames                                               *)

LEMMA Sizes ==
  /\ Room \in Nat \ {0} /\ MaxPlay \in Nat \ {0} /\ MaxGiven \in Nat /\ Period \in Nat \ {0}
  /\ Chunk \in Nat \ {0} /\ Chunk < Room /\ BufSize \in Nat /\ Chunk <= BufSize
  /\ 0 \in Frames
BY RoomAssumption, ChunkAssumption, PeriodAssumption DEF Frames

LEMMA NumbersAre ==
  ASSUME TypeOK
  PROVE  /\ Len(queue) \in Nat /\ Len(buf) \in Nat /\ Len(right) \in Nat /\ InBuf \in Nat
         /\ written \in Nat /\ written <= Len(buf)
         /\ left \in Nat /\ given \in Nat /\ heard \in Nat /\ heardRight \in Nat
         /\ cb.n \in Nat /\ InHand \in {0, 1} /\ Ahead \in Nat /\ given <= MaxGiven
<1>1. queue \in Seq(Frames) /\ buf \in Seq(Frames) /\ right \in Seq(Frames) /\ written \in 0..Len(buf)
  BY DEF TypeOK
<1>2. Len(queue) \in Nat /\ Len(buf) \in Nat /\ Len(right) \in Nat
  BY <1>1, LenProperties
<1>3. left \in Nat /\ given \in Nat /\ heard \in Nat /\ heardRight \in Nat /\ given <= MaxGiven
  BY Sizes DEF TypeOK, Frames
<1>4. cb.n \in Nat
  BY Sizes DEF TypeOK
<1>5. InHand \in {0, 1} /\ Ahead \in Nat
  BY <1>4 DEF InHand, Ahead
<1> QED BY <1>1, <1>2, <1>3, <1>4, <1>5 DEF InBuf

LEMMA ArgumentIs ==
  ASSUME TypeOK, left <= given
  PROVE  /\ Argument \in Seq(Frames) /\ Len(Argument) = left
         /\ \A i \in 1..left : Argument[i] = given - left + i
<1>1. left \in Nat /\ given \in Nat /\ given <= MaxGiven
  BY NumbersAre
<1>2. Argument = [i \in 1..left |-> given - left + i]
  BY <1>1 DEF Argument, FramesFrom
<1>3. \A i \in 1..left : given - left + i \in Frames
  BY <1>1, Sizes DEF Frames
<1> QED BY <1>1, <1>2, <1>3

(* More at the end of a sequence.                                          *)
LEMMA LongerBy ==
  ASSUME NEW S, NEW s \in Seq(S), NEW t \in Seq(S)
  PROVE  /\ s \o t \in Seq(S) /\ Len(s \o t) = Len(s) + Len(t)
         /\ \A i \in 1..Len(s) : (s \o t)[i] = s[i]
         /\ \A i \in 1..Len(t) : (s \o t)[Len(s) + i] = t[i]
         /\ \A i \in 1..Len(s) + Len(t) :
              i > Len(s) => i - Len(s) \in 1..Len(t) /\ (s \o t)[i] = t[i - Len(s)]
<1>1. Len(s) \in Nat /\ Len(t) \in Nat
  BY LenProperties
<1>2. /\ s \o t \in Seq(S) /\ Len(s \o t) = Len(s) + Len(t)
      /\ \A i \in 1..Len(s) + Len(t) :
           (s \o t)[i] = IF i <= Len(s) THEN s[i] ELSE t[i - Len(s)]
  BY ConcatProperties
<1>3. \A i \in 1..Len(s) : i \in 1..Len(s) + Len(t) /\ i <= Len(s)
  BY <1>1
<1>4. \A i \in 1..Len(t) : /\ Len(s) + i \in 1..Len(s) + Len(t) /\ ~(Len(s) + i <= Len(s))
                           /\ Len(s) + i - Len(s) = i
  BY <1>1
<1>5. \A i \in 1..Len(s) + Len(t) : i > Len(s) => i - Len(s) \in 1..Len(t) /\ ~(i <= Len(s))
  BY <1>1
<1> QED BY <1>2, <1>3, <1>4, <1>5

-----------------------------------------------------------------------------
(* Steps that leave the sound where it is                                  *)

LEMMA Unmoved ==
  ASSUME TypeOK, Counted, InOrder, RingsInStep, UNCHANGED <<driver, sound, buf, written, jack>>,
         pc' = "right" <=> pc = "right", pc' \in {"left", "right"} => pc \in {"left", "right"},
         driver = "ALSA" /\ call = "close" => call' = "close"
  PROVE  Counted' /\ InOrder' /\ RingsInStep'
<1>1. UNCHANGED <<driver, left, given, heard, queue, buf, written, right, heardRight, batch, cb>>
  BY DEF sound, jack
<1>2. /\ InHand' = InHand /\ InBuf' = InBuf /\ Ahead' = Ahead /\ Accounted' = Accounted
      /\ \A n : Frame(n)' = Frame(n)
  BY <1>1 DEF InHand, InBuf, Ahead, Accounted, Frame
<1>3. Counted'
  BY <1>1, <1>2 DEF Counted
<1>4. InOrder'
  BY <1>1, <1>2 DEF InOrder
<1>5. RingsInStep'
  BY <1>1, <1>2 DEF RingsInStep
<1> QED BY <1>3, <1>4, <1>5

(* A call of play() gives frames that come after all the others.           *)
LEMMA Given ==
  ASSUME DriverInv, NEW w, PlayCall(w), w # "right", w # "left",
         UNCHANGED <<driver, heard, queue, alsa, jack>>
  PROVE  /\ Counted' /\ InOrder' /\ RingsInStep'
         /\ left' \in Frames /\ given' \in Frames /\ left' > 0
<1>1. PICK n \in 1..MaxPlay : given + n <= MaxGiven /\ given' = given + n /\ left' = n
  BY DEF PlayCall
<1>2. call = "none" /\ pc = "none" /\ left = 0 /\ call' = "play" /\ pc' = w
  BY DEF PlayCall, Idle, DriverInv, Places
<1>3. /\ UNCHANGED <<driver, heard, queue, buf, written, right, heardRight, batch, cb>>
      /\ InHand = 0 /\ InHand' = 0 /\ InBuf' = InBuf /\ Ahead' = Ahead
  BY <1>2 DEF alsa, jack, InHand, InBuf, Ahead
<1>4. /\ Len(queue) \in Nat /\ InBuf \in Nat /\ heard \in Nat /\ given \in Nat /\ n \in Nat /\ n > 0
      /\ given <= MaxGiven /\ heardRight \in Nat /\ Len(right) \in Nat
  BY NumbersAre, Sizes DEF DriverInv
<1>5. Accounted = given /\ heard + Len(queue) + InBuf = given
  BY <1>2, <1>3, <1>4 DEF DriverInv, Counted, Accounted
<1>6. Counted'
  BY <1>1, <1>3, <1>4, <1>5 DEF Counted, Accounted, DriverInv
<1>7. InOrder'
  <2>1. ASSUME NEW i \in 1..Len(queue) PROVE queue[i] = Frame(heard + i)'
    <3>1. heard + i <= given /\ heard + i <= given'
      BY <1>1, <1>4, <1>5
    <3> QED BY <1>3, <3>1 DEF DriverInv, InOrder, Frame
  <2>2. ASSUME NEW i \in 1..InBuf PROVE buf[written + i] = Frame(heard + Len(queue) + i)'
    <3>1. heard + Len(queue) + i <= given /\ heard + Len(queue) + i <= given'
      BY <1>1, <1>4, <1>5
    <3> QED BY <1>3, <3>1 DEF DriverInv, InOrder, Frame
  <2> QED BY <1>3, <2>1, <2>2 DEF InOrder
<1>8. RingsInStep'
  <2>1. driver = "JACK" => heardRight + Len(right) + left' = given' /\ left' <= MaxPlay
    BY <1>1, <1>2, <1>4, Sizes DEF DriverInv, RingsInStep
  <2> QED BY <1>2, <1>3, <2>1 DEF DriverInv, RingsInStep
<1>9. left' \in Frames /\ given' \in Frames /\ left' > 0
  BY <1>1, <1>4, Sizes DEF Frames
<1> QED BY <1>6, <1>7, <1>8, <1>9

-----------------------------------------------------------------------------
(* The device plays                                                        *)

LEMMA Heard ==
  ASSUME DriverInv, Sounds, driver # "JACK", UNCHANGED <<driver, call, pc, left, given, alsa, jack>>
  PROVE  /\ Counted' /\ InOrder' /\ RingsInStep'
         /\ queue' \in Seq(Frames) /\ Len(queue') <= Room /\ heard' \in Frames
<1> DEFINE q == Len(queue)
<1>1. queue \in Seq(Frames) /\ queue # << >> /\ q <= Room /\ heard \in Frames
  BY DEF DriverInv, TypeOK, Sounds
<1>2. /\ q \in Nat /\ q >= 1 /\ InBuf \in Nat /\ heard \in Nat /\ given \in Nat /\ left \in Nat
      /\ given <= MaxGiven
  BY <1>1, NumbersAre, EmptySeq DEF DriverInv
<1>3. /\ queue' \in Seq(Frames) /\ Len(queue') = q - 1
      /\ \A i \in 1..q - 1 : queue'[i] = queue[i + 1]
      /\ Head(queue) = queue[1]
  BY <1>1, HeadTailProperties DEF Sounds
<1>4. /\ UNCHANGED <<buf, written, right, heardRight, batch, cb>>
      /\ InHand = 0 /\ InHand' = 0 /\ InBuf' = InBuf /\ \A n : Frame(n)' = Frame(n)
  <2>1. pc # "right"
    BY DEF DriverInv, Places
  <2> QED BY <2>1 DEF alsa, jack, InHand, InBuf, Frame
<1> HIDE DEF q
<1>5. /\ \A i \in 1..q : queue[i] = Frame(heard + i)
      /\ \A i \in 1..InBuf : buf[written + i] = Frame(heard + q + i)
  BY DEF DriverInv, InOrder, q
<1>6. /\ Accounted = heard + q + InBuf + left /\ Accounted' = heard' + (q - 1) + InBuf + left
      /\ heard <= given /\ left <= given /\ Accounted >= given
      /\ driver # "ALSA" \/ call # "close" => Accounted = given
  <2>1. Accounted = heard + q + InBuf + left
    BY <1>2, <1>4 DEF Accounted, q
  <2>2. heard' \in Nat /\ Len(queue') = q - 1
    BY <1>1, <1>2, <1>3, <1>5 DEF Sounds, Frame
  <2>3. Accounted' = heard' + (q - 1) + InBuf + left
    BY <1>2, <1>4, <2>2 DEF Accounted
  <2> QED BY <2>1, <2>3 DEF DriverInv, Counted
<1>7. CASE heard < given
  <2>1. queue[1] = heard + 1 /\ heard + 1 # 0
    BY <1>2, <1>5, <1>7 DEF Frame
  <2>2. heard' = heard + 1 /\ heard' <= given
    BY <1>2, <1>3, <1>7, <2>1 DEF Sounds
  <2>3. Counted'
    <3>1. Accounted' = Accounted
      BY <1>2, <1>6, <2>2
    <3> QED BY <1>6, <2>2, <3>1 DEF Counted
  <2>4. InOrder'
    <3>1. ASSUME NEW i \in 1..q - 1 PROVE queue'[i] = Frame(heard' + i)
      <4>1. i + 1 \in 1..q /\ heard + (i + 1) = heard' + i
        BY <1>2, <2>2
      <4> QED BY <1>3, <1>5, <4>1
    <3>2. ASSUME NEW i \in 1..InBuf PROVE buf[written + i] = Frame(heard' + (q - 1) + i)
      <4>1. heard + q + i = heard' + (q - 1) + i
        BY <1>2, <2>2
      <4> QED BY <1>5, <4>1
    <3> QED BY <1>3, <1>4, <3>1, <3>2 DEF InOrder
  <2>5. heard' \in Frames
    BY <1>2, <2>2, Sizes DEF Frames
  <2> QED BY <1>2, <1>3, <1>1, <2>3, <2>4, <2>5, Sizes DEF RingsInStep, q
<1>8. CASE heard = given
  <2>1. queue[1] = 0
    BY <1>2, <1>5, <1>8 DEF Frame
  <2>2. heard' = heard
    BY <1>3, <2>1 DEF Sounds
  <2>3. Counted'
    <3>1. Accounted' >= given
      BY <1>2, <1>6, <1>8, <2>2
    <3>2. Accounted # given
      BY <1>2, <1>6, <1>8
    <3> QED BY <1>6, <2>2, <3>1, <3>2 DEF Counted
  <2>4. InOrder'
    <3>1. \A n \in Nat \ {0} : Frame(heard + n) = 0
      BY <1>2, <1>8 DEF Frame
    <3>2. ASSUME NEW i \in 1..q - 1 PROVE queue'[i] = Frame(heard + i)
      <4>1. i + 1 \in 1..q /\ i \in Nat \ {0} /\ i + 1 \in Nat \ {0}
        BY <1>2
      <4> QED BY <1>3, <1>5, <3>1, <4>1
    <3>3. ASSUME NEW i \in 1..InBuf PROVE buf[written + i] = Frame(heard + (q - 1) + i)
      <4>1. heard + q + i = heard + (q + i) /\ heard + (q - 1) + i = heard + (q - 1 + i)
            /\ q + i \in Nat \ {0} /\ q - 1 + i \in Nat \ {0}
        BY <1>2
      <4> QED BY <1>5, <3>1, <4>1
    <3> QED BY <1>3, <1>4, <2>2, <3>2, <3>3 DEF InOrder
  <2> QED BY <1>1, <1>2, <1>3, <2>2, <2>3, <2>4, Sizes DEF RingsInStep, q
<1> QED BY <1>2, <1>6, <1>7, <1>8

-----------------------------------------------------------------------------
(* The drivers that write straight to the device                           *)

LEMMA WroteSome ==
  ASSUME DriverInv, NEW n \in 1..left, Writes(n), driver \in {"OSS", "SNDIO"},
         \/ left' = left - n /\ given' = given
         \/ left' = 0 /\ given' = given - (left - n),
         pc' # "right", UNCHANGED <<driver, heard, alsa, jack>>
  PROVE  /\ Counted' /\ InOrder' /\ RingsInStep'
         /\ queue' \in Seq(Frames) /\ Len(queue') <= Room /\ left' \in Frames /\ given' \in Frames
<1> DEFINE q == Len(queue)
<1>1. /\ queue \in Seq(Frames) /\ n <= Room - q /\ queue' = queue \o SubSeq(Argument, 1, n)
      /\ pc = "write" /\ buf = << >> /\ written = 0
  BY DEF DriverInv, TypeOK, Writes, Places
<1>2. /\ q \in Nat /\ heard \in Nat /\ given \in Nat /\ left \in Nat /\ n \in Nat /\ n <= left
      /\ left <= given /\ given <= MaxGiven /\ InBuf = 0 /\ n > 0
  BY <1>1, NumbersAre, EmptySeq DEF DriverInv, Counted, InBuf
<1>3. /\ UNCHANGED <<heard, buf, written, right, heardRight, batch, cb>>
      /\ InHand = 0 /\ InHand' = 0 /\ InBuf' = 0
  BY <1>1, <1>2 DEF alsa, jack, InHand, InBuf
<1> HIDE DEF q
<1>4. heard + q + left = given
  BY <1>2, <1>3 DEF DriverInv, Counted, Accounted, q
<1>5. /\ Argument \in Seq(Frames) /\ Len(Argument) = left
      /\ \A i \in 1..left : Argument[i] = given - left + i
  BY <1>2, ArgumentIs DEF DriverInv
<1>6. /\ SubSeq(Argument, 1, n) \in Seq(Frames) /\ Len(SubSeq(Argument, 1, n)) = n
      /\ \A i \in 1..n : SubSeq(Argument, 1, n)[i] = Argument[i]
  <2>1. n \in 0..Len(Argument)
    BY <1>2, <1>5
  <2> QED BY <1>5, <2>1, SplitSeq
<1>7. /\ queue' \in Seq(Frames) /\ Len(queue') = q + n
      /\ \A i \in 1..q : queue'[i] = queue[i]
      /\ \A i \in 1..q + n : i > q => i - q \in 1..n /\ queue'[i] = SubSeq(Argument, 1, n)[i - q]
  BY <1>1, <1>6, LongerBy DEF q
<1> DEFINE l == left'  g == given'
<1>8. /\ l \in Nat /\ g \in Nat /\ g <= given /\ l <= g /\ heard + (q + n) + l = g
  BY <1>2, <1>4
<1> HIDE DEF l, g
<1>9. Counted'
  <2>1. Accounted' = heard + (q + n) + 0 + l - 0
    BY <1>3, <1>7 DEF Accounted, l
  <2>2. Accounted' = g /\ heard <= g /\ Accounted' >= g
    BY <1>2, <1>8, <2>1
  <2> QED BY <1>3, <1>8, <2>2 DEF Counted, l, g
<1>10. InOrder'
  <2>1. ASSUME NEW i \in 1..q + n PROVE queue'[i] = IF heard + i <= g THEN heard + i ELSE 0
    <3>1. heard + i <= g
      BY <1>2, <1>8
    <3>2. CASE i <= q
      <4>1. i \in 1..q /\ heard + i <= given
        BY <1>2, <1>4, <3>2
      <4> QED BY <1>7, <3>1, <4>1 DEF DriverInv, InOrder, Frame, q
    <3>3. CASE i > q
      <4>1. i - q \in 1..n /\ i - q \in 1..left /\ given - left + (i - q) = heard + i
        BY <1>2, <1>4, <3>3
      <4> QED BY <1>5, <1>6, <1>7, <3>1, <3>3, <4>1
    <3> QED BY <1>2, <3>2, <3>3
  <2> QED BY <1>3, <1>7, <2>1 DEF InOrder, Frame, g
<1>11. left' \in Frames /\ given' \in Frames /\ Len(queue') <= Room
  <2>1. l \in Frames /\ g \in Frames
    BY <1>2, <1>8, Sizes DEF Frames
  <2>2. q + n <= Room
    BY <1>1, <1>2, Sizes DEF q
  <2> QED BY <1>7, <2>1, <2>2 DEF l, g
<1> QED BY <1>3, <1>7, <1>9, <1>10, <1>11 DEF DriverInv, Places, RingsInStep

ControlTypes ==
  /\ driver \in Compiled /\ opened \in BOOLEAN
  /\ call \in {"none", "play", "close", "fatal", "abort"}
  /\ pc \in {"none", "copy", "chunks", "drain", "room", "left", "right", "write"}
  /\ dev \in {"NULL", "half", "ready", "running", "xrun", "setup", "silent",
              "playing", "gone", "none", "open"}
  /\ short \in BOOLEAN

SoundTypes ==
  /\ left \in Frames /\ given \in Frames /\ heard \in Frames
  /\ queue \in Seq(Frames) /\ Len(queue) <= Room

AlsaTypes == buf \in Seq(Frames) /\ Len(buf) <= BufSize /\ written \in 0..Len(buf)

JackTypes ==
  /\ heardRight \in Frames /\ right \in Seq(Frames) /\ Len(right) <= Room /\ batch \in 0..MaxPlay
  /\ cb \in [at : {"idle", "left", "right"}, n : 0..Room]

LEMMA TypesSplit ==
  /\ TypeOK <=> ControlTypes /\ SoundTypes /\ AlsaTypes /\ JackTypes
  /\ TypeOK' <=> ControlTypes' /\ SoundTypes' /\ AlsaTypes' /\ JackTypes'
BY DEF TypeOK, ControlTypes, SoundTypes, AlsaTypes, JackTypes

(* A step that leaves all sound alone.                                     *)
LEMMA ControlStep ==
  ASSUME DriverInv, UNCHANGED <<driver, sound, buf, written, jack>>, ControlTypes', Places',
         pc' = "right" <=> pc = "right", pc' \in {"left", "right"} => pc \in {"left", "right"},
         driver = "ALSA" /\ call = "close" => call' = "close"
  PROVE  DriverInv'
<1>1. Counted' /\ InOrder' /\ RingsInStep'
  BY Unmoved DEF DriverInv
<1>2. SoundTypes' /\ AlsaTypes' /\ JackTypes'
  BY TypesSplit DEF DriverInv, SoundTypes, AlsaTypes, JackTypes, sound, alsa, jack
<1>3. TypeOK'
  BY <1>2, TypesSplit
<1> QED BY <1>1, <1>3 DEF DriverInv

LEMMA WriterKeeps ==
  ASSUME DriverInv, Writer
  PROVE  DriverInv'
<1>1. /\ driver \in {"OSS", "SNDIO"} /\ UNCHANGED <<driver, alsa, jack>> /\ WriterNext
      /\ buf = << >> /\ written = 0 /\ pc \notin {"copy", "chunks", "room", "left", "right"}
  BY DEF Writer, DriverInv, Places
<1>2. ControlTypes /\ SoundTypes /\ AlsaTypes /\ JackTypes /\ Places
  BY TypesSplit DEF DriverInv
<1>3. AlsaTypes' /\ JackTypes'
  BY <1>1, <1>2 DEF AlsaTypes, JackTypes, alsa, jack
<1>4. UNCHANGED <<buf, written, right, heardRight, batch, cb>>
  BY <1>1 DEF alsa, jack
<1>5. CASE OssOpen \/ SndioOpen \/ SndioReset \/ WriterError \/ WriterClose
  <2>1. UNCHANGED sound /\ pc' \in {pc, "none", "drain"}
    BY <1>5 DEF OssOpen, SndioOpen, SndioReset, WriterError, WriterClose, PlayFails, caller
  <2>2. ControlTypes'
    BY <1>1, <1>2, <1>5 DEF ControlTypes, SoundTypes, OssOpen, SndioOpen, Opens, SndioReset,
       WriterError, WriterClose, PlayFails, caller, alsa
  <2>3. Places'
    <3>1. UNCHANGED left
      BY <2>1 DEF sound
    <3>2. CASE OssOpen \/ SndioOpen
      BY <1>1, <1>2, <1>4, <3>1, <3>2 DEF Places, OssOpen, SndioOpen, Opens, Idle
    <3>3. CASE SndioReset
      BY <1>1, <1>2, <1>4, <3>1, <3>3 DEF Places, SndioReset, Idle, caller
    <3>4. CASE WriterError
      BY <1>1, <1>2, <1>4, <3>1, <3>4 DEF Places, WriterError, PlayFails
    <3>5. CASE WriterClose
      BY <1>1, <1>2, <1>4, <3>1, <3>5 DEF Places, WriterClose, Idle
    <3> QED BY <1>5, <3>2, <3>3, <3>4, <3>5
  <2> QED BY <1>1, <2>1, <2>2, <2>3, ControlStep DEF alsa
<1>6. CASE WriterClosed
  <2>1. /\ UNCHANGED sound /\ pc = "drain" /\ pc' = "none" /\ call' = "none"
        /\ dev' = "none" /\ opened' = FALSE
    BY <1>6 DEF WriterClosed, Return
  <2>2. ControlTypes'
    BY <1>1, <1>2, <2>1 DEF ControlTypes, alsa
  <2>3. Places'
    BY <1>1, <1>2, <1>4, <2>1 DEF Places, sound
  <2> QED BY <1>1, <2>1, <2>2, <2>3, ControlStep DEF alsa
<1>7. CASE WriterPlay
  <2>1. /\ PlayCall("write") /\ UNCHANGED <<opened, heard, dev, queue>>
        /\ call' = "play" /\ pc' = "write" /\ opened'
    BY <1>7 DEF WriterPlay, PlayCall
  <2>2. /\ Counted' /\ InOrder' /\ RingsInStep'
        /\ left' \in Frames /\ given' \in Frames /\ left' > 0
    BY <1>1, <2>1, Given
  <2>3. ControlTypes' /\ SoundTypes'
    BY <1>1, <1>2, <2>1, <2>2 DEF ControlTypes, SoundTypes, alsa
  <2>4. Places'
    BY <1>1, <1>2, <1>4, <2>1, <2>2 DEF Places
  <2> QED BY <1>3, <2>2, <2>3, <2>4, TypesSplit DEF DriverInv
<1>8. CASE OssWrite \/ SndioWrite
  <2>1. PICK n \in 1..left :
          /\ Writes(n)
          /\ \/ left' = left - n /\ given' = given
             \/ left' = 0 /\ given' = given - (left - n)
          /\ \/ left' = 0 /\ call' = "none" /\ pc' = "none"
             \/ left' = left - n /\ n < left /\ UNCHANGED <<call, pc>>
    <3>1. CASE OssWrite
      <4>1. PICK n \in 1..left :
              /\ Writes(n) /\ left' = left - n
              /\ IF n < left THEN UNCHANGED <<call, pc>> ELSE Return
        BY <3>1 DEF OssWrite
      <4>2. left \in Nat /\ given' = given
        BY <3>1, NumbersAre DEF DriverInv, OssWrite
      <4>3. n = left => left - n = 0
        BY <4>2
      <4> QED BY <4>1, <4>2, <4>3 DEF Return
    <3>2. CASE SndioWrite
      BY <3>2 DEF SndioWrite, Return
    <3> QED BY <1>8, <3>1, <3>2
  <2>2. UNCHANGED <<opened, heard, dev>> /\ pc = "write" /\ pc' # "right" /\ call = "play"
    BY <1>1, <1>2, <1>8, <2>1 DEF OssWrite, SndioWrite, Writes, Places
  <2>3. /\ Counted' /\ InOrder' /\ RingsInStep'
        /\ queue' \in Seq(Frames) /\ Len(queue') <= Room /\ left' \in Frames /\ given' \in Frames
    BY <1>1, <2>1, <2>2, WroteSome
  <2>4. ControlTypes' /\ SoundTypes'
    BY <1>1, <1>2, <2>1, <2>2, <2>3 DEF ControlTypes, SoundTypes, alsa
  <2>5. \/ left' = 0 /\ call' = "none" /\ pc' = "none"
        \/ left' > 0 /\ UNCHANGED <<call, pc>>
    <3>1. left \in Nat
      BY NumbersAre DEF DriverInv
    <3>2. n < left => left - n > 0
      BY <3>1
    <3> QED BY <2>1, <3>2
  <2>6. Places'
    BY <1>1, <1>2, <1>4, <2>2, <2>5 DEF Places
  <2> QED BY <1>3, <2>3, <2>4, <2>6, TypesSplit DEF DriverInv
<1>9. CASE OssReset
  <2>1. /\ UNCHANGED <<caller, left, given>> /\ call = "none" /\ pc = "none" /\ left = 0
        /\ dev' \in {"none", dev}
        /\ UNCHANGED <<heard, queue>> \/ (queue' = << >> /\ heard' = given)
    BY <1>2, <1>9 DEF OssReset, Idle, Places
  <2>2. UNCHANGED <<opened, call, pc>>
    BY <2>1 DEF caller
  <2>3. ControlTypes'
    BY <1>1, <1>2, <2>1, <2>2 DEF ControlTypes, SoundTypes, alsa
  <2>4. Places'
    BY <1>1, <1>2, <1>4, <2>1, <2>2 DEF Places
  <2>5. CASE UNCHANGED <<heard, queue>>
    BY <1>1, <2>1, <2>2, <2>3, <2>4, <2>5, ControlStep DEF sound, alsa
  <2>6. CASE queue' = << >> /\ heard' = given
    <3>1. Len(queue') = 0 /\ queue' \in Seq(Frames) /\ given \in Nat /\ Len(<< >>) = 0
      BY <2>6, NumbersAre DEF DriverInv
    <3>2. InBuf' = 0 /\ InHand' = 0
      BY <1>1, <1>4, <2>1, <2>2, <3>1 DEF InBuf, InHand
    <3>3. Counted'
      <4>1. Accounted' = given + 0 + 0 + 0 - 0
        BY <2>1, <2>6, <3>1, <3>2 DEF Accounted
      <4>2. Accounted' = given /\ given <= given /\ 0 <= given
        BY <3>1, <4>1
      <4> QED BY <2>1, <2>6, <4>2 DEF Counted
    <3>4. InOrder'
      BY <3>1, <3>2 DEF InOrder
    <3>5. RingsInStep'
      BY <1>1 DEF RingsInStep
    <3>6. SoundTypes'
      BY <1>2, <2>1, <2>6, <3>1, Sizes DEF SoundTypes
    <3> QED BY <1>3, <2>3, <2>4, <3>3, <3>4, <3>5, <3>6, TypesSplit DEF DriverInv
  <2> QED BY <2>1, <2>5, <2>6
<1>10. CASE WriterSounds
  <2>1. Sounds /\ UNCHANGED <<opened, call, pc, left, given, dev>>
    BY <1>10 DEF WriterSounds, caller
  <2>2. /\ Counted' /\ InOrder' /\ RingsInStep'
        /\ queue' \in Seq(Frames) /\ Len(queue') <= Room /\ heard' \in Frames
    BY <1>1, <2>1, Heard
  <2>3. ControlTypes' /\ SoundTypes'
    BY <1>1, <1>2, <2>1, <2>2 DEF ControlTypes, SoundTypes, alsa
  <2>4. Places'
    BY <1>1, <1>2, <1>4, <2>1 DEF Places
  <2> QED BY <1>3, <2>2, <2>3, <2>4, TypesSplit DEF DriverInv
<1> QED BY <1>1, <1>5, <1>6, <1>7, <1>8, <1>9, <1>10 DEF WriterNext, WriterStep

-----------------------------------------------------------------------------
(* The two rings of JACK                                                   *)

LEMMA JackIs ==
  ASSUME DriverInv, driver = "JACK"
  PROVE  /\ buf = << >> /\ written = 0 /\ InBuf = 0
         /\ pc \in {"none", "room", "left", "right"}
         /\ heard + Len(queue) + left - InHand = given
         /\ heardRight + Len(right) + left = given /\ heard = heardRight + Ahead
         /\ \A i \in 1..Len(queue) : queue[i] = heard + i
         /\ \A i \in 1..Len(right) : right[i] = heardRight + i
<1>1. /\ buf = << >> /\ written = 0 /\ pc \notin {"copy", "chunks", "write"}
      /\ pc \in {"none", "room", "left", "right", "drain"}
  BY DEF DriverInv, Places, TypeOK
<1>2. pc # "drain"
  BY <1>1 DEF DriverInv, Places, TypeOK
<1>3. InBuf = 0
  BY <1>1 DEF InBuf
<1>4. /\ heard \in Nat /\ Len(queue) \in Nat /\ left \in Nat /\ InHand \in {0, 1} /\ given \in Nat
      /\ heardRight \in Nat /\ Len(right) \in Nat
  BY NumbersAre DEF DriverInv
<1>5. heard + Len(queue) + left - InHand = given
  BY <1>3, <1>4 DEF DriverInv, Counted, Accounted
<1>6. /\ heardRight + Len(right) + left = given /\ heard = heardRight + Ahead
      /\ \A i \in 1..Len(right) : right[i] = heardRight + i
  BY DEF DriverInv, RingsInStep
<1>7. ASSUME NEW i \in 1..Len(queue) PROVE queue[i] = heard + i
  <2>1. InHand = 1 => left >= 1
    <3>1. InHand = 1 => pc = "right"
      BY DEF InHand
    <3>2. pc = "right" => batch \in 1..left
      BY DEF DriverInv, RingsInStep
    <3> QED BY <1>4, <3>1, <3>2
  <2>2. left - InHand >= 0
    BY <1>4, <2>1
  <2>3. heard + i <= given
    BY <1>4, <1>5, <2>2
  <2> QED BY <2>3 DEF DriverInv, InOrder, Frame
<1> QED BY <1>1, <1>2, <1>3, <1>5, <1>6, <1>7

(* What makes the invariant of a step that moves frames in the rings.      *)
LEMMA JackOrder ==
  ASSUME DriverInv, driver = "JACK", UNCHANGED <<driver, alsa, given>>, ControlTypes', Places',
         queue' \in Seq(Frames), right' \in Seq(Frames), Len(queue') <= Room, Len(right') <= Room,
         left' \in Nat, heard' \in Nat, heardRight' \in Nat, left' <= given, heard' <= given,
         heardRight' <= given, batch' \in 0..MaxPlay,
         cb' \in [at : {"idle", "left", "right"}, n : 0..Room],
         heard' + Len(queue') + left' - InHand' = given,
         \A i \in 1..Len(queue') : queue'[i] = heard' + i,
         \A i \in 1..Len(queue') : heard' + i <= given,
         RingsInStep'
  PROVE  DriverInv'
<1>1. given \in Nat /\ given <= MaxGiven /\ given' = given /\ UNCHANGED <<buf, written>>
  BY NumbersAre DEF DriverInv, alsa
<1>2. InBuf' = 0
  BY <1>1, JackIs DEF InBuf
<1>3. SoundTypes' /\ AlsaTypes' /\ JackTypes'
  <2>1. AlsaTypes'
    BY <1>1, TypesSplit DEF DriverInv, AlsaTypes
  <2>2. \A n \in Nat : n <= given => n \in Frames
    BY <1>1, Sizes DEF Frames
  <2>3. given \in Frames
    BY <1>1, <2>2
  <2> QED BY <1>1, <2>1, <2>2, <2>3 DEF SoundTypes, JackTypes
<1>4. Counted'
  <2> DEFINE h == heard'  q == Len(queue')  l == left'  k == InHand'
  <2>1. h \in Nat /\ q \in Nat /\ l \in Nat /\ k \in {0, 1} /\ h + q + l - k = given
    <3>1. q \in Nat
      BY LenProperties
    <3>2. k \in {0, 1}
      BY DEF InHand
    <3> QED BY <3>1, <3>2
  <2>2. Accounted' = h + q + 0 + l - k
    BY <1>2 DEF Accounted
  <2> HIDE DEF h, q, l, k
  <2>3. Accounted' = given /\ Accounted' >= given
    BY <1>1, <2>1, <2>2
  <2> QED BY <1>1, <2>3 DEF Counted
<1>5. InOrder'
  <2>1. \A i \in 1..Len(queue') : queue'[i] = Frame(heard + i)'
    BY <1>1 DEF Frame
  <2> QED BY <1>2, <2>1 DEF InOrder
<1> QED BY <1>3, <1>4, <1>5, TypesSplit DEF DriverInv

LEMMA JackNumbers ==
  ASSUME DriverInv, driver = "JACK"
  PROVE  /\ queue \in Seq(Frames) /\ right \in Seq(Frames) /\ Len(queue) <= Room /\ Len(right) <= Room
         /\ Len(queue) \in Nat /\ Len(right) \in Nat /\ left \in Nat /\ given \in Nat /\ heard \in Nat
         /\ heardRight \in Nat /\ batch \in 0..MaxPlay
         /\ left <= given /\ heard <= given /\ heardRight <= given /\ given <= MaxGiven
         /\ cb \in [at : {"idle", "left", "right"}, n : 0..Room] /\ Ahead \in Nat
<1>1. /\ queue \in Seq(Frames) /\ right \in Seq(Frames) /\ Len(queue) <= Room /\ Len(right) <= Room
      /\ batch \in 0..MaxPlay /\ cb \in [at : {"idle", "left", "right"}, n : 0..Room]
  BY DEF DriverInv, TypeOK
<1>2. /\ Len(queue) \in Nat /\ Len(right) \in Nat /\ left \in Nat /\ given \in Nat /\ heard \in Nat
      /\ heardRight \in Nat /\ given <= MaxGiven /\ Ahead \in Nat
  BY NumbersAre DEF DriverInv
<1>3. left <= given /\ heard <= given
  BY DEF DriverInv, Counted
<1>4. heardRight <= given
  BY <1>2, <1>3, JackIs
<1> QED BY <1>1, <1>2, <1>3, <1>4

(* A sample at the end of a ring.                                          *)
LEMMA OneMore ==
  ASSUME NEW S, NEW s \in Seq(S), NEW h \in Nat, NEW e \in S, e = h + Len(s) + 1,
         \A i \in 1..Len(s) : s[i] = h + i
  PROVE  /\ Append(s, e) \in Seq(S) /\ Len(Append(s, e)) = Len(s) + 1
         /\ \A i \in 1..Len(s) + 1 : Append(s, e)[i] = h + i
<1>1. /\ Append(s, e) \in Seq(S) /\ Len(Append(s, e)) = Len(s) + 1
      /\ \A i \in 1..Len(s) : Append(s, e)[i] = s[i]
      /\ Append(s, e)[Len(s) + 1] = e /\ Len(s) \in Nat
  BY AppendProperties, LenProperties
<1>2. ASSUME NEW i \in 1..Len(s) + 1 PROVE Append(s, e)[i] = h + i
  <2>1. CASE i <= Len(s)
    <3>1. i \in 1..Len(s)
      BY <1>1, <2>1
    <3> QED BY <1>1, <3>1
  <2>2. CASE i > Len(s)
    <3>1. i = Len(s) + 1
      BY <1>1, <2>2
    <3>2. h + Len(s) + 1 = h + (Len(s) + 1)
      BY <1>1
    <3> QED BY <1>1, <3>1, <3>2
  <2> QED BY <1>1, <2>1, <2>2
<1> QED BY <1>1, <1>2

(* The first n samples are taken from a ring.                              *)
LEMMA SomeFewer ==
  ASSUME NEW S, NEW s \in Seq(S), NEW h \in Nat, NEW n \in 1..Len(s),
         \A i \in 1..Len(s) : s[i] = h + i
  PROVE  /\ Taken(s, n) \in Seq(S) /\ Len(Taken(s, n)) = Len(s) - n
         /\ s[n] = h + n
         /\ \A i \in 1..Len(s) - n : Taken(s, n)[i] = (h + n) + i
<1>1. Len(s) \in Nat /\ n \in 0..Len(s)
  BY LenProperties
<1>2. /\ Taken(s, n) \in Seq(S) /\ Len(Taken(s, n)) = Len(s) - n
      /\ \A i \in 1..Len(s) - n : Taken(s, n)[i] = s[n + i]
  BY <1>1, SplitSeq DEF Taken
<1>3. \A i \in 1..Len(s) - n : n + i \in 1..Len(s) /\ h + (n + i) = (h + n) + i
  BY <1>1
<1> QED BY <1>2, <1>3

LEMMA JackWriteLeftKeeps ==
  ASSUME DriverInv, driver = "JACK", JackWriteLeft, UNCHANGED <<driver, alsa>>
  PROVE  DriverInv'
<1> DEFINE q == Len(queue)  r == Len(right)
<1>1. /\ pc = "left" /\ pc' = "right" /\ queue' = Written(queue)
      /\ UNCHANGED <<opened, call, left, given, heard, dev, right, heardRight, batch, cb>>
  BY DEF JackWriteLeft, jack
<1>2. /\ batch \in 1..left /\ r + batch <= Room /\ InHand = 0 /\ InHand' = 1 /\ Ahead' = Ahead
  BY <1>1 DEF DriverInv, RingsInStep, InHand, Ahead
<1>3. /\ queue \in Seq(Frames) /\ q \in Nat /\ r \in Nat /\ left \in Nat /\ given \in Nat /\ heard \in Nat
      /\ heardRight \in Nat /\ left <= given /\ given <= MaxGiven /\ batch \in Nat /\ batch >= 1
      /\ Ahead \in Nat /\ left >= 1 /\ Room \in Nat
  BY <1>2, JackNumbers, Sizes
<1>4. /\ heard + q + left = given /\ heardRight + r + left = given /\ heard = heardRight + Ahead
      /\ \A i \in 1..q : queue[i] = heard + i
  BY <1>2, <1>3, JackIs
<1> HIDE DEF q, r
<1>5. q < Room /\ heard + q + 1 = given - left + 1 /\ heard + q + 1 <= given /\ heard + q + 1 \in Nat
  BY <1>2, <1>3, <1>4
<1>6. Head(Argument) = heard + q + 1 /\ heard + q + 1 \in Frames
  <2>1. Argument \in Seq(Frames) /\ Len(Argument) = left /\ Argument[1] = given - left + 1
    BY <1>3, ArgumentIs DEF DriverInv
  <2>2. Argument # << >>
    BY <1>3, <2>1, EmptySeq
  <2>3. Head(Argument) = Argument[1]
    BY <2>1, <2>2, HeadTailProperties
  <2> QED BY <1>3, <1>5, <2>1, <2>3, Sizes DEF Frames
<1>7. queue' = Append(queue, heard + q + 1)
  BY <1>1, <1>5, <1>6 DEF Written, q
<1>8. /\ queue' \in Seq(Frames) /\ Len(queue') = q + 1
      /\ \A i \in 1..q + 1 : queue'[i] = heard + i
  BY SMTT(20), <1>3, <1>4, <1>6, <1>7, OneMore DEF q
<1>9. \A i \in 1..q + 1 : heard + i <= given
  BY <1>3, <1>5
<1>10. ControlTypes'
  BY <1>1, TypesSplit DEF DriverInv, ControlTypes, alsa
<1>11. Places'
  BY <1>1 DEF DriverInv, Places, alsa
<1>12. RingsInStep'
  <2>1. /\ heardRight + r + left = given /\ \A i \in 1..Len(right) : right[i] = heardRight + i
        /\ heard = heardRight + Ahead /\ left <= MaxPlay
        /\ cb.at # "idle" => cb.n \in 1..Len(right)
    BY DEF DriverInv, RingsInStep, q, r
  <2> QED BY <1>1, <1>2, <2>1 DEF RingsInStep, r
<1>13. heard + (q + 1) + left - 1 = given /\ q + 1 <= Room
  BY <1>3, <1>4, <1>5
<1> QED BY <1>1, <1>2, <1>3, <1>8, <1>9, <1>10, <1>11, <1>12, <1>13, JackNumbers, JackOrder

LEMMA JackWriteRightKeeps ==
  ASSUME DriverInv, driver = "JACK", JackWriteRight, UNCHANGED <<driver, alsa>>
  PROVE  DriverInv'
<1> DEFINE q == Len(queue)  r == Len(right)
<1>1. /\ pc = "right" /\ right' = Written(right) /\ left' = left - 1 /\ batch' = batch - 1
      /\ pc' = IF batch > 1 THEN "left" ELSE "room"
      /\ UNCHANGED <<opened, call, given, heard, dev, queue, heardRight, cb>>
  BY DEF JackWriteRight
<1>2. /\ batch \in 1..left /\ r + batch <= Room /\ InHand = 1 /\ InHand' = 0 /\ Ahead' = Ahead
  BY <1>1 DEF DriverInv, RingsInStep, InHand, Ahead
<1>3. /\ right \in Seq(Frames) /\ q \in Nat /\ r \in Nat /\ left \in Nat /\ given \in Nat /\ heard \in Nat
      /\ heardRight \in Nat /\ left <= given /\ given <= MaxGiven /\ batch \in Nat /\ batch >= 1
      /\ Ahead \in Nat /\ left >= 1 /\ Room \in Nat /\ batch \in 0..MaxPlay /\ MaxPlay \in Nat
  BY <1>2, JackNumbers, Sizes
<1>4. /\ heard + q + left - 1 = given /\ heardRight + r + left = given /\ heard = heardRight + Ahead
      /\ \A i \in 1..q : queue[i] = heard + i
      /\ \A i \in 1..r : right[i] = heardRight + i
  BY <1>2, <1>3, JackIs
<1> HIDE DEF q, r
<1>5. r < Room /\ heardRight + r + 1 = given - left + 1 /\ heardRight + r + 1 <= given
      /\ heardRight + r + 1 \in Nat
  BY <1>2, <1>3, <1>4
<1>6. Head(Argument) = heardRight + r + 1 /\ heardRight + r + 1 \in Frames
  <2>1. Argument \in Seq(Frames) /\ Len(Argument) = left /\ Argument[1] = given - left + 1
    BY <1>3, ArgumentIs DEF DriverInv
  <2>2. Argument # << >>
    BY <1>3, <2>1, EmptySeq
  <2>3. Head(Argument) = Argument[1]
    BY <2>1, <2>2, HeadTailProperties
  <2> QED BY <1>3, <1>5, <2>1, <2>3, Sizes DEF Frames
<1>7. right' = Append(right, heardRight + r + 1)
  BY <1>1, <1>5, <1>6 DEF Written, r
<1>8. /\ right' \in Seq(Frames) /\ Len(right') = r + 1
      /\ \A i \in 1..r + 1 : right'[i] = heardRight + i
  BY <1>3, <1>4, <1>6, <1>7, OneMore DEF r
<1> DEFINE l == left - 1
<1>9. /\ l \in Nat /\ l <= given /\ heard + q + l = given /\ heardRight + (r + 1) + l = given
      /\ r + 1 <= Room /\ \A i \in 1..q : heard + i <= given
      /\ heard + q + l - 0 = given
  BY <1>3, <1>4, <1>5
<1>10. ControlTypes'
  BY <1>1, TypesSplit DEF DriverInv, ControlTypes, alsa
<1>11. Places'
  BY <1>1 DEF DriverInv, Places, alsa
<1>12. batch - 1 \in 0..MaxPlay /\ (batch > 1 => batch - 1 \in 1..l /\ (r + 1) + (batch - 1) <= Room)
  BY <1>2, <1>3
<1> HIDE DEF l
<1>13. left' = l
  BY <1>1 DEF l
<1>14. RingsInStep'
  <2>1. heard = heardRight + Ahead /\ l <= MaxPlay /\ (cb.at # "idle" => cb.n \in 1..r)
    <3>1. left <= MaxPlay
      BY DEF DriverInv, RingsInStep
    <3> QED BY <1>3, <3>1 DEF DriverInv, RingsInStep, r, l
  <2>2. r + 1 \in Nat /\ \A n \in 1..r : n \in 1..r + 1
    BY <1>3
  <2>3. pc' \in {"left", "right"} => batch' \in 1..l /\ (r + 1) + batch' <= Room
    BY <1>1, <1>12
  <2>4. cb.at # "idle" => cb.n \in 1..r + 1
    BY <2>1, <2>2
  <2> QED BY <1>1, <1>2, <1>8, <1>9, <1>13, <2>1, <2>3, <2>4 DEF RingsInStep
<1>15. /\ queue' \in Seq(Frames) /\ Len(queue') <= Room /\ Len(queue') = q
       /\ heard \in Nat /\ heard <= given /\ heardRight <= given
       /\ cb \in [at : {"idle", "left", "right"}, n : 0..Room]
  BY <1>1, JackNumbers DEF q
<1> QED BY <1>1, <1>2, <1>3, <1>4, <1>8, <1>9, <1>10, <1>11, <1>12, <1>13, <1>14, <1>15, JackOrder

LEMMA JackRoomKeeps ==
  ASSUME DriverInv, driver = "JACK", JackRoom, UNCHANGED <<driver, alsa>>
  PROVE  DriverInv'
<1> DEFINE q == Len(queue)  r == Len(right)
<1>1. /\ pc = "room" /\ call = "play"
      /\ UNCHANGED <<opened, left, given, heard, dev, queue, right, heardRight, cb>>
  BY DEF JackRoom, DriverInv, Places, sound
<1>2. InHand = 0 /\ Ahead' = Ahead
  BY <1>1 DEF InHand, Ahead
<1>3. /\ queue \in Seq(Frames) /\ right \in Seq(Frames) /\ q <= Room /\ r <= Room
      /\ q \in Nat /\ r \in Nat /\ left \in Nat /\ given \in Nat /\ heard \in Nat
      /\ heardRight \in Nat /\ left <= given /\ heard <= given /\ heardRight <= given /\ given <= MaxGiven
      /\ batch \in 0..MaxPlay /\ Room \in Nat /\ MaxPlay \in Nat
      /\ cb \in [at : {"idle", "left", "right"}, n : 0..Room]
  BY JackNumbers, Sizes
<1>4. /\ heard + q + left = given /\ heardRight + r + left = given /\ heard = heardRight + Ahead
      /\ \A i \in 1..q : queue[i] = heard + i
      /\ \A i \in 1..r : right[i] = heardRight + i
      /\ left <= MaxPlay
      /\ cb.at # "idle" => cb.n \in 1..r
  BY <1>1, <1>2, <1>3, JackIs DEF DriverInv, RingsInStep
<1> HIDE DEF q, r
<1>5. /\ heard + q + left - 0 = given
      /\ \A i \in 1..q : heard + i <= given
  BY <1>3, <1>4
<1>6. ControlTypes'
  BY <1>1, TypesSplit DEF DriverInv, ControlTypes, JackRoom, PlayFails, Return, alsa
<1>7. CASE Gone \/ left = 0
  <2>1. /\ batch' = batch /\ pc' = "none" /\ call' \in {"fatal", "none"}
        /\ left = 0 \/ call' = "fatal"
    BY <1>7 DEF JackRoom, PlayFails, Return
  <2>2. InHand' = 0
    BY <2>1 DEF InHand
  <2>3. Places'
    BY <1>1, <2>1 DEF DriverInv, Places, alsa
  <2>4. RingsInStep'
    BY <1>1, <1>2, <1>4, <2>1 DEF RingsInStep, r
  <2>5. Len(queue') = q
    BY <1>1 DEF q
  <2> QED BY <1>1, <1>3, <1>4, <1>5, <1>6, <2>1, <2>2, <2>3, <2>4, <2>5, JackOrder DEF r
<1>8. CASE ~Gone /\ left # 0
  <2>1. /\ r < Room /\ pc' = "left" /\ call' = call
        /\ batch' = IF left < Room - r THEN left ELSE Room - r
    <3>1. HasSpace /\ batch' = ToWrite /\ pc' = "left" /\ call' = call
      BY <1>8 DEF JackRoom
    <3>2. Space(Watched) = 4 * (Room - r) + 3 /\ Room - r \in Nat
      BY <1>3, Sizes DEF Space, Sample, Watched, r
    <3> DEFINE k == Room - r
    <3>3. k \in Nat /\ left \in Nat /\ (HasSpace <=> 4 * k + 3 > 4)
      BY <1>3, <3>2 DEF HasSpace, Sample
    <3>4. ToWrite = (IF 2 * (4 * k + 3) < 2 * 4 * left THEN 2 * (4 * k + 3) ELSE 2 * 4 * left) \div (2 * 4)
      BY <3>2 DEF ToWrite, Sample
    <3> HIDE DEF k
    <3>5. k > 0
      BY <3>1, <3>2, <3>3
    <3>6. ToWrite = IF left < k THEN left ELSE k
      <4>1. CASE left > k
        <5>1. ToWrite = (2 * (4 * k + 3)) \div 8
          BY <3>3, <3>4, <4>1
        <5>2. (2 * (4 * k + 3)) \div 8 = k
          BY <3>3
        <5> QED BY <3>3, <4>1, <5>1, <5>2
      <4>2. CASE left <= k
        <5>1. ToWrite = (8 * left) \div 8
          BY <3>3, <3>4, <4>2
        <5>2. (8 * left) \div 8 = left
          BY <3>3
        <5> QED BY <3>3, <4>2, <5>1, <5>2
      <4> QED BY <3>3, <4>1, <4>2
    <3> QED BY <1>3, <3>1, <3>3, <3>5, <3>6, Sizes DEF k
  <2>2. InHand' = 0
    BY <2>1 DEF InHand
  <2>3. Places'
    BY <1>1, <2>1 DEF DriverInv, Places, alsa
  <2>4. left <= MaxPlay
    BY DEF DriverInv, RingsInStep
  <2>5. batch' \in 1..left /\ r + batch' <= Room /\ batch' \in 0..MaxPlay
    BY <1>3, <1>8, <2>1, <2>4
  <2>6. RingsInStep'
    BY <1>1, <1>2, <1>4, <2>5 DEF RingsInStep, r
  <2>7. Len(queue') = q
    BY <1>1 DEF q
  <2> QED BY <1>1, <1>3, <1>4, <1>5, <1>6, <2>2, <2>3, <2>5, <2>6, <2>7, JackOrder DEF r
<1> QED BY <1>7, <1>8

LEMMA JackThreadKeeps ==
  ASSUME DriverInv, driver = "JACK", JackThread, UNCHANGED <<driver, alsa>>
  PROVE  DriverInv'
<1> DEFINE q == Len(queue)  r == Len(right)
<1>1. UNCHANGED <<opened, call, pc, left, given, dev, batch>>
  BY DEF JackThread, JackCallback, JackReadLeft, JackReadRight, caller, sound
<1>2. InHand' = InHand /\ InHand \in {0, 1}
  BY <1>1 DEF InHand
<1>3. /\ queue \in Seq(Frames) /\ right \in Seq(Frames) /\ q <= Room /\ r <= Room
      /\ q \in Nat /\ r \in Nat /\ left \in Nat /\ given \in Nat /\ heard \in Nat
      /\ heardRight \in Nat /\ left <= given /\ heard <= given /\ heardRight <= given /\ given <= MaxGiven
      /\ batch \in 0..MaxPlay /\ Room \in Nat /\ Ahead \in Nat /\ Period \in Nat \ {0}
      /\ cb \in [at : {"idle", "left", "right"}, n : 0..Room]
  BY JackNumbers, Sizes
<1>4. /\ heard + q + left - InHand = given /\ heardRight + r + left = given /\ heard = heardRight + Ahead
      /\ \A i \in 1..q : queue[i] = heard + i
      /\ \A i \in 1..r : right[i] = heardRight + i
      /\ left <= MaxPlay
      /\ InHand = 1 => left >= 1
      /\ cb.at # "idle" => cb.n \in 1..r
      /\ pc \in {"left", "right"} => batch \in 1..left /\ r + batch <= Room
  <2>1. InHand = 1 => left >= 1
    <3>1. InHand = 1 => pc = "right"
      BY DEF InHand
    <3> QED BY <1>3, <3>1 DEF DriverInv, RingsInStep
  <2> QED BY <2>1, JackIs DEF DriverInv, RingsInStep
<1> HIDE DEF q, r
<1>5. ControlTypes'
  BY <1>1, TypesSplit DEF DriverInv, ControlTypes, alsa
<1>6. Places'
  BY <1>1 DEF DriverInv, Places, alsa
<1>7. \A i \in 1..q : heard + i <= given
  BY <1>2, <1>3, <1>4
<1>8. CASE JackCallback
  <2>1. /\ cb.at = "idle" /\ right # << >> /\ cb' = [at |-> "left", n |-> Available]
        /\ UNCHANGED <<heard, queue, right, heardRight>>
    BY <1>8 DEF JackCallback, sound
  <2>2. Available \in 1..r /\ Available \in 0..Room
    <3>1. r > 0
      BY <1>3, <2>1, EmptySeq DEF r
    <3>2. Available \in {Period, r} /\ Available <= r
      BY <1>3 DEF Available, r
    <3> QED BY <1>3, <3>1, <3>2
  <2>3. cb' \in [at : {"idle", "left", "right"}, n : 0..Room] /\ cb'.at # "right" /\ cb'.n \in 1..r
    BY <2>1, <2>2
  <2>4. Ahead' = 0 /\ Ahead = 0
    BY <2>1, <2>3 DEF Ahead
  <2>5. RingsInStep'
    BY <1>1, <1>4, <2>1, <2>3, <2>4 DEF RingsInStep, r
  <2>6. Len(queue') = q /\ Len(right') = r
    BY <2>1 DEF q, r
  <2> QED BY <1>1, <1>2, <1>3, <1>4, <1>5, <1>6, <1>7, <2>1, <2>3, <2>5, <2>6, JackOrder
<1>9. CASE JackReadLeft
  <2> DEFINE n == cb.n
  <2>1. /\ cb.at = "left" /\ heard' = queue[n] /\ queue' = Taken(queue, n)
        /\ cb' = [cb EXCEPT !.at = "right"] /\ UNCHANGED <<right, heardRight>>
    BY <1>9 DEF JackReadLeft
  <2>2. Ahead = 0 /\ n \in 1..r /\ cb' = [at |-> "right", n |-> n]
    BY <1>3, <1>4, <2>1 DEF Ahead
  <2>3. Ahead' = n
    BY <2>2 DEF Ahead
  <2> HIDE DEF n
  <2>4. n \in 1..q
    BY <1>2, <1>3, <1>4, <2>2
  <2>5. /\ queue' \in Seq(Frames) /\ Len(queue') = q - n /\ heard' = heard + n
        /\ \A i \in 1..q - n : queue'[i] = (heard + n) + i
    <3>1. /\ queue \in Seq(Frames) /\ heard \in Nat /\ n \in 1..Len(queue)
          /\ \A i \in 1..Len(queue) : queue[i] = heard + i
      BY <1>3, <1>4, <2>4 DEF q
    <3>2. /\ Taken(queue, n) \in Seq(Frames) /\ Len(Taken(queue, n)) = Len(queue) - n
          /\ queue[n] = heard + n
          /\ \A i \in 1..Len(queue) - n : Taken(queue, n)[i] = (heard + n) + i
      BY ZenonT(20), <3>1, SomeFewer
    <3> QED BY <2>1, <3>2 DEF q
  <2> DEFINE h == heard + n  m == q - n
  <2>6. /\ h \in Nat /\ h <= given /\ m <= Room /\ h + m + left - InHand = given /\ m \in Nat
        /\ h = heardRight + n /\ n \in 0..Room /\ n \in Nat
    BY <1>2, <1>3, <1>4, <1>7, <2>2, <2>4
  <2>7. ASSUME NEW i \in 1..m PROVE h + i <= given
    BY <1>2, <1>3, <1>4, <2>4, <2>6
  <2> HIDE DEF h, m
  <2>8. cb' \in [at : {"idle", "left", "right"}, n : 0..Room] /\ cb'.n = n
    BY <2>2, <2>6
  <2>9. heard' = h /\ Len(queue') = m /\ \A i \in 1..m : queue'[i] = h + i
    BY <2>5 DEF h, m
  <2>10. RingsInStep'
    BY <1>1, <1>4, <2>1, <2>2, <2>3, <2>6, <2>8, <2>9 DEF RingsInStep, r
  <2>11. /\ Len(right') = r /\ Len(queue') <= Room /\ heard' \in Nat /\ heard' <= given
         /\ \A i \in 1..Len(queue') : queue'[i] = heard' + i
         /\ \A i \in 1..Len(queue') : heard' + i <= given
         /\ heard' + Len(queue') + left' - InHand' = given
    BY <1>1, <1>2, <2>1, <2>6, <2>7, <2>9 DEF r
  <2> QED BY <1>1, <1>3, <1>5, <1>6, <2>1, <2>5, <2>8, <2>10, <2>11, JackOrder
<1>10. CASE JackReadRight
  <2> DEFINE n == cb.n
  <2>1. /\ cb.at = "right" /\ heardRight' = right[n] /\ right' = Taken(right, n)
        /\ cb' = NoCallback /\ UNCHANGED <<heard, queue>>
    BY <1>10 DEF JackReadRight, sound
  <2>2. Ahead = n /\ n \in 1..r
    BY <1>3, <1>4, <2>1 DEF Ahead
  <2>3. /\ Ahead' = 0 /\ cb'.at = "idle"
        /\ cb' \in [at : {"idle", "left", "right"}, n : 0..Room]
    BY <1>3, <2>1 DEF Ahead, NoCallback
  <2> HIDE DEF n
  <2>4. /\ right' \in Seq(Frames) /\ Len(right') = r - n /\ heardRight' = heardRight + n
        /\ \A i \in 1..r - n : right'[i] = (heardRight + n) + i
    <3>1. /\ right \in Seq(Frames) /\ heardRight \in Nat /\ n \in 1..Len(right)
          /\ \A i \in 1..Len(right) : right[i] = heardRight + i
      BY <1>3, <1>4, <2>2 DEF r
    <3>2. /\ Taken(right, n) \in Seq(Frames) /\ Len(Taken(right, n)) = Len(right) - n
          /\ right[n] = heardRight + n
          /\ \A i \in 1..Len(right) - n : Taken(right, n)[i] = (heardRight + n) + i
      BY ZenonT(20), <3>1, SomeFewer
    <3> QED BY <2>1, <3>2 DEF r
  <2> DEFINE h == heardRight + n  m == r - n
  <2>5. /\ h \in Nat /\ h <= given /\ m <= Room /\ h + m + left = given /\ m \in Nat /\ h = heard
        /\ heard = h + 0
    BY <1>3, <1>4, <2>2
  <2>6. pc \in {"left", "right"} => batch \in 1..left /\ m + batch <= Room
    BY <1>3, <1>4, <2>2
  <2> HIDE DEF h, m
  <2>7. heardRight' = h /\ Len(right') = m /\ \A i \in 1..m : right'[i] = h + i
    BY <2>4 DEF h, m
  <2>8. RingsInStep'
    BY <1>1, <1>4, <2>1, <2>3, <2>5, <2>6, <2>7 DEF RingsInStep
  <2>9. Len(queue') = q
    BY <2>1 DEF q
  <2> QED BY <1>1, <1>2, <1>3, <1>4, <1>5, <1>6, <1>7, <2>1, <2>3, <2>4, <2>5, <2>7, <2>8, <2>9, JackOrder
<1> QED BY <1>8, <1>9, <1>10 DEF JackThread

LEMMA JackKeeps ==
  ASSUME DriverInv, Jack
  PROVE  DriverInv'
<1>1. driver = "JACK" /\ UNCHANGED <<driver, alsa>> /\ JackNext
  BY DEF Jack
<1>2. ControlTypes /\ SoundTypes /\ AlsaTypes /\ JackTypes /\ Places
  BY TypesSplit DEF DriverInv
<1>3. CASE JackOpen \/ JackClose \/ JackReset \/ JackShutdown
  <2>1. UNCHANGED <<call, pc, sound, jack>>
    BY <1>3 DEF JackOpen, JackClose, JackReset, JackShutdown, caller
  <2>2. ControlTypes'
    <3>1. opened' \in BOOLEAN
      BY <1>2, <1>3 DEF ControlTypes, JackOpen, JackClose, JackReset, JackShutdown, caller
    <3>2. short' \in BOOLEAN
      BY <1>1, <1>2 DEF ControlTypes, alsa
    <3>3. dev' \in {dev, "playing", "silent", "gone"}
      BY <1>3 DEF JackOpen, JackClose, JackReset, JackShutdown
    <3> QED BY <1>1, <1>2, <2>1, <3>1, <3>2, <3>3 DEF ControlTypes
  <2>3. pc' = "none" \/ opened' = opened
    BY <1>2, <1>3, <2>1 DEF Places, Idle, JackOpen, JackClose, JackReset, JackShutdown, caller
  <2>4. Places'
    BY <1>1, <1>2, <2>1, <2>3 DEF Places, sound, alsa, jack
  <2> QED BY <1>1, <2>1, <2>2, <2>4, ControlStep DEF alsa
<1>4. CASE JackPlay
  <2>1. /\ PlayCall("room") /\ UNCHANGED <<opened, heard, dev, queue, jack>>
        /\ call' = "play" /\ pc' = "room" /\ opened'
    BY <1>4 DEF JackPlay, PlayCall
  <2>2. /\ Counted' /\ InOrder' /\ RingsInStep'
        /\ left' \in Frames /\ given' \in Frames /\ left' > 0
    BY <1>1, <2>1, Given
  <2>3. ControlTypes' /\ SoundTypes' /\ AlsaTypes' /\ JackTypes'
    BY <1>1, <1>2, <2>1, <2>2 DEF ControlTypes, SoundTypes, AlsaTypes, JackTypes, alsa, jack
  <2>4. Places'
    BY <1>1, <1>2, <2>1 DEF Places, alsa
  <2> QED BY <2>2, <2>3, <2>4, TypesSplit DEF DriverInv
<1> QED
  BY <1>1, <1>3, <1>4, JackRoomKeeps, JackWriteLeftKeeps, JackWriteRightKeeps, JackThreadKeeps
  DEF JackNext, JackStep

-----------------------------------------------------------------------------
(* The buffer of ALSA                                                      *)

LEMMA AlsaNumbers ==
  ASSUME DriverInv, driver = "ALSA"
  PROVE  /\ queue \in Seq(Frames) /\ buf \in Seq(Frames) /\ Len(queue) <= Room /\ Len(buf) <= BufSize
         /\ Len(queue) \in Nat /\ Len(buf) \in Nat /\ written \in 0..Len(buf) /\ written \in Nat
         /\ left \in Nat /\ given \in Nat /\ heard \in Nat
         /\ left <= given /\ heard <= given /\ given <= MaxGiven
         /\ pc \in {"none", "copy", "chunks", "drain"} /\ InHand = 0
         /\ heard + Len(queue) + (Len(buf) - written) + left >= given
         /\ call # "close" => heard + Len(queue) + (Len(buf) - written) + left = given
         /\ \A i \in 1..Len(queue) : queue[i] = Frame(heard + i)
         /\ \A i \in 1..Len(buf) - written : buf[written + i] = Frame(heard + Len(queue) + i)
<1>1. /\ queue \in Seq(Frames) /\ buf \in Seq(Frames) /\ Len(queue) <= Room /\ Len(buf) <= BufSize
      /\ written \in 0..Len(buf)
  BY DEF DriverInv, TypeOK
<1>2. /\ Len(queue) \in Nat /\ Len(buf) \in Nat /\ written \in Nat /\ written <= Len(buf)
      /\ left \in Nat /\ given \in Nat /\ heard \in Nat /\ given <= MaxGiven
  BY NumbersAre DEF DriverInv
<1>3. pc \in {"none", "copy", "chunks", "drain"}
  BY DEF DriverInv, TypeOK, Places
<1>4. InHand = 0
  BY <1>3 DEF InHand
<1>5. Accounted = heard + Len(queue) + (Len(buf) - written) + left
  BY <1>2, <1>4 DEF Accounted, InBuf
<1>6. /\ left <= given /\ heard <= given /\ Accounted >= given
      /\ call # "close" => Accounted = given
  BY DEF DriverInv, Counted
<1> QED BY <1>1, <1>2, <1>3, <1>4, <1>5, <1>6 DEF DriverInv, InOrder, InBuf

(* What makes the invariant of a step that moves frames in buf.            *)
LEMMA AlsaOrder ==
  ASSUME DriverInv, driver = "ALSA", UNCHANGED <<driver, jack, given>>, ControlTypes', Places',
         queue' \in Seq(Frames), Len(queue') <= Room, buf' \in Seq(Frames), Len(buf') <= BufSize,
         written' \in 0..Len(buf'), left' \in Nat, heard' \in Nat, left' <= given, heard' <= given,
         heard' + Len(queue') + (Len(buf') - written') + left' >= given,
         call' # "close" => heard' + Len(queue') + (Len(buf') - written') + left' = given,
         \A i \in 1..Len(queue') : queue'[i] = Frame(heard' + i),
         \A i \in 1..Len(buf') - written' : buf'[written' + i] = Frame(heard' + Len(queue') + i)
  PROVE  DriverInv'
<1> DEFINE h == heard'  q == Len(queue')  m == Len(buf') - written'  l == left'
<1>1. given \in Nat /\ given <= MaxGiven /\ given' = given
  BY NumbersAre DEF DriverInv
<1>2. pc' # "right"
  BY DEF Places
<1>3. InHand' = 0 /\ InBuf' = m
  BY <1>2 DEF InHand, InBuf
<1>4. SoundTypes' /\ AlsaTypes' /\ JackTypes'
  <2>1. JackTypes'
    BY TypesSplit DEF DriverInv, JackTypes, jack
  <2>2. \A n \in Nat : n <= given => n \in Frames
    BY <1>1, Sizes DEF Frames
  <2>3. left' \in Frames /\ heard' \in Frames /\ given \in Frames
    BY SMTT(20), <1>1, <2>2
  <2> QED BY <1>1, <2>1, <2>3 DEF SoundTypes, AlsaTypes
<1>5. h \in Nat /\ q \in Nat /\ m \in Nat /\ l \in Nat
  <2>1. q \in Nat /\ Len(buf') \in Nat
    BY LenProperties
  <2>2. \A n \in Nat : \A k \in 0..n : n - k \in Nat
    OBVIOUS
  <2> QED BY <2>1, <2>2
<1>6. /\ h + q + m + l >= given /\ h <= given /\ l <= given
      /\ call' # "close" => h + q + m + l = given
  OBVIOUS
<1>7. Accounted' = h + q + m + l - 0
  BY <1>3 DEF Accounted
<1>8. RingsInStep'
  BY DEF RingsInStep
<1>9. InOrder'
  <2>1. \A n : Frame(n)' = Frame(n)
    BY <1>1 DEF Frame
  <2> QED BY <1>3, <2>1 DEF InOrder
<1> HIDE DEF h, q, m, l
<1>10. Accounted' = h + q + m + l
  BY <1>5, <1>7
<1>11. Counted'
  <2>1. heard' <= given /\ left' <= given
    BY <1>6 DEF h, l
  <2> QED BY <1>1, <1>6, <1>10, <2>1 DEF Counted
<1> QED BY <1>4, <1>8, <1>9, <1>11, TypesSplit DEF DriverInv

LEMMA AlsaCopyKeeps ==
  ASSUME DriverInv, driver = "ALSA", AlsaCopy, UNCHANGED <<driver, jack>>
  PROVE  DriverInv'
<1> DEFINE q == Len(queue)  m == Len(buf)  n == ToCopy  s == SubSeq(Argument, 1, n)
<1>1. /\ pc = "copy" /\ buf' = buf \o s /\ left' = left - n /\ pc' = "chunks"
      /\ UNCHANGED <<opened, call, given, heard, dev, queue, written, short>>
  BY DEF AlsaCopy
<1>2. call = "play" /\ written = 0 /\ opened' = opened
  BY <1>1 DEF DriverInv, Places
<1>3. /\ queue \in Seq(Frames) /\ buf \in Seq(Frames) /\ q <= Room /\ m <= BufSize
      /\ q \in Nat /\ m \in Nat /\ left \in Nat /\ given \in Nat /\ heard \in Nat
      /\ left <= given /\ heard <= given /\ BufSize \in Nat
      /\ heard + q + m + left = given
      /\ \A i \in 1..q : queue[i] = Frame(heard + i)
      /\ \A i \in 1..m : buf[i] = Frame(heard + q + i)
  <2>1. m - 0 = m /\ \A i \in 1..m : 0 + i = i
    BY AlsaNumbers
  <2> QED BY <1>2, <2>1, AlsaNumbers, Sizes
<1>4. n \in 0..left /\ m + n <= BufSize
  <2>1. buf_fill = m
    BY <1>2, <1>3 DEF buf_fill
  <2> QED BY <1>3, <2>1 DEF ToCopy
<1> HIDE DEF q, m, n
<1>5. s \in Seq(Frames) /\ Len(s) = n /\ \A i \in 1..n : s[i] = given - left + i
  <2>1. /\ Argument \in Seq(Frames) /\ Len(Argument) = left
        /\ \A i \in 1..left : Argument[i] = given - left + i
    BY <1>3, ArgumentIs DEF DriverInv
  <2>2. n \in 0..Len(Argument) /\ \A i \in 1..n : i \in 1..left
    BY <1>3, <1>4, <2>1
  <2>3. s \in Seq(Frames) /\ Len(s) = n /\ \A i \in 1..n : s[i] = Argument[i]
    BY <2>1, <2>2, SplitSeq
  <2> QED BY <2>1, <2>2, <2>3
<1> HIDE DEF s
<1> DEFINE b == buf \o s  l == left - n
<1>6. /\ b \in Seq(Frames) /\ Len(b) = m + n
      /\ \A i \in 1..m : b[i] = buf[i]
      /\ \A i \in 1..m + n : i > m => i - m \in 1..n /\ b[i] = s[i - m]
  <2>1. buf \in Seq(Frames) /\ s \in Seq(Frames)
    BY <1>3, <1>5
  <2>2. /\ b \in Seq(Frames) /\ Len(b) = m + Len(s)
        /\ \A i \in 1..m : b[i] = buf[i]
        /\ \A i \in 1..m + Len(s) : i > m => i - m \in 1..Len(s) /\ b[i] = s[i - m]
    BY <2>1, LongerBy DEF m
  <2> QED BY <1>5, <2>2
<1>7. buf' = b /\ left' = l
  BY <1>1
<1> HIDE DEF b
<1>8. ASSUME NEW i \in 1..m + n PROVE b[0 + i] = Frame(heard + q + i)
  <2>1. CASE i <= m
    <3>1. i \in 1..m /\ 0 + i = i
      BY <1>3, <2>1
    <3> QED BY <1>3, <1>6, <3>1
  <2>2. CASE i > m
    <3>1. i - m \in 1..n /\ b[i] = s[i - m] /\ 0 + i = i
      BY <1>6, <2>2
    <3>2. given - left + (i - m) = heard + q + i /\ heard + q + i <= given
      BY <1>3, <1>4, <3>1
    <3> QED BY <1>5, <3>1, <3>2 DEF Frame
  <2> QED BY <1>3, <1>4, <2>1, <2>2
<1>9. /\ l \in Nat /\ l <= given /\ 0 \in 0..m + n /\ m + n - 0 = m + n
      /\ heard + q + (m + n) + l = given
  BY <1>3, <1>4
<1> HIDE DEF l
<1>10. ControlTypes'
  BY <1>1, TypesSplit DEF DriverInv, ControlTypes
<1>11. Places'
  BY <1>1, <1>2 DEF DriverInv, Places, jack
<1>12. heard' = heard /\ Len(queue') = q /\ written' = 0 /\ queue' = queue
  BY <1>1, <1>2 DEF q
<1>13. /\ Len(b) <= BufSize /\ 0 \in 0..Len(b)
       /\ heard + q + (Len(b) - 0) + l = given
       /\ heard + q + (Len(b) - 0) + l >= given
       /\ \A i \in 1..Len(b) - 0 : b[0 + i] = Frame(heard + q + i)
  <2>1. Len(b) <= BufSize
    BY <1>4, <1>6
  <2>2. Len(b) - 0 = m + n /\ 0 \in 0..Len(b)
    BY <1>6, <1>9
  <2>3. heard + q + (Len(b) - 0) + l = given
    BY <1>9, <2>2
  <2>4. heard + q + (Len(b) - 0) + l >= given
    BY <1>3, <2>3
  <2>5. \A i \in 1..m + n : b[0 + i] = Frame(heard + q + i)
    BY <1>8
  <2>6. \A i \in 1..Len(b) - 0 : b[0 + i] = Frame(heard + q + i)
    BY <2>2, <2>5
  <2> QED BY <2>1, <2>2, <2>3, <2>4, <2>6
<1>14. /\ UNCHANGED <<driver, jack, given>> /\ queue' \in Seq(Frames) /\ Len(queue') <= Room
       /\ buf' \in Seq(Frames) /\ Len(buf') <= BufSize /\ written' \in 0..Len(buf')
       /\ left' \in Nat /\ heard' \in Nat /\ left' <= given /\ heard' <= given
       /\ heard' + Len(queue') + (Len(buf') - written') + left' >= given
       /\ call' # "close" => heard' + Len(queue') + (Len(buf') - written') + left' = given
  BY <1>1, <1>3, <1>6, <1>7, <1>9, <1>12, <1>13 DEF q
<1>15. /\ \A i \in 1..Len(queue') : queue'[i] = Frame(heard' + i)
       /\ \A i \in 1..Len(buf') - written' : buf'[written' + i] = Frame(heard' + Len(queue') + i)
  BY <1>3, <1>7, <1>12, <1>13
<1> QED BY <1>10, <1>11, <1>14, <1>15, AlsaOrder

LEMMA AlsaWriteKeeps ==
  ASSUME DriverInv, driver = "ALSA", AlsaWrite, UNCHANGED <<driver, jack>>
  PROVE  DriverInv'
<1>1. PICK n \in 1..Chunk : Takes(n) /\ written' = written + n
  BY DEF AlsaWrite
<1> DEFINE q == Len(queue)  m == Len(buf)  w == written  s == SubSeq(buf, w + 1, w + n)
<1>2. /\ pc = "chunks" /\ n <= Room - q /\ queue' = queue \o s /\ m - w >= Chunk
      /\ dev' = "running" /\ short' \in BOOLEAN /\ UNCHANGED <<caller, left, given, heard, buf>>
  BY <1>1 DEF AlsaWrite, Takes, WholeChunk, buf_fill
<1>3. /\ queue \in Seq(Frames) /\ buf \in Seq(Frames) /\ m <= BufSize /\ Room \in Nat
      /\ q \in Nat /\ m \in Nat /\ w \in 0..m /\ left \in Nat /\ given \in Nat /\ heard \in Nat
      /\ left <= given /\ heard <= given /\ n \in Nat /\ n <= m - w
      /\ heard + q + (m - w) + left >= given
      /\ call # "close" => heard + q + (m - w) + left = given
      /\ \A i \in 1..q : queue[i] = Frame(heard + i)
      /\ \A i \in 1..m - w : buf[w + i] = Frame(heard + q + i)
  <2>1. n \in Nat /\ n <= Chunk /\ Chunk \in Nat
    BY Sizes
  <2> QED BY <1>2, <2>1, AlsaNumbers, Sizes
<1> HIDE DEF q, m
<1>4. s \in Seq(Frames) /\ Len(s) = n /\ \A i \in 1..n : s[i] = buf[w + i]
  <2> DEFINE from == w + 1  to == w + n
  <2>1. from \in Nat \ {0} /\ to \in 0..Len(buf) /\ from <= to + 1
    BY <1>3 DEF m
  <2>2. buf \in Seq(Frames)
    BY <1>3
  <2>3. to - from + 1 = n /\ \A i \in 1..n : from + i - 1 = w + i
    BY <1>3
  <2> HIDE DEF from, to
  <2>4. /\ SubSeq(buf, from, to) \in Seq(Frames) /\ Len(SubSeq(buf, from, to)) = to - from + 1
        /\ \A i \in 1..(to - from + 1) : SubSeq(buf, from, to)[i] = buf[from + i - 1]
    BY <2>1, <2>2, Piece
  <2>5. s = SubSeq(buf, from, to)
    BY DEF from, to
  <2> QED BY <2>3, <2>4, <2>5
<1> HIDE DEF s
<1>5. /\ queue' \in Seq(Frames) /\ Len(queue') = q + n
      /\ \A i \in 1..q : queue'[i] = queue[i]
      /\ \A i \in 1..q + n : i > q => i - q \in 1..n /\ queue'[i] = s[i - q]
  <2>1. queue \in Seq(Frames) /\ s \in Seq(Frames)
    BY <1>3, <1>4
  <2>2. /\ queue \o s \in Seq(Frames) /\ Len(queue \o s) = q + Len(s)
        /\ \A i \in 1..q : (queue \o s)[i] = queue[i]
        /\ \A i \in 1..q + Len(s) : i > q => i - q \in 1..Len(s) /\ (queue \o s)[i] = s[i - q]
    BY <2>1, LongerBy DEF q
  <2> QED BY <1>2, <1>4, <2>2
<1>6. ASSUME NEW i \in 1..q + n PROVE queue'[i] = Frame(heard + i)
  <2>1. CASE i <= q
    <3>1. i \in 1..q
      BY <1>3, <2>1
    <3> QED BY <1>3, <1>5, <3>1
  <2>2. CASE i > q
    <3>1. i - q \in 1..n /\ queue'[i] = s[i - q]
      BY <1>5, <2>2
    <3>2. i - q \in 1..m - w /\ heard + q + (i - q) = heard + i
      BY <1>3, <3>1
    <3> QED BY <1>3, <1>4, <3>1, <3>2
  <2> QED BY <1>3, <2>1, <2>2
<1>7. ASSUME NEW i \in 1..m - (w + n) PROVE buf[(w + n) + i] = Frame(heard + (q + n) + i)
  <2>1. n + i \in 1..m - w /\ w + (n + i) = (w + n) + i /\ heard + q + (n + i) = heard + (q + n) + i
    BY <1>3
  <2> QED BY <1>3, <2>1
<1>8. /\ w + n \in 0..m /\ q + n <= Room /\ q + n \in Nat
      /\ heard + (q + n) + (m - (w + n)) + left >= given
      /\ call # "close" => heard + (q + n) + (m - (w + n)) + left = given
  BY <1>2, <1>3
<1>9. ControlTypes'
  BY <1>2, TypesSplit DEF DriverInv, ControlTypes, caller
<1>10. Places'
  BY <1>2 DEF DriverInv, Places, jack, caller
<1>11. buf' = buf /\ left' = left /\ heard' = heard /\ given' = given /\ written' = w + n /\ call' = call
  BY <1>1, <1>2 DEF caller
<1>12. /\ Len(queue') <= Room /\ Len(buf) <= BufSize /\ w + n \in 0..Len(buf)
       /\ heard + (q + n) + (Len(buf) - (w + n)) + left >= given
       /\ call' # "close" => heard + (q + n) + (Len(buf) - (w + n)) + left = given
       /\ \A i \in 1..Len(buf) - (w + n) : buf[(w + n) + i] = Frame(heard + (q + n) + i)
  BY <1>3, <1>5, <1>7, <1>8, <1>11 DEF m
<1>13. /\ UNCHANGED <<driver, jack, given>> /\ queue' \in Seq(Frames) /\ Len(queue') <= Room
       /\ buf' \in Seq(Frames) /\ Len(buf') <= BufSize /\ written' \in 0..Len(buf')
       /\ left' \in Nat /\ heard' \in Nat /\ left' <= given /\ heard' <= given
       /\ heard' + Len(queue') + (Len(buf') - written') + left' >= given
       /\ call' # "close" => heard' + Len(queue') + (Len(buf') - written') + left' = given
  BY <1>3, <1>5, <1>8, <1>11, <1>12
<1>14. /\ \A i \in 1..Len(queue') : queue'[i] = Frame(heard' + i)
       /\ \A i \in 1..Len(buf') - written' : buf'[written' + i] = Frame(heard' + Len(queue') + i)
  BY <1>5, <1>6, <1>11, <1>12
<1> QED BY <1>9, <1>10, <1>13, <1>14, AlsaOrder

LEMMA AlsaMoveRestKeeps ==
  ASSUME DriverInv, driver = "ALSA", AlsaMoveRest, UNCHANGED <<driver, jack>>
  PROVE  DriverInv'
<1> DEFINE q == Len(queue)  m == Len(buf)  w == written
<1>1. /\ pc = "chunks" /\ m - w < Chunk /\ buf' = Rest /\ written' = 0
      /\ UNCHANGED <<opened, left, given, heard, queue, dev, short>>
  <2>1. m - w \in Nat /\ Chunk \in Nat
    BY AlsaNumbers, Sizes
  <2> QED BY <2>1 DEF AlsaMoveRest, WholeChunk, buf_fill, sound
<1>2. \/ call = "close" /\ pc' = "drain" /\ call' = call
      \/ call = "play" /\ left > 0 /\ pc' = "copy" /\ call' = call
      \/ call = "play" /\ left = 0 /\ pc' = "none" /\ call' = "none"
  BY DEF AlsaMoveRest, Return
<1>3. /\ queue \in Seq(Frames) /\ buf \in Seq(Frames) /\ m <= BufSize /\ q <= Room
      /\ q \in Nat /\ m \in Nat /\ w \in 0..m /\ left \in Nat /\ given \in Nat /\ heard \in Nat
      /\ left <= given /\ heard <= given /\ BufSize \in Nat
      /\ heard + q + (m - w) + left >= given
      /\ call # "close" => heard + q + (m - w) + left = given
      /\ \A i \in 1..q : queue[i] = Frame(heard + i)
      /\ \A i \in 1..m - w : buf[w + i] = Frame(heard + q + i)
  BY AlsaNumbers, Sizes
<1>4. /\ buf' \in Seq(Frames) /\ Len(buf') = m - w
      /\ \A i \in 1..m - w : buf'[i] = buf[w + i]
  BY <1>1, <1>3, SplitSeq DEF Rest
<1> DEFINE k == m - w
<1>5. k \in Nat /\ k <= BufSize /\ k < Chunk /\ k - 0 = k /\ 0 \in 0..k /\ \A i \in 1..k : 0 + i = i
  BY <1>1, <1>3
<1> HIDE DEF k
<1>6. Len(buf') = k /\ \A i \in 1..k : buf'[0 + i] = Frame(heard + q + i)
  BY <1>3, <1>4, <1>5 DEF k
<1>7. ControlTypes'
  BY <1>1, <1>2, TypesSplit DEF DriverInv, ControlTypes
<1>8. Places'
  BY <1>1, <1>2, <1>5, <1>6 DEF DriverInv, Places, jack
<1>9. /\ Len(queue') = q /\ queue' = queue /\ heard' = heard /\ left' = left /\ written' = 0
      /\ call' # "close" => call # "close"
  BY <1>1, <1>2
<1> HIDE DEF q
<1>10. /\ UNCHANGED <<driver, jack, given>> /\ queue' \in Seq(Frames) /\ Len(queue') <= Room
       /\ buf' \in Seq(Frames) /\ Len(buf') <= BufSize /\ written' \in 0..Len(buf')
       /\ left' \in Nat /\ heard' \in Nat /\ left' <= given /\ heard' <= given
       /\ heard' + Len(queue') + (Len(buf') - written') + left' >= given
       /\ call' # "close" => heard' + Len(queue') + (Len(buf') - written') + left' = given
  BY <1>1, <1>3, <1>4, <1>5, <1>6, <1>9 DEF k
<1>11. /\ \A i \in 1..Len(queue') : queue'[i] = Frame(heard' + i)
       /\ \A i \in 1..Len(buf') - written' : buf'[written' + i] = Frame(heard' + Len(queue') + i)
  BY <1>3, <1>5, <1>6, <1>9
<1> QED BY <1>7, <1>8, <1>10, <1>11, AlsaOrder

LEMMA AlsaCloseKeeps ==
  ASSUME DriverInv, driver = "ALSA", AlsaClose, UNCHANGED <<driver, jack>>
  PROVE  DriverInv'
<1> DEFINE q == Len(queue)  m == Len(buf)
<1>1. /\ call = "none" /\ opened /\ call' = "close" /\ UNCHANGED <<opened, sound, dev, written, short>>
      /\ pc = "none" /\ written = 0 /\ left = 0 /\ m < Chunk
  BY DEF AlsaClose, Idle, DriverInv, Places
<1>2. UNCHANGED <<left, given, heard, queue>>
  BY <1>1 DEF sound
<1>3. buf_fill = m /\ m \in Nat
  BY <1>1, AlsaNumbers DEF buf_fill
<1>4. CASE m = 0
  <2>1. buf' = buf /\ pc' = "drain"
    BY <1>3, <1>4 DEF AlsaClose, Unplayed
  <2>2. ControlTypes' /\ Places'
    BY <1>1, <1>2, <2>1, TypesSplit DEF DriverInv, ControlTypes, Places, jack
  <2> QED BY <1>1, <2>1, <2>2, ControlStep DEF alsa
<1>5. CASE m > 0
  <2> DEFINE z == [i \in 1..(Chunk - m) |-> 0]
  <2>1. buf' = buf \o z /\ pc' = "chunks"
    BY <1>3, <1>5 DEF AlsaClose, Unplayed, Padded
  <2>2. /\ queue \in Seq(Frames) /\ buf \in Seq(Frames) /\ q <= Room
        /\ q \in Nat /\ m \in Nat /\ given \in Nat /\ heard \in Nat /\ heard <= given
        /\ heard + q + m = given /\ Chunk \in Nat /\ Chunk <= BufSize
        /\ \A i \in 1..q : queue[i] = Frame(heard + i)
        /\ \A i \in 1..m : buf[i] = Frame(heard + q + i)
    <3>1. m - 0 = m /\ \A i \in 1..m : 0 + i = i
      BY <1>3
    <3>2. heard + q + (m - 0) + 0 = given
      BY <1>1, AlsaNumbers
    <3> QED BY <1>1, <3>1, <3>2, AlsaNumbers, Sizes
  <2>3. z \in Seq(Frames) /\ Len(z) = Chunk - m /\ \A i \in 1..Chunk - m : z[i] = 0
    BY <1>1, <2>2, Sizes
  <2> HIDE DEF z, m, q
  <2>4. /\ buf' \in Seq(Frames) /\ Len(buf') = Chunk
        /\ \A i \in 1..m : buf'[i] = buf[i]
        /\ \A i \in 1..Chunk : i > m => buf'[i] = 0
    <3>1. /\ buf \o z \in Seq(Frames) /\ Len(buf \o z) = m + Len(z)
          /\ \A i \in 1..m : (buf \o z)[i] = buf[i]
          /\ \A i \in 1..m + Len(z) : i > m => i - m \in 1..Len(z) /\ (buf \o z)[i] = z[i - m]
      BY <2>2, <2>3, LongerBy DEF m
    <3>2. m + (Chunk - m) = Chunk
      BY <2>2
    <3> QED BY <2>1, <2>3, <3>1, <3>2
  <2>5. ASSUME NEW i \in 1..Chunk PROVE buf'[0 + i] = Frame(heard + q + i)
    <3>0. 0 + i = i
      OBVIOUS
    <3>1. CASE i <= m
      <4>1. i \in 1..m
        BY <2>2, <3>1
      <4> QED BY <2>2, <2>4, <3>0, <4>1
    <3>2. CASE i > m
      <4>1. ~(heard + q + i <= given)
        BY <2>2, <3>2
      <4> QED BY <2>4, <3>0, <3>2, <4>1 DEF Frame
    <3> QED BY <2>2, <3>1, <3>2
  <2>6. ControlTypes'
    BY <1>1, <2>1, TypesSplit DEF DriverInv, ControlTypes
  <2>7. Places'
    BY <1>1, <1>2, <2>1 DEF DriverInv, Places, jack
  <2>8. /\ Len(queue') = q /\ queue' = queue /\ heard' = heard
        /\ left' = 0 /\ written' = 0 /\ call' = "close"
    BY <1>1, <1>2 DEF q
  <2>9. Chunk - 0 = Chunk /\ 0 \in 0..Chunk /\ heard + q + Chunk + 0 >= given
    BY <1>1, <2>2 DEF m
  <2>10. /\ UNCHANGED <<driver, jack, given>> /\ queue' \in Seq(Frames) /\ Len(queue') <= Room
         /\ buf' \in Seq(Frames) /\ Len(buf') <= BufSize /\ written' \in 0..Len(buf')
         /\ left' \in Nat /\ heard' \in Nat /\ left' <= given /\ heard' <= given
         /\ heard' + Len(queue') + (Len(buf') - written') + left' >= given
    BY <1>2, <2>2, <2>4, <2>8, <2>9
  <2>11. /\ \A i \in 1..Len(queue') : queue'[i] = Frame(heard' + i)
         /\ \A i \in 1..Len(buf') - written' : buf'[written' + i] = Frame(heard' + Len(queue') + i)
    BY <2>2, <2>4, <2>5, <2>8, <2>9
  <2> QED BY <2>6, <2>7, <2>8, <2>10, <2>11, AlsaOrder
<1> QED BY <1>3, <1>4, <1>5

(* Nothing is left anywhere after n frames have been heard or given up.    *)
LEMMA AlsaEmptied ==
  ASSUME DriverInv, driver = "ALSA", UNCHANGED <<driver, jack, given, left>>, ControlTypes', Places',
         left = 0, queue' = << >>, buf' = << >>, written' = 0, heard' = given
  PROVE  DriverInv'
<1>1. given \in Nat /\ 0 <= Room /\ 0 <= BufSize /\ << >> \in Seq(Frames) /\ Len(<< >>) = 0
  BY AlsaNumbers, Sizes
<1>2. /\ 0 - 0 = 0 /\ 0 \in 0..0 /\ given + 0 + 0 + 0 = given /\ given + 0 + 0 + 0 >= given
      /\ 0 <= given /\ given <= given
  BY <1>1
<1>3. /\ Len(queue') = 0 /\ Len(buf') = 0 /\ left' = 0
      /\ queue' \in Seq(Frames) /\ buf' \in Seq(Frames)
  BY <1>1
<1>4. /\ Len(queue') <= Room /\ Len(buf') <= BufSize /\ written' \in 0..Len(buf')
      /\ left' \in Nat /\ heard' \in Nat /\ left' <= given /\ heard' <= given
      /\ heard' + Len(queue') + (Len(buf') - written') + left' >= given
      /\ heard' + Len(queue') + (Len(buf') - written') + left' = given
  BY <1>1, <1>2, <1>3
<1>5. /\ \A i \in 1..Len(queue') : queue'[i] = Frame(heard' + i)
      /\ \A i \in 1..Len(buf') - written' : buf'[written' + i] = Frame(heard' + Len(queue') + i)
  BY <1>2, <1>3
<1> QED BY <1>3, <1>4, <1>5, AlsaOrder

LEMMA AlsaResetKeeps ==
  ASSUME DriverInv, driver = "ALSA", AlsaReset, UNCHANGED <<driver, jack>>
  PROVE  DriverInv'
<1>1. /\ UNCHANGED <<opened, call, pc, left, given>> /\ call = "none" /\ opened
      /\ pc = "none" /\ written = 0 /\ left = 0
  BY DEF AlsaReset, caller, Idle, DriverInv, Places
<1>2. /\ Len(queue) \in Nat /\ Len(buf) \in Nat /\ given \in Nat /\ heard \in Nat
      /\ queue \in Seq(Frames) /\ buf \in Seq(Frames) /\ Len(buf) <= BufSize
      /\ heard + Len(queue) + Len(buf) = given
      /\ \A i \in 1..Len(buf) : buf[i] = Frame(heard + Len(queue) + i)
  <2>1. /\ Len(buf) - 0 = Len(buf) /\ \A i \in 1..Len(buf) : 0 + i = i
        /\ \A n \in Nat : n + 0 = n
    BY AlsaNumbers
  <2>2. heard + Len(queue) + (Len(buf) - 0) + 0 = given
    BY <1>1, AlsaNumbers
  <2>3. heard + Len(queue) + Len(buf) = given
    BY <2>2, AlsaNumbers
  <2> QED BY <1>1, <2>1, <2>3, AlsaNumbers
<1>3. short' = short /\ dev' \in {dev, "setup", "ready"}
  BY DEF AlsaReset, alsa
<1>4. ControlTypes'
  BY <1>1, <1>3, TypesSplit DEF DriverInv, ControlTypes, SoundTypes
<1>5. CASE UNCHANGED <<heard, dev, queue, alsa>>
  <2>1. Places'
    BY <1>1, <1>5 DEF DriverInv, Places, alsa, jack
  <2> QED BY <1>1, <1>4, <1>5, <2>1, ControlStep DEF sound, alsa
<1>6. CASE dev' = "setup" /\ queue' = << >> /\ heard' = heard + Len(queue) /\ UNCHANGED alsa
  <2>1. UNCHANGED <<buf, written>>
    BY <1>6 DEF alsa
  <2>2. Places'
    BY <1>1, <1>6, <2>1 DEF DriverInv, Places, jack
  <2> DEFINE h == heard + Len(queue)  m == Len(buf)
  <2>3. h \in Nat /\ h <= given /\ m \in Nat /\ h + 0 + (m - 0) + 0 = given /\ h + 0 + (m - 0) + 0 >= given
        /\ 0 \in 0..m /\ m - 0 = m /\ 0 <= given
    BY <1>2
  <2>4. \A i \in 1..m : 0 + i = i /\ h + 0 + i = h + i
    BY <2>3
  <2>5. \A i \in 1..m : buf[0 + i] = Frame(h + 0 + i)
    BY <1>2, <2>4
  <2> HIDE DEF h
  <2>6. heard' = h
    BY <1>6 DEF h
  <2>7. Len(queue') = 0 /\ queue' \in Seq(Frames) /\ 0 <= Room
    BY <1>6, Sizes
  <2>8. /\ Len(queue') <= Room /\ buf' \in Seq(Frames) /\ Len(buf') <= BufSize /\ written' \in 0..Len(buf')
        /\ left' \in Nat /\ heard' \in Nat /\ left' <= given /\ heard' <= given
        /\ heard' + Len(queue') + (Len(buf') - written') + left' >= given
        /\ heard' + Len(queue') + (Len(buf') - written') + left' = given
    BY <1>1, <1>2, <2>1, <2>3, <2>6, <2>7
  <2>9. /\ \A i \in 1..Len(queue') : queue'[i] = Frame(heard' + i)
        /\ \A i \in 1..Len(buf') - written' : buf'[written' + i] = Frame(heard' + Len(queue') + i)
    BY <1>1, <2>1, <2>3, <2>5, <2>6, <2>7
  <2> QED BY <1>1, <1>4, <2>2, <2>7, <2>8, <2>9, AlsaOrder
<1>7. CASE /\ queue' = << >>
           /\ buf' = AfterReset /\ written' = 0 /\ heard' = given - Len(AfterReset)
  <2>1. buf' = << >> /\ heard' = given /\ Len(<< >>) = 0
    BY <1>2, <1>7 DEF AfterReset
  <2>2. Places'
    BY <1>1, <1>7, <2>1, Sizes DEF DriverInv, Places, jack
  <2> QED BY <1>1, <1>4, <1>7, <2>1, <2>2, AlsaEmptied
<1> QED BY <1>5, <1>6, <1>7 DEF AlsaReset

(* close() ends with every frame heard, or with a short write.             *)
LEMMA ClosedHeard ==
  ASSUME DriverInv, LastChunk, driver = "ALSA", AlsaClosed
  PROVE  heard' = given
<1>1. pc = "drain" /\ call = "close" /\ left = 0
  BY DEF AlsaClosed, DriverInv, Places
<1>2. CASE short
  BY <1>2 DEF AlsaClosed
<1>3. CASE ~short
  <2>1. queue = << >> /\ buf = << >>
    BY <1>1, <1>3 DEF AlsaClosed, LastChunk
  <2>2. Len(queue) = 0 /\ Len(buf) = 0 /\ written = 0
    <3>1. Len(<< >>) = 0 /\ written \in 0..Len(buf)
      BY AlsaNumbers
    <3> QED BY <2>1, <3>1
  <2>3. heard \in Nat /\ given \in Nat /\ heard <= given /\ heard + 0 + (0 - 0) + 0 >= given
    BY <1>1, <2>2, AlsaNumbers
  <2>4. heard = given
    BY <2>3
  <2> QED BY <1>3, <2>4 DEF AlsaClosed
<1> QED BY <1>2, <1>3

LEMMA AlsaKeeps ==
  ASSUME DriverInv, LastChunk, Alsa
  PROVE  DriverInv'
<1>1. driver = "ALSA" /\ UNCHANGED <<driver, jack>> /\ AlsaNext
  BY DEF Alsa
<1>2. ControlTypes /\ SoundTypes /\ AlsaTypes /\ JackTypes /\ Places
  BY TypesSplit DEF DriverInv
<1>3. CASE AlsaOpen
  <2>1. /\ call = "none" /\ pc = "none" /\ pc' = "none" /\ ~opened /\ call' \in {"none", "abort"}
        /\ dev' \in {dev, "half", "ready"} /\ opened' \in BOOLEAN /\ UNCHANGED <<sound, alsa>>
    <3>1. buf = << >> /\ written = 0 /\ ~opened /\ pc = "none" /\ call = "none"
      <4>1. ~opened /\ call = "none"
        BY <1>3 DEF AlsaOpen, Idle
      <4>2. buf = << >> /\ pc = "none" /\ written \in 0..Len(buf)
        BY <1>1, <1>2, <4>1 DEF Places, AlsaTypes
      <4> QED BY <4>1, <4>2
    <3>2. UNCHANGED alsa
      BY <1>3, <3>1 DEF AlsaOpen, alsa
    <3> QED BY <1>2, <1>3, <3>1, <3>2 DEF AlsaOpen, caller, ControlTypes
  <2>2. ControlTypes'
    BY <1>1, <1>2, <2>1 DEF ControlTypes, alsa
  <2>3. Places'
    BY <1>1, <1>2, <2>1 DEF Places, sound, alsa, jack
  <2> QED BY <1>1, <2>1, <2>2, <2>3, ControlStep DEF alsa
<1>4. CASE AlsaWait \/ AlsaRecover \/ AlsaError
  <2>1. /\ pc = "chunks" /\ UNCHANGED <<opened, sound, buf, written>> /\ dev' \in {dev, "ready"}
        /\ short' \in {short, call = "close"}
        /\ \/ UNCHANGED <<call, pc>>
           \/ call = "play" /\ call' = "fatal" /\ pc' = "none"
           \/ call # "play" /\ call' = call /\ pc' = "drain"
    BY <1>4 DEF AlsaWait, AlsaRecover, AlsaError, PlayFails, caller, alsa
  <2>2. ControlTypes'
    BY <1>1, <1>2, <2>1 DEF ControlTypes
  <2>3. Places'
    BY <1>1, <1>2, <2>1 DEF Places, sound, alsa, jack
  <2>4. driver = "ALSA" /\ call = "close" => call' = "close"
    BY <2>1
  <2> QED BY <1>1, <2>1, <2>2, <2>3, <2>4, ControlStep
<1>5. CASE AlsaPlay
  <2>1. /\ PlayCall("copy") /\ UNCHANGED <<opened, heard, dev, queue, alsa>>
        /\ call' = "play" /\ pc' = "copy" /\ opened' /\ call = "none"
    BY <1>5 DEF AlsaPlay, PlayCall, Idle
  <2>2. /\ Counted' /\ InOrder' /\ RingsInStep'
        /\ left' \in Frames /\ given' \in Frames /\ left' > 0
    BY <1>1, <2>1, Given
  <2>3. ControlTypes' /\ SoundTypes' /\ AlsaTypes' /\ JackTypes'
    BY <1>1, <1>2, <2>1, <2>2 DEF ControlTypes, SoundTypes, AlsaTypes, JackTypes, alsa, jack
  <2>4. Places'
    BY <1>1, <1>2, <2>1 DEF Places, alsa, jack
  <2> QED BY <2>2, <2>3, <2>4, TypesSplit DEF DriverInv
<1>6. CASE AlsaClosed
  <2>1. /\ pc = "drain" /\ dev' = "NULL" /\ opened' = FALSE /\ queue' = << >> /\ heard' = given
        /\ buf' = << >> /\ written' = 0 /\ call' = "none" /\ pc' = "none" /\ UNCHANGED <<left, given>>
        /\ short' = FALSE
    BY <1>1, <1>6, ClosedHeard DEF AlsaClosed, Return
  <2>2. left = 0
    BY <1>2, <2>1 DEF Places
  <2>3. ControlTypes'
    BY <1>1, <1>2, <2>1 DEF ControlTypes
  <2>4. Places'
    BY <1>1, <1>2, <2>1, <2>2, Sizes DEF Places, jack
  <2> QED BY <1>1, <2>1, <2>2, <2>3, <2>4, AlsaEmptied
<1>7. CASE AlsaSounds
  <2>1. /\ Sounds /\ UNCHANGED <<opened, call, pc, left, given, alsa>> /\ dev' \in {dev, "xrun"}
    BY <1>7 DEF AlsaSounds, caller
  <2>2. /\ Counted' /\ InOrder' /\ RingsInStep'
        /\ queue' \in Seq(Frames) /\ Len(queue') <= Room /\ heard' \in Frames
    BY <1>1, <2>1, Heard
  <2>3. ControlTypes' /\ SoundTypes' /\ AlsaTypes' /\ JackTypes'
    BY <1>1, <1>2, <2>1, <2>2 DEF ControlTypes, SoundTypes, AlsaTypes, JackTypes, alsa, jack
  <2>4. Places'
    BY <1>1, <1>2, <2>1 DEF Places, alsa, jack
  <2> QED BY <2>2, <2>3, <2>4, TypesSplit DEF DriverInv
<1> QED
  BY <1>1, <1>3, <1>4, <1>5, <1>6, <1>7, AlsaCopyKeeps, AlsaWriteKeeps, AlsaMoveRestKeeps,
     AlsaCloseKeeps, AlsaResetKeeps
  DEF AlsaNext, AlsaStep

-----------------------------------------------------------------------------
(* What the drivers promise                                                *)

LEMMA DriversBegin == Init => DriverInv
<1> SUFFICES ASSUME Init PROVE DriverInv
  OBVIOUS
<1>1. /\ driver \in Compiled /\ opened = FALSE /\ call = "none" /\ pc = "none" /\ left = 0 /\ given = 0
      /\ heard = 0 /\ queue = << >> /\ dev = Silent(driver) /\ buf = << >> /\ written = 0
      /\ short = FALSE /\ right = << >> /\ heardRight = 0 /\ batch = 0 /\ cb = NoCallback
  BY DEF Init, AlsaInit, JackInit
<1>2. dev \in {"NULL", "silent", "none"}
  BY <1>1, CompiledAssumption DEF Silent
<1>3. Len(<< >>) = 0 /\ << >> \in Seq(Frames) /\ 0 <= Room /\ 0 <= BufSize /\ 0 \in 0..0 /\ 0 < Chunk
      /\ 0 \in 0..MaxPlay /\ 0 \in Frames /\ 0 <= MaxPlay
      /\ cb \in [at : {"idle", "left", "right"}, n : 0..Room] /\ cb.at = "idle"
  BY <1>1, Sizes DEF NoCallback
<1>4. TypeOK
  BY <1>1, <1>2, <1>3 DEF TypeOK
<1>5. Places
  BY <1>1, <1>3 DEF Places
<1>6. InBuf = 0 /\ InHand = 0 /\ Ahead = 0
  BY <1>1, <1>3 DEF InBuf, InHand, Ahead
<1>7. Counted /\ InOrder /\ RingsInStep
  BY <1>1, <1>3, <1>6 DEF Counted, Accounted, InOrder, RingsInStep
<1> QED BY <1>4, <1>5, <1>7 DEF DriverInv

LEMMA DriversGoOn == DriverInv /\ LastChunk /\ [Next]_dvars => DriverInv'
<1> SUFFICES ASSUME DriverInv, LastChunk, [Next]_dvars PROVE DriverInv'
  OBVIOUS
<1>1. CASE UNCHANGED dvars
  <2>1. /\ UNCHANGED <<driver, opened, call, pc, left, given, heard, queue, dev, buf, written, short>>
        /\ UNCHANGED <<right, heardRight, batch, cb>>
    BY <1>1 DEF dvars, caller, sound, alsa, jack
  <2> QED
    BY <2>1 DEF DriverInv, TypeOK, Places, Counted, Accounted, InBuf, InHand, InOrder, Frame,
       RingsInStep, Ahead
<1> QED BY <1>1, AlsaKeeps, JackKeeps, WriterKeeps DEF Next

LEMMA LastChunkStays == DriverInv /\ LastChunk /\ [Next]_dvars => LastChunk'
<1> SUFFICES ASSUME DriverInv, LastChunk, [Next]_dvars, driver' = "ALSA"
             PROVE  /\ dev' # "running" => queue' = << >>
                    /\ call' = "close" /\ ~short' /\ pc' = "chunks" => InBuf' \in {0, Chunk}
                    /\ call' = "close" /\ ~short' /\ pc' = "drain" => buf' = << >>
  BY DEF LastChunk
<1>1. CASE UNCHANGED dvars
  BY <1>1 DEF LastChunk, InBuf, dvars, caller, sound, alsa
<1>2. CASE Next
  <2>1. driver = "ALSA" /\ AlsaNext
    BY <1>2 DEF Next, Alsa, Jack, Writer
  <2>2. /\ dev # "running" => queue = << >>
        /\ Len(buf) \in Nat /\ written \in 0..Len(buf) /\ Chunk \in Nat \ {0}
    BY <2>1, AlsaNumbers, Sizes DEF LastChunk
  <2>3. CASE AlsaOpen \/ AlsaPlay \/ AlsaCopy \/ AlsaReset
    <3>1. call' # "close"
      BY <2>1, <2>3 DEF AlsaOpen, AlsaPlay, AlsaCopy, AlsaReset, PlayCall, Idle, caller, DriverInv, Places
    <3>2. dev' # "running" => queue' = << >>
      BY <2>1, <2>2, <2>3 DEF AlsaOpen, AlsaPlay, AlsaCopy, AlsaReset, sound, DriverInv, TypeOK
    <3> QED BY <3>1, <3>2
  <2>4. CASE AlsaWrite
    <3>1. PICK n \in 1..Chunk : written' = written + n /\ short' = (short \/ (call = "close" /\ n < Chunk))
      BY <2>4 DEF AlsaWrite
    <3>2. dev' = "running" /\ UNCHANGED <<call, pc, buf>> /\ pc = "chunks"
      BY <2>4 DEF AlsaWrite, Takes, caller
    <3>3. ASSUME call = "close", ~short' PROVE InBuf' \in {0, Chunk}
      <4>1. n = Chunk /\ ~short
        <5>1. ~short /\ ~(n < Chunk)
          BY <3>1, <3>3, Zenon
        <5>2. n <= Chunk /\ n \in Nat /\ Chunk \in Nat
          BY <2>2
        <5> QED BY <5>1, <5>2
      <4>2. InBuf \in {0, Chunk} /\ InBuf >= Chunk
        BY <2>1, <2>4, <3>2, <3>3, <4>1 DEF LastChunk, AlsaWrite, WholeChunk, buf_fill, InBuf
      <4>3. InBuf' = Len(buf) - (written + Chunk) /\ InBuf = Len(buf) - written
        BY <3>1, <3>2, <4>1 DEF InBuf
      <4>4. Len(buf) - written = Chunk
        BY <2>2, <4>2, <4>3
      <4> QED BY <2>2, <4>3, <4>4
    <3> QED BY <3>2, <3>3
  <2>5. CASE AlsaWait \/ AlsaRecover \/ AlsaError
    <3>1. UNCHANGED <<queue, buf, written>> /\ pc = "chunks" /\ dev' \in {dev, "ready"}
          /\ (dev' = dev \/ dev = "xrun")
      BY <2>5 DEF AlsaWait, AlsaRecover, AlsaError, sound, alsa
    <3>2. (UNCHANGED <<call, pc, short>>) \/ call' # "close" \/ short'
      BY <2>5 DEF AlsaWait, AlsaRecover, AlsaError, PlayFails, caller, alsa
    <3> QED BY <2>1, <2>2, <3>1, <3>2 DEF LastChunk, InBuf
  <2>6. CASE AlsaMoveRest
    <3>1. UNCHANGED <<queue, dev, short>> /\ pc = "chunks" /\ pc' # "chunks" /\ buf' = Rest
          /\ (call' = "close" => call = "close")
      BY <2>6 DEF AlsaMoveRest, sound, Return
    <3>2. ASSUME call = "close", ~short PROVE buf' = << >>
      <4>1. InBuf = 0 /\ written = Len(buf)
        BY <2>1, <2>2, <2>6, <3>1, <3>2 DEF LastChunk, AlsaMoveRest, WholeChunk, buf_fill, InBuf
      <4>2. Rest \in Seq(Frames) /\ Len(Rest) = 0
        <5>1. buf \in Seq(Frames)
          BY <2>1, AlsaNumbers
        <5> QED BY <2>2, <4>1, <5>1, SplitSeq DEF Rest
      <4> QED BY <3>1, <4>2
    <3> QED BY <2>2, <3>1, <3>2
  <2>7. CASE AlsaClose
    <3>1. UNCHANGED <<queue, dev, written>> /\ written = 0 /\ Len(buf) < Chunk /\ buf \in Seq(Frames)
      BY <2>1, <2>7, AlsaNumbers DEF AlsaClose, Idle, sound, DriverInv, Places
    <3>2. buf_fill = Len(buf)
      BY <2>2, <3>1 DEF buf_fill
    <3>3. CASE Len(buf) = 0
      BY <2>2, <2>7, <3>1, <3>2, <3>3 DEF AlsaClose, Unplayed
    <3>4. CASE Len(buf) > 0
      <4> DEFINE z == [i \in 1..(Chunk - Len(buf)) |-> 0]
      <4>1. buf' = buf \o z /\ pc' = "chunks"
        BY <2>7, <3>2, <3>4 DEF AlsaClose, Unplayed, Padded
      <4>2. z \in Seq(Frames) /\ Len(z) = Chunk - Len(buf)
        BY <2>2, <3>1, Sizes
      <4> HIDE DEF z
      <4>3. Len(buf') = Len(buf) + Len(z)
        BY <3>1, <4>1, <4>2, LongerBy
      <4>4. InBuf' = Chunk
        BY <2>2, <3>1, <4>2, <4>3 DEF InBuf
      <4> QED BY <2>2, <3>1, <4>1, <4>4
    <3> QED BY <2>2, <3>3, <3>4
  <2>8. CASE AlsaClosed \/ AlsaSounds
    BY <2>1, <2>2, <2>8 DEF AlsaClosed, AlsaSounds, Return, Sounds, LastChunk, InBuf, caller, alsa
  <2> QED BY <2>1, <2>3, <2>4, <2>5, <2>6, <2>7, <2>8 DEF AlsaNext, AlsaStep
<1> QED BY <1>1, <1>2

LEMMA DriversHold == Spec => []DriverInv
<1>1. Init => LastChunk
  BY DEF Init, LastChunk
<1> QED BY <1>1, DriversBegin, DriversGoOn, LastChunkStays, PTL DEF Spec

(* What the argument still has is in order after all that came before it.  *)
LEMMA ToCome ==
  ASSUME DriverInv
  PROVE  LET a == IF pc = "right" THEN Tail(Argument) ELSE Argument
         IN  /\ a \in Seq(Frames) /\ Len(a) = left - InHand
             /\ \A i \in 1..left - InHand :
                  a[i] = heard + Len(queue) + InBuf + i /\ heard + Len(queue) + InBuf + i <= given
<1> DEFINE a == IF pc = "right" THEN Tail(Argument) ELSE Argument
<1> DEFINE n == heard + Len(queue) + InBuf  k == InHand
<1>1. /\ left \in Nat /\ given \in Nat /\ n \in Nat /\ k \in {0, 1} /\ left <= given
  <2>1. heard \in Nat /\ Len(queue) \in Nat /\ InBuf \in Nat
    BY NumbersAre DEF DriverInv
  <2> QED BY <2>1, NumbersAre DEF DriverInv, Counted
<1>2. /\ Argument \in Seq(Frames) /\ Len(Argument) = left
      /\ \A i \in 1..left : Argument[i] = given - left + i
  BY <1>1, ArgumentIs DEF DriverInv
<1>3. left # 0 => n + left - k = given
  <2>1. left # 0 => ~(driver = "ALSA" /\ call = "close")
    BY DEF DriverInv, Places
  <2>2. left # 0 => Accounted = given
    BY <2>1 DEF DriverInv, Counted
  <2> QED BY <2>2 DEF Accounted
<1> HIDE DEF n
<1>4. CASE pc = "right"
  <2>1. k = 1 /\ left >= 1
    <3>1. driver = "JACK" /\ batch \in 1..left
      BY <1>4 DEF DriverInv, Places, RingsInStep
    <3> QED BY <1>1, <1>4, <3>1 DEF InHand
  <2>2. Argument # << >>
    BY <1>2, <2>1, EmptySeq
  <2>3. /\ Tail(Argument) \in Seq(Frames) /\ Len(Tail(Argument)) = left - 1
        /\ \A i \in 1..left - 1 : Tail(Argument)[i] = Argument[i + 1]
    BY <1>2, <2>2, HeadTailProperties
  <2>4. ASSUME NEW i \in 1..left - 1 PROVE Tail(Argument)[i] = n + i /\ n + i <= given
    <3>1. i + 1 \in 1..left /\ given - left + (i + 1) = n + i /\ n + i <= given
      BY <1>1, <1>3, <2>1
    <3> QED BY <1>2, <2>3, <3>1
  <2> QED BY <1>4, <2>1, <2>3, <2>4 DEF n
<1>5. CASE pc # "right"
  <2>1. k = 0
    BY <1>5 DEF InHand
  <2>2. ASSUME NEW i \in 1..left PROVE Argument[i] = n + i /\ n + i <= given
    <3>1. given - left + i = n + i /\ n + i <= given
      BY <1>1, <1>3, <2>1
    <3> QED BY <1>2, <3>1
  <2>3. left - 0 = left
    BY <1>1
  <2> QED BY <1>2, <1>5, <2>1, <2>2, <2>3 DEF n
<1> QED BY <1>4, <1>5

LEMMA KeptIs == DriverInv => SoundKept
<1> SUFFICES ASSUME DriverInv PROVE SoundKept
  OBVIOUS
<1> DEFINE b == SubSeq(buf, written + 1, Len(buf))
           a == IF pc = "right" THEN Tail(Argument) ELSE Argument
           q == Len(queue)  m == InBuf  n == left - InHand  k == given - heard
<1>1. /\ queue \in Seq(Frames) /\ q \in Nat /\ m \in Nat /\ heard \in Nat /\ given \in Nat
  BY NumbersAre DEF DriverInv, TypeOK
<1>2. b \in Seq(Frames) /\ Len(b) = m /\ \A i \in 1..m : b[i] = buf[written + i]
  <2>1. buf \in Seq(Frames) /\ written \in 0..Len(buf)
    BY DEF DriverInv, TypeOK
  <2> QED BY <2>1, SplitSeq DEF InBuf
<1>3. /\ a \in Seq(Frames) /\ Len(a) = n
      /\ \A i \in 1..n : a[i] = heard + q + m + i /\ heard + q + m + i <= given
  BY ToCome
<1>4. n \in Nat
  BY <1>3, LenProperties
<1>5. /\ k \in Nat /\ q + m + n >= k
  <2>1. heard <= given /\ Accounted >= given
    BY DEF DriverInv, Counted
  <2>2. left \in Nat /\ InHand \in {0, 1}
    BY NumbersAre DEF DriverInv
  <2>3. Accounted = heard + q + m + left - InHand
    BY DEF Accounted
  <2> QED BY <1>1, <2>1, <2>2, <2>3
<1>6. /\ \A i \in 1..q : queue[i] = Frame(heard + i)
      /\ \A i \in 1..m : buf[written + i] = Frame(heard + q + i)
  BY DEF DriverInv, InOrder
<1>7. \A i \in Nat : Frame(heard + i) = IF i <= k THEN heard + i ELSE 0
  BY <1>1 DEF Frame
<1> HIDE DEF a, b, q, m, n, k
<1> DEFINE s == (queue \o b) \o a
<1>8. /\ s \in Seq(Frames) /\ Len(s) = q + m + n
      /\ \A i \in 1..q : s[i] = queue[i]
      /\ \A i \in 1..m : s[q + i] = b[i]
      /\ \A i \in 1..n : s[(q + m) + i] = a[i]
  <2>1. /\ queue \o b \in Seq(Frames) /\ Len(queue \o b) = q + m
        /\ \A i \in 1..q : (queue \o b)[i] = queue[i]
        /\ \A i \in 1..m : (queue \o b)[q + i] = b[i]
    <3>1. /\ queue \o b \in Seq(Frames) /\ Len(queue \o b) = Len(queue) + Len(b)
          /\ \A i \in 1..Len(queue) : (queue \o b)[i] = queue[i]
          /\ \A i \in 1..Len(b) : (queue \o b)[Len(queue) + i] = b[i]
      <4>1. queue \in Seq(Frames) /\ b \in Seq(Frames)
        BY <1>1, <1>2
      <4> QED BY <4>1, LongerBy
    <3> QED BY <1>2, <3>1 DEF q
  <2> DEFINE t == queue \o b
  <2> HIDE DEF t
  <2>2. /\ t \o a \in Seq(Frames) /\ Len(t \o a) = Len(t) + Len(a)
        /\ \A i \in 1..Len(t) : (t \o a)[i] = t[i]
        /\ \A i \in 1..Len(a) : (t \o a)[Len(t) + i] = a[i]
    <3>1. t \in Seq(Frames) /\ a \in Seq(Frames)
      BY <1>3, <2>1 DEF t
    <3> QED BY <3>1, LongerBy
  <2>3. s = t \o a /\ Len(t) = q + m /\ Len(a) = n
    BY <1>3, <2>1 DEF t
  <2>4. \A i \in 1..q : i \in 1..q + m
    BY <1>1
  <2>5. \A i \in 1..m : q + i \in 1..q + m
    BY <1>1
  <2> QED BY <2>1, <2>2, <2>3, <2>4, <2>5 DEF t
<1>9. ASSUME NEW i \in 1..q + m + n PROVE s[i] = IF i <= k THEN heard + i ELSE 0
  <2>1. CASE i <= q
    <3>1. i \in 1..q
      BY <1>1, <2>1
    <3> QED BY <1>6, <1>7, <1>8, <3>1
  <2>2. CASE i > q /\ i <= q + m
    <3>1. i - q \in 1..m /\ q + (i - q) = i /\ heard + q + (i - q) = heard + i /\ i \in Nat
      BY <1>1, <2>2
    <3>2. s[i] = b[i - q]
      BY <1>8, <3>1
    <3>3. b[i - q] = Frame(heard + i)
      BY <1>2, <1>6, <3>1
    <3> QED BY <1>7, <3>1, <3>2, <3>3
  <2>3. CASE i > q + m
    <3>1. /\ i - (q + m) \in 1..n /\ (q + m) + (i - (q + m)) = i /\ i \in Nat
          /\ heard + q + m + (i - (q + m)) = heard + i
      BY <1>1, <1>4, <2>3
    <3>2. s[i] = a[i - (q + m)]
      BY <1>8, <3>1
    <3> DEFINE j == i - (q + m)
    <3>3. a[j] = heard + i /\ heard + i <= given
      <4>1. a[j] = heard + q + m + j /\ heard + q + m + j <= given
        BY <1>3, <3>1
      <4> QED BY <3>1, <4>1
    <3>4. i <= k
      BY <1>1, <3>1, <3>3 DEF k
    <3> QED BY <3>2, <3>3, <3>4
  <2>4. i <= q \/ (i > q /\ i <= q + m) \/ i > q + m
    BY <1>1, <1>4
  <2> QED BY <2>1, <2>2, <2>3, <2>4
<1>10. GoesOnFrom(heard, s)
  BY <1>5, <1>8, <1>9 DEF GoesOnFrom, k
<1> QED BY <1>10 DEF SoundKept, a, b

LEMMA StepIs == DriverInv => ChannelsInStep
<1> SUFFICES ASSUME DriverInv, driver = "JACK" PROVE ChannelsInStep
  BY DEF ChannelsInStep
<1> DEFINE r == Len(right)  k == given - heardRight
<1>1. /\ right \in Seq(Frames) /\ r \in Nat /\ left \in Nat /\ given \in Nat /\ heardRight \in Nat
      /\ left <= given
  BY JackNumbers
<1>2. /\ heardRight + r + left = given /\ heard = heardRight + Ahead
      /\ \A i \in 1..r : right[i] = heardRight + i
  BY JackIs
<1>3. /\ Argument \in Seq(Frames) /\ Len(Argument) = left
      /\ \A i \in 1..left : Argument[i] = given - left + i
  BY <1>1, ArgumentIs DEF DriverInv
<1>4. /\ Len(right \o Argument) = r + left
      /\ \A i \in 1..r : (right \o Argument)[i] = right[i]
      /\ \A i \in 1..r + left : i > r => i - r \in 1..left /\ (right \o Argument)[i] = Argument[i - r]
  <2>1. /\ Len(right \o Argument) = Len(right) + Len(Argument)
        /\ \A i \in 1..Len(right) : (right \o Argument)[i] = right[i]
        /\ \A i \in 1..Len(right) + Len(Argument) : i > Len(right) =>
             i - Len(right) \in 1..Len(Argument) /\ (right \o Argument)[i] = Argument[i - Len(right)]
    BY <1>1, <1>3, LongerBy
  <2> QED BY <1>3, <2>1
<1> HIDE DEF r
<1>5. k = r + left
  BY <1>1, <1>2
<1>6. ASSUME NEW i \in 1..r + left PROVE (right \o Argument)[i] = heardRight + i /\ i <= k
  <2>1. i <= k
    BY <1>5
  <2>2. CASE i <= r
    <3>1. i \in 1..r
      BY <1>1, <2>2
    <3> QED BY <1>2, <1>4, <2>1, <3>1
  <2>3. CASE i > r
    <3>1. i - r \in 1..left /\ (right \o Argument)[i] = Argument[i - r]
      BY <1>4, <2>3
    <3>2. given - left + (i - r) = heardRight + i
      BY <1>1, <1>2
    <3> QED BY <1>3, <2>1, <3>1, <3>2
  <2>4. i <= r \/ i > r
    BY <1>1
  <2> QED BY <2>2, <2>3, <2>4
<1>7. Len(right \o Argument) >= k
  BY <1>1, <1>4, <1>5
<1>8. GoesOnFrom(heardRight, right \o Argument)
  BY <1>4, <1>6, <1>7 DEF GoesOnFrom
<1>9. cb.at = "idle" => heard = heardRight
  BY <1>1, <1>2 DEF Ahead
<1> QED BY <1>8, <1>9 DEF ChannelsInStep

(* Every variable of the drivers keeps its type; the buffer of ALSA and    *)
(* the rings of JACK never hold more than they have room for               *)
(* (alsa.cc:408-416 and 590-637, jack.cc:146-178).                         *)
THEOREM TypeCorrect == Spec => []TypeOK
<1>1. DriverInv => TypeOK
  BY DEF DriverInv
<1> QED BY <1>1, DriversHold, PTL

(* However many frames play() is given at a time, whatever part of them    *)
(* the device takes and whichever calls fail, no driver loses a frame,     *)
(* plays one twice or puts silence between two, except on purpose in       *)
(* reset(), and in a close() of ALSA whose last chunk the device does not  *)
(* take whole (alsa.cc:363-419 and 590-637, jack.cc:146-179, oss.cc:334-   *)
(* 344, sndio_out.cc:73-78).                                               *)
THEOREM SoundIsKept == Spec => []SoundKept
BY KeptIs, DriversHold, PTL

(* The room that play() of JACK finds in the ring read last is room in     *)
(* both rings, and what process_cb() finds in it is in both: though no     *)
(* lock is taken, the two channels stay in step (jack.cc:146-178 and       *)
(* 239-261).                                                               *)
THEOREM ChannelsStayInStep == Spec => []ChannelsInStep
BY StepIs, DriversHold, PTL
=============================================================================
