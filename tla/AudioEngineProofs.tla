--------------------------- MODULE AudioEngineProofs ---------------------------
(***************************************************************************)
(* What is proved of the playing engine, whatever the songs, the sizes of  *)
(* the buffers and of a chunk, the commands and how many of them: that the *)
(* sound on its way is the song's from the place the time tells, that a    *)
(* song played to its end has been played out, that player() leaves        *)
(* nothing behind, that the device is sent only sound of the parameters it *)
(* was opened with, and that a skip asked for is kept.                     *)
(***************************************************************************)
EXTENDS AudioEngine, SequenceLemmas

-----------------------------------------------------------------------------
(* The inductive invariant                                                 *)

(* The reader holds a chunk only while it sends it, and waits only when it *)
(* sleeps.                                                                 *)
ReaderHolds == /\ rpc # "send" => chunk = <<>>
               /\ waiting => rpc \in {"wait", "woken"}

(* The server starts a playing thread only when there is none.             *)
ServerHolds == /\ running <=> ppc # "none"
               /\ spc = "start" => ~running

(* A precached decoder holds all it has decoded, and has not reached the   *)
(* end of a song that is long enough.                                      *)
Fresh(d) == d.fill = d.dpos /\ (LongSongs /\ d.done => d.dpos = 0)

PrecacheHolds == Fresh(precache) /\ (cpc = "run" => precache.song # 0)

(* The places where the playing thread has sound that it may play.         *)
SoundPlaces == LoopPlaces \cup {"preopen", "preflush", "start", "callback", "seek"}
SeekPlaces == {"seekstop", "seekstopping", "seekreset", "seektime"}

DecoderHolds ==
  /\ ppc \in {"timezero", "reset", "join", "new"} => file # 0
  /\ ppc \in SoundPlaces \cup SeekPlaces => dec.song # 0
  /\ LongSongs /\ ppc \in {"preopen", "preflush"} /\ dec.done => dec.dpos = 0
  /\ ppc \notin {"preflush", "put"} => pending = <<>>
  /\ ppc \in SeekPlaces => seekPos \in Nat /\ (stopped \/ dec.dpos = seekPos)
  /\ ppc = "stopping" => stopped

Threads == ReaderHolds /\ ServerHolds /\ PrecacheHolds /\ DecoderHolds

(* The buffer is stopped from a stop to the next reset, which finds the    *)
(* reader with nothing.                                                    *)
BetweenSongs == {"after", "advance", "pick", "clear", "timezero", "reset", "ending",
                 "closing", "ended", "none"}

Quiet == chunk = <<>> /\ (stop \/ buf = <<>>)
Silent == chunk = <<>> /\ buf = <<>>

BufferHolds ==
  /\ stop => ppc \in BetweenSongs \cup {"stopping", "seekstopping", "seekreset",
                                        "delete", "lastwait"}
  /\ ppc \in {"stopping", "seekstopping", "seekreset"} => stop
  /\ ppc \in {"stopping", "seekstopping"} /\ Player \notin sleepers => chunk = <<>>
  /\ ppc \in {"delete", "lastwait"} => stop \/ buf = <<>>
  /\ ppc = "delete" /\ stop => stopped
  /\ ppc \in BetweenSongs \cup {"seekreset"} => Quiet
  /\ ppc \in {"join", "preopen", "new", "seektime"} => Silent
  /\ ppc \in {"reset", "join", "preopen", "new"} => time = 0
  /\ ppc \in {"paramswait", "open"} => buf = <<>>

(* Consecutive units of a song from a place on.                            *)
IsPiece(us, str, song, from) ==
  \A i \in 1..Len(us) : us[i] = [stream |-> str, song |-> song, pos |-> from + i - 1]

InPlace ==
  /\ IsPiece(chunk, stream, dec.song, time)
  /\ IsPiece(buf, stream, dec.song, time + Len(chunk))
  /\ IsPiece(pending, stream, dec.song, time + Len(chunk) + Len(buf))
  /\ time + Len(chunk) + Len(buf) + Len(pending) + dec.fill = dec.dpos

SoundHolds == ppc \in SoundPlaces \/ (ppc = "delete" /\ ~stopped) => InPlace

IInv == TypeOK /\ Threads /\ BufferHolds /\ SoundHolds

-----------------------------------------------------------------------------
(* Songs                                                                   *)

LEMMA SongsAre ==
  /\ Len(Song) \in Nat /\ Songs \subseteq Nat
  /\ \A s \in Songs : /\ Song[s] \in Seq(Params) /\ Len(Song[s]) \in Nat
                      /\ \A i \in 1..Len(Song[s]) : Song[s][i] \in Params
                      /\ Song[s] # <<>> => Len(Song[s]) > 0
<1>1. Song \in Seq(Seq(Params)) /\ Len(Song) \in Nat
  BY SongAssumption, LenProperties
<1>2. Songs \subseteq Nat
  BY <1>1 DEF Songs
<1>3. ASSUME NEW s \in Songs PROVE Song[s] \in Seq(Params)
  BY <1>1, ElementOfSeq DEF Songs
<1>4. ASSUME NEW s \in Songs
      PROVE  /\ Len(Song[s]) \in Nat
             /\ \A i \in 1..Len(Song[s]) : Song[s][i] \in Params
             /\ Song[s] # <<>> => Len(Song[s]) > 0
  <2>1. Len(Song[s]) \in Nat
    BY <1>3, LenProperties
  <2>2. \A i \in 1..Len(Song[s]) : Song[s][i] \in Params
    BY <1>3, ElementOfSeq
  <2>3. Song[s] # <<>> => Len(Song[s]) \in Nat \ {0}
    BY <1>3, EmptySeq
  <2> QED BY <2>1, <2>2, <2>3
<1> QED BY <1>1, <1>2, <1>3, <1>4

(* A set of songs has a first and a last one.                              *)
LEMMA FirstIsOne ==
  ASSUME NEW T, T \subseteq Songs, T # {}
  PROVE  First(T) \in Songs
<1>1. \E s \in T : \A t \in T : s <= t
  BY SongsAre, LeastOfNat
<1> QED BY <1>1 DEF First

LEMMA LastIsOne ==
  ASSUME NEW T, T \subseteq Songs, T # {}
  PROVE  Last(T) \in Songs
<1> DEFINE n == Len(Song)  D == {n - t : t \in T}
<1>1. n \in Nat /\ \A t \in T : t \in 1..n
  BY SongsAre DEF Songs
<1> HIDE DEF n
<1>2. D \subseteq Nat /\ D # {}
  BY <1>1
<1>3. PICK d \in D : \A e \in D : d <= e
  BY <1>2, LeastOfNat
<1>4. PICK s \in T : d = n - s
  BY <1>3
<1>5. \A t \in T : n - s <= n - t
  BY <1>3, <1>4
<1>6. \A t \in T : s >= t
  BY <1>1, <1>5
<1>7. \E r \in T : \A t \in T : r >= t
  BY <1>6
<1> QED BY <1>7 DEF Last

LEMMA NextIsASong ==
  ASSUME ServerTypes, NEW f \in BOOLEAN
  PROVE  NextSong(f) \in Songs \cup {0} /\ PrevSong \in Songs \cup {0}
<1>1. /\ After(cur) \subseteq Songs /\ Before(cur) \subseteq Songs /\ Valid \subseteq Songs
  BY DEF After, Before, Valid
<1>2. /\ After(cur) # {} => First(After(cur)) \in Songs
      /\ Before(cur) # {} => Last(Before(cur)) \in Songs
      /\ Valid # {} => First(Valid) \in Songs /\ Last(Valid) \in Songs
  BY <1>1, FirstIsOne, LastIsOne
<1> QED BY <1>2 DEF NextSong, PrevSong

-----------------------------------------------------------------------------
(* Decoders                                                                *)

LEMMA DecodersAre ==
  /\ NoDecoder \in Decoders
  /\ \A s \in Songs : Opened(s) \in Decoders /\ [NoDecoder EXCEPT !.song = s] \in Decoders
<1>1. 0 \in Nat
  OBVIOUS
<1>2. NoDecoder \in Decoders
  BY <1>1 DEF NoDecoder, Decoders
<1>3. ASSUME NEW s \in Songs
      PROVE  Opened(s) \in Decoders /\ [NoDecoder EXCEPT !.song = s] \in Decoders
  <2>1. Opened(s) \in Decoders
    BY <1>1 DEF Opened, Decoders
  <2>2. [NoDecoder EXCEPT !.song = s] \in Decoders
    BY <1>2 DEF Decoders
  <2> QED BY <2>1, <2>2
<1> QED BY <1>2, <1>3

LEMMA DecodedIs ==
  ASSUME NEW d \in Decoders, d.song # 0
  PROVE  /\ Decoded(d) \in Decoders /\ Decoded(d).song = d.song
         /\ Decoded(d).dpos - Decoded(d).fill = d.dpos - d.fill
<1>1. d.song \in Songs /\ d.dpos \in Nat /\ d.fill \in Nat
  BY DEF Decoders
<1>2. Song[d.song] \in Seq(Params) /\ Len(Song[d.song]) \in Nat
  BY <1>1, SongsAre
<1>3. CASE d.done \/ PcmFull(d)
  <2>1. Decoded(d) = d
    BY <1>3 DEF Decoded
  <2> QED BY <1>1, <2>1
<1>4. CASE ~(d.done \/ PcmFull(d)) /\ d.dpos < Len(Song[d.song])
  <2> DEFINE sp == Song[d.song][d.dpos + 1]  ch == d.changed \/ sp # d.sp
             p == d.dpos + 1  f == d.fill + 1
  <2>1. sp \in Params /\ ch \in BOOLEAN
    BY <1>1, <1>2, <1>4, SongsAre
  <2>2. p \in Nat /\ f \in Nat /\ p - f = d.dpos - d.fill
    BY <1>1
  <2>3. Decoded(d) = [d EXCEPT !.dpos = p, !.fill = f, !.sp = sp, !.changed = ch]
    BY <1>4 DEF Decoded
  <2> HIDE DEF sp, ch, p, f
  <2>4. /\ Decoded(d) \in Decoders /\ Decoded(d).song = d.song
        /\ Decoded(d).dpos = p /\ Decoded(d).fill = f
    BY <2>1, <2>2, <2>3 DEF Decoders
  <2> QED BY <2>2, <2>4
<1>5. CASE ~(d.done \/ PcmFull(d)) /\ ~(d.dpos < Len(Song[d.song]))
  <2>1. Decoded(d) = [d EXCEPT !.done = TRUE]
    BY <1>5 DEF Decoded
  <2>2. /\ Decoded(d) \in Decoders /\ Decoded(d).song = d.song
        /\ Decoded(d).dpos = d.dpos /\ Decoded(d).fill = d.fill
    BY <2>1 DEF Decoders
  <2> QED BY <1>1, <2>2
<1> QED BY <1>3, <1>4, <1>5

(* The room a decoder's buffer gives is some, whatever its parameters.     *)
LEMMA RoomIs ==
  ASSUME NEW s \in Songs
  PROVE  /\ Song[s] # <<>> => PrecacheRoom(s) \in Nat
         /\ PrecacheFill(s) \in 0..Len(Song[s])
         /\ Song[s] = <<>> => PrecacheFill(s) = 0
<1>1. PcmSize \in Nat /\ Len(Song[s]) \in Nat
  BY PcmAssumption, BufSizeAssumption, SongsAre
<1>2. ASSUME Song[s] # <<>> PROVE PrecacheRoom(s) \in Nat
  <2>1. Song[s][1] \in Params
    BY <1>2, SongsAre
  <2>2. Growth[Song[s][1]] \in Nat
    BY <2>1, PcmAssumption
  <2>3. \A n \in Nat : PcmSize * n \in Nat
    BY <1>1
  <2>4. PrecacheRoom(s) = PcmSize * Growth[Song[s][1]]
    BY <2>1, ParamsAssumption DEF PrecacheRoom, Grown
  <2> QED BY <2>2, <2>3, <2>4
<1>3. Song[s] # <<>> => PrecacheFill(s) \in 0..Len(Song[s])
  BY <1>1, <1>2 DEF PrecacheFill, Least
<1>4. Song[s] = <<>> => PrecacheFill(s) = 0
  BY DEF PrecacheFill
<1> QED BY <1>1, <1>2, <1>3, <1>4

LEMMA PrecachedIs ==
  ASSUME NEW s \in Songs
  PROVE  Precached(s) \in Decoders /\ Fresh(Precached(s))
<1>1. Song[s] \in Seq(Params) /\ Len(Song[s]) \in Nat
  BY SongsAre
<1>2. Len(<<>>) = 0
  BY EmptySeq
<1>3. CASE s \in Bad
  BY <1>3, DecodersAre DEF Precached, Fresh, NoDecoder
<1>4. CASE s \notin Bad /\ \E i \in 2..PrecacheFill(s) : Song[s][i] # Song[s][1]
  BY <1>4, DecodersAre DEF Precached, Fresh, Opened
<1>5. CASE s \notin Bad /\ ~\E i \in 2..PrecacheFill(s) : Song[s][i] # Song[s][1]
  <2> DEFINE sp == IF Song[s] = <<>> THEN "none" ELSE Song[s][1]
  <2>1. sp \in Params \cup {"none"}
    BY <1>1, SongsAre
  <2>2. PrecacheFill(s) \in Nat /\ (Song[s] = <<>> => PrecacheFill(s) = 0)
    BY <1>1, RoomIs
  <2> DEFINE short == Song[s] = <<>> \/ Len(Song[s]) < PrecacheRoom(s)
  <2>3. LongSongs /\ Song[s] # <<>> => ~short
    BY <1>1, <1>5, RoomIs DEF LongSongs
  <2>4. Precached(s) = [Opened(s) EXCEPT !.dpos = PrecacheFill(s), !.fill = PrecacheFill(s),
                                         !.done = short, !.sp = sp]
    BY <1>5 DEF Precached
  <2>6. short \in BOOLEAN
    OBVIOUS
  <2> HIDE DEF sp, short
  <2>5. Opened(s) \in Decoders
    BY DecodersAre
  <2>7. /\ Precached(s) \in Decoders
        /\ Precached(s).dpos = PrecacheFill(s) /\ Precached(s).fill = PrecacheFill(s)
        /\ Precached(s).done = short
    BY <2>1, <2>2, <2>4, <2>5, <2>6 DEF Decoders
  <2> QED BY <2>2, <2>3, <2>7 DEF Fresh
<1> QED BY <1>3, <1>4, <1>5

(* What the loop of player() changes of its decoder.                       *)
LEMMA DecoderChanges ==
  ASSUME NEW d \in Decoders
  PROVE  /\ [d EXCEPT !.fill = 0] \in Decoders /\ [d EXCEPT !.done = TRUE] \in Decoders
         /\ [d EXCEPT !.changed = FALSE] \in Decoders
         /\ [d EXCEPT !.fill = 0].song = d.song /\ [d EXCEPT !.fill = 0].dpos = d.dpos
         /\ [d EXCEPT !.fill = 0].fill = 0 /\ [d EXCEPT !.fill = 0].done = d.done
         /\ [d EXCEPT !.changed = FALSE].song = d.song
         /\ [d EXCEPT !.changed = FALSE].dpos = d.dpos
         /\ [d EXCEPT !.changed = FALSE].fill = d.fill
         /\ [d EXCEPT !.done = TRUE].song = d.song
<1>1. 0 \in Nat
  OBVIOUS
<1>2. /\ [d EXCEPT !.fill = 0] \in Decoders
      /\ [d EXCEPT !.fill = 0].song = d.song /\ [d EXCEPT !.fill = 0].dpos = d.dpos
      /\ [d EXCEPT !.fill = 0].fill = 0 /\ [d EXCEPT !.fill = 0].done = d.done
  BY <1>1 DEF Decoders
<1>3. [d EXCEPT !.done = TRUE] \in Decoders /\ [d EXCEPT !.done = TRUE].song = d.song
  BY DEF Decoders
<1>4. /\ [d EXCEPT !.changed = FALSE] \in Decoders
      /\ [d EXCEPT !.changed = FALSE].song = d.song
      /\ [d EXCEPT !.changed = FALSE].dpos = d.dpos
      /\ [d EXCEPT !.changed = FALSE].fill = d.fill
  BY DEF Decoders
<1> QED BY <1>2, <1>3, <1>4

LEMMA AfterSeekIs ==
  ASSUME NEW d \in Decoders, NEW p \in Nat
  PROVE  AfterSeek(d, p) \in Decoders /\ AfterSeek(d, p).song = d.song /\ AfterSeek(d, p).dpos = p
BY DEF Decoders, AfterSeek

LEMMA DecoderFields ==
  ASSUME NEW d \in Decoders
  PROVE  /\ d.song \in Songs \cup {0} /\ d.dpos \in Nat /\ d.fill \in Nat /\ d.done \in BOOLEAN
         /\ d.sp \in Params \cup {"none"}
BY DEF Decoders

-----------------------------------------------------------------------------
(* Pieces of sound                                                         *)

(* What a decoder gives the buffer is the next piece of its song.          *)
LEMMA PcmUnitsAre ==
  ASSUME PlayerTypes, NEW d \in Decoders
  PROVE  /\ PcmUnits(d) \in Seq(Unit) /\ Len(PcmUnits(d)) = d.fill
         /\ IsPiece(PcmUnits(d), stream, d.song, d.dpos - d.fill)
<1> DEFINE u(i) == [stream |-> stream, song |-> d.song, pos |-> d.dpos - d.fill + i - 1]
           n == d.fill
<1>1. n \in Nat /\ d.dpos \in Nat /\ d.song \in Songs \cup {0} /\ stream \in Nat
  BY DecoderFields DEF PlayerTypes
<1>2. \A i \in 1..n : u(i) \in Unit
  BY <1>1 DEF Unit
<1>3. PcmUnits(d) = [i \in 1..n |-> u(i)]
  BY DEF PcmUnits
<1>4. PcmUnits(d) \in [1..n -> Unit] /\ \A i \in 1..n : PcmUnits(d)[i] = u(i)
  BY <1>2, <1>3
<1>5. PcmUnits(d) \in Seq(Unit)
  BY <1>1, <1>4, SeqDef
<1>6. Len(PcmUnits(d)) = n
  BY <1>1, <1>4, <1>5, LenProperties
<1>7. IsPiece(PcmUnits(d), stream, d.song, d.dpos - d.fill)
  BY <1>4, <1>6 DEF IsPiece
<1> QED BY <1>5, <1>6, <1>7

LEMMA NoPiece ==
  ASSUME NEW str, NEW song, NEW from
  PROVE  IsPiece(<<>>, str, song, from)
<1>1. Len(<<>>) = 0
  BY EmptySeq
<1> QED BY <1>1 DEF IsPiece

LEMMA PieceSplits ==
  ASSUME NEW us \in Seq(Unit), NEW str, NEW song, NEW from \in Nat, IsPiece(us, str, song, from),
         NEW k \in 0..Len(us)
  PROVE  /\ IsPiece(SubSeq(us, 1, k), str, song, from)
         /\ IsPiece(SubSeq(us, k + 1, Len(us)), str, song, from + k)
<1>1. Len(us) \in Nat /\ k \in Nat
  BY LenProperties
<1>2. /\ Len(SubSeq(us, 1, k)) = k /\ \A i \in 1..k : SubSeq(us, 1, k)[i] = us[i]
      /\ Len(SubSeq(us, k + 1, Len(us))) = Len(us) - k
      /\ \A i \in 1..Len(us) - k : SubSeq(us, k + 1, Len(us))[i] = us[k + i]
  BY SplitSeq
<1>3. IsPiece(SubSeq(us, 1, k), str, song, from)
  BY <1>1, <1>2 DEF IsPiece
<1>4. ASSUME NEW i \in 1..Len(us) - k
      PROVE  SubSeq(us, k + 1, Len(us))[i]
               = [stream |-> str, song |-> song, pos |-> from + k + i - 1]
  <2>1. k + i \in 1..Len(us) /\ from + (k + i) - 1 = from + k + i - 1
    BY <1>1
  <2> QED BY <1>2, <2>1 DEF IsPiece
<1>5. IsPiece(SubSeq(us, k + 1, Len(us)), str, song, from + k)
  BY <1>2, <1>4 DEF IsPiece
<1> QED BY <1>3, <1>5

LEMMA PiecesJoin ==
  ASSUME NEW us \in Seq(Unit), NEW vs \in Seq(Unit), NEW str, NEW song, NEW from \in Nat,
         IsPiece(us, str, song, from), IsPiece(vs, str, song, from + Len(us))
  PROVE  IsPiece(us \o vs, str, song, from)
<1> DEFINE m == Len(us)  n == Len(vs)
<1>1. m \in Nat /\ n \in Nat
  BY LenProperties
<1>2. /\ Len(us \o vs) = m + n
      /\ \A i \in 1..m + n : (us \o vs)[i] = IF i <= m THEN us[i] ELSE vs[i - m]
  BY ConcatProperties
<1>3. ASSUME NEW i \in 1..m + n
      PROVE  (us \o vs)[i] = [stream |-> str, song |-> song, pos |-> from + i - 1]
  <2>1. CASE i <= m
    <3>1. i \in 1..m
      BY <1>1, <2>1
    <3> QED BY <1>2, <2>1, <3>1 DEF IsPiece
  <2>2. CASE ~(i <= m)
    <3>1. i - m \in 1..n /\ (from + m) + (i - m) - 1 = from + i - 1
      BY <1>1, <2>2
    <3>2. vs[i - m] = [stream |-> str, song |-> song, pos |-> (from + m) + (i - m) - 1]
      BY <3>1 DEF IsPiece
    <3> QED BY <1>2, <2>2, <3>1, <3>2
  <2> QED BY <2>1, <2>2
<1> QED BY <1>2, <1>3 DEF IsPiece

-----------------------------------------------------------------------------
(* The types of the output buffer                                          *)

(* What out_buf_put() finds room for, and what the reader takes.           *)
LEMMA FittingIs ==
  ASSUME OutBufTypes, ~Full, NEW us \in Seq(Unit)
  PROVE  /\ Fitting(us) \in 0..Len(us) /\ Len(buf) + Fitting(us) <= BufSize
         /\ buf \o SubSeq(us, 1, Fitting(us)) \in Seq(Unit)
         /\ Len(buf \o SubSeq(us, 1, Fitting(us))) = Len(buf) + Fitting(us)
<1>1. /\ Len(us) \in Nat /\ Len(buf) \in Nat /\ BufSize \in Nat /\ Len(buf) < BufSize
      /\ buf \in Seq(Unit)
  BY LenProperties, BufSizeAssumption DEF OutBufTypes, Full
<1>2. Fitting(us) \in 0..Len(us) /\ Len(buf) + Fitting(us) <= BufSize
  BY <1>1 DEF Fitting, Least
<1>3. SubSeq(us, 1, Fitting(us)) \in Seq(Unit) /\ Len(SubSeq(us, 1, Fitting(us))) = Fitting(us)
  BY <1>2, SplitSeq
<1> QED BY <1>1, <1>2, <1>3, ConcatProperties

LEMMA TakenIs ==
  ASSUME OutBufTypes, NEW k, k = Least(Chunk, Len(buf))
  PROVE  /\ k \in 0..Len(buf) /\ k <= Chunk
         /\ SubSeq(buf, 1, k) \in Seq(Unit) /\ Len(SubSeq(buf, 1, k)) = k
         /\ Rest(k) \in Seq(Unit) /\ Len(Rest(k)) = Len(buf) - k
<1>1. Len(buf) \in Nat /\ Chunk \in Nat /\ buf \in Seq(Unit)
  BY LenProperties, ChunkAssumption DEF OutBufTypes
<1>2. k \in 0..Len(buf) /\ k <= Chunk
  BY <1>1 DEF Least
<1> QED BY <1>1, <1>2, SplitSeq DEF Rest

LEMMA ReaderTypes ==
  ASSUME OutBufTypes, ReaderStep
  PROVE  OutBufTypes'
<1> USE DEF OutBufTypes, flags, ReaderPlaces
<1>0. <<>> \in Seq(Unit) /\ Len(<<>>) = 0
  BY EmptySeq
<1>1. Len(buf) \in Nat /\ Len(chunk) \in Nat /\ BufSize \in Nat /\ Chunk \in Nat
  BY LenProperties, BufSizeAssumption, ChunkAssumption
<1>2. CASE ReaderTop
  <2>1. buf' \in Seq(Unit) /\ Len(buf') <= BufSize
    BY <1>0, <1>1, <1>2 DEF ReaderTop, KeptAtTop
  <2> QED BY <1>2, <2>1 DEF ReaderTop, DeviceReset
<1>3. CASE ReaderCallbackDone
  BY <1>3 DEF ReaderCallbackDone
<1>4. CASE ReaderReady
  BY <1>4 DEF ReaderReady, AsleepAfterBroadcast
<1>5. CASE ReaderClosed
  BY <1>5 DEF ReaderClosed
<1>6. CASE ReaderPast
  BY <1>6 DEF ReaderPast
<1>7. CASE ReaderOpened
  BY <1>7 DEF ReaderOpened
<1>8. CASE ReaderExit
  BY <1>8 DEF ReaderExit
<1>9. CASE ReaderAgain
  BY <1>9 DEF ReaderAgain
<1>10. CASE ReaderTake
  <2> DEFINE k == Least(Chunk, Len(buf))
  <2>1. chunk' = SubSeq(buf, 1, k) /\ buf' = Rest(k) /\ played' = 0
    BY <1>10 DEF ReaderTake
  <2>2. /\ k \in 0..Len(buf) /\ k <= Chunk
        /\ SubSeq(buf, 1, k) \in Seq(Unit) /\ Len(SubSeq(buf, 1, k)) = k
        /\ Rest(k) \in Seq(Unit) /\ Len(Rest(k)) = Len(buf) - k
    BY TakenIs
  <2> HIDE DEF k
  <2>3. /\ buf' \in Seq(Unit) /\ Len(buf') <= BufSize
        /\ chunk' \in Seq(Unit) /\ Len(chunk') <= Chunk /\ played' \in 0..Len(chunk')
    BY <1>1, <2>1, <2>2
  <2> QED BY <1>10, <2>3 DEF ReaderTake
<1>11. CASE ReaderSend
  BY <1>1, <1>11 DEF ReaderSend
<1>12. CASE ReaderSent
  <2>1. time' \in Nat /\ chunk' \in Seq(Unit) /\ Len(chunk') <= Chunk /\ played' \in 0..Len(chunk')
    BY <1>0, <1>1, <1>12 DEF ReaderSent, SentTime
  <2> QED BY <1>12, <2>1 DEF ReaderSent
<1> QED
  BY <1>2, <1>3, <1>4, <1>5, <1>6, <1>7, <1>8, <1>9, <1>10, <1>11, <1>12 DEF ReaderStep

(* The functions the player and the server call.                           *)
LEMMA CallTypes ==
  ASSUME OutBufTypes,
         \/ \E v \in Nat : TimeSet(v)
         \/ Reset \/ SetCallback \/ StopCall(Player) \/ PutSleep(Player)
         \/ WaitSleep(Player)
         \/ Pause \/ Unpause
         \/ \E us \in Seq(Unit) : PutSome(us)
  PROVE  OutBufTypes'
<1> USE DEF OutBufTypes, flags, reader, obVars, ReaderPlaces
<1>0. <<>> \in Seq(Unit) /\ Len(<<>>) = 0 /\ BufSize \in Nat
  BY EmptySeq, BufSizeAssumption
<1>1. ASSUME NEW v \in Nat, TimeSet(v) PROVE OutBufTypes'
  BY <1>1 DEF TimeSet
<1>2. CASE Reset
  <2>1. buf' \in Seq(Unit) /\ Len(buf') <= BufSize
    BY <1>0, <1>2 DEF Reset, KeptByReset
  <2> QED BY <1>2, <2>1 DEF Reset
<1>3. CASE SetCallback
  BY <1>3 DEF SetCallback
<1>4. CASE StopCall(Player)
  BY <1>4 DEF StopCall, Signalled, Sleep
<1>5. CASE PutSleep(Player) \/ WaitSleep(Player)
  BY <1>5 DEF PutSleep, WaitSleep, Sleep
<1>6. CASE Pause
  BY <1>6 DEF Pause
<1>7. CASE Unpause
  BY <1>7 DEF Unpause, Signalled
<1>8. ASSUME NEW us \in Seq(Unit), PutSome(us) PROVE OutBufTypes'
  <2>1. buf' = buf \o SubSeq(us, 1, Fitting(us)) /\ ~Full
    BY <1>8 DEF PutSome
  <2>2. buf' \in Seq(Unit) /\ Len(buf') <= BufSize
    BY <2>1, FittingIs
  <2> QED BY <1>8, <2>2 DEF PutSome, Signalled
<1> QED BY <1>1, <1>2, <1>3, <1>4, <1>5, <1>6, <1>7, <1>8

-----------------------------------------------------------------------------
(* The types of the engine                                                 *)

LEMMA BufferUnmoved ==
  ASSUME OutBufTypes, UNCHANGED obVars
  PROVE  OutBufTypes'
BY DEF OutBufTypes, obVars

LEMMA OpenedIs ==
  ASSUME NEW sp \in Params \cup {"none"}, AudioOpens(sp)
  PROVE  opened' \in BOOLEAN /\ devSp' \in Params \cup {"none"}
BY DEF AudioOpens

LEMMA FailedIs ==
  ASSUME NEW s \in Songs, invalid \subseteq Songs, FailFile(s) \/ invalid' = invalid
  PROVE  invalid' \subseteq Songs
BY DEF FailFile

LEMMA PlayerKeepsBufferTypes ==
  ASSUME TypeOK, DecoderHolds, PlayerStep
  PROVE  OutBufTypes'
<1> USE DEF TypeOK
<1>1. CASE \/ PickSong \/ ClearSkips \/ Advance \/ EndPlaying \/ JoinPrecache \/ PrecachedOpen
           \/ PrecachedReady \/ NewDecoder \/ StartPlaying \/ Decode \/ CheckRoom \/ CheckHeld
           \/ StartPrecache \/ WaitRequest \/ TakeRequest
  <2>1. UNCHANGED obVars
    BY <1>1 DEF PickSong, ClearSkips, Advance, EndPlaying, JoinPrecache, PrecachedOpen,
                PrecachedReady, NewDecoder, StartPlaying, Decode, CheckRoom, CheckHeld,
                StartPrecache, WaitRequest, TakeRequest
  <2> QED BY <2>1, BufferUnmoved
<1>2. CASE \/ PlayerStopped \/ PlayerSeek \/ PlayerSeekFails \/ SeekStopped \/ StartFlush
           \/ Flushed \/ CheckParams \/ ParamsWaited \/ ParamsOpen \/ CheckFinished
           \/ DeleteDecoder \/ LastWaited
  <2>1. UNCHANGED obVars
    BY <1>2 DEF PlayerStopped, PlayerSeek, PlayerSeekFails, SeekStopped, StartFlush, Flushed,
                CheckParams, ParamsWaited, ParamsOpen, CheckFinished, DeleteDecoder,
                LastWaited, StopReturn, WaitReturn
  <2> QED BY <2>1, BufferUnmoved
<1>3. CASE CloseDevice
  BY <1>3 DEF CloseDevice, OutBufTypes, flags, reader
<1>4. CASE TimeZero \/ TimeZeroAfter
  <2>1. \E v \in Nat : TimeSet(v)
    BY <1>4 DEF TimeZero, TimeZeroAfter
  <2> QED BY <2>1, CallTypes
<1>5. CASE SeekTime
  <2>1. seekPos \in Nat /\ TimeSet(seekPos)
    BY <1>5 DEF SeekTime, DecoderHolds, SeekPlaces
  <2> QED BY <2>1, CallTypes
<1>6. CASE FlushWrites
  <2>1. pending \in Seq(Unit) /\ PutSome(pending)
    BY <1>6 DEF FlushWrites, PlayerTypes
  <2> QED BY <2>1, CallTypes
<1>7. CASE \/ PlayerReset \/ InstallCallback \/ PlayerStop \/ SeekStop \/ SeekReset
           \/ FlushSleeps \/ WaitSleeps
  <2>1. Reset \/ SetCallback \/ StopCall(Player) \/ PutSleep(Player) \/ WaitSleep(Player)
    BY <1>7 DEF PlayerReset, InstallCallback, PlayerStop, SeekStop, SeekReset,
       FlushSleeps, WaitSleeps
  <2> QED BY <2>1, CallTypes
<1> QED BY <1>1, <1>2, <1>3, <1>4, <1>5, <1>6, <1>7 DEF PlayerStep

LEMMA PlayerKeepsPrecacheTypes ==
  ASSUME TypeOK, PlayerStep
  PROVE  PrecacheTypes'
<1> USE DEF TypeOK, PrecacheTypes, pre
<1>1. CASE JoinPrecache
  BY <1>1, DecodersAre DEF JoinPrecache
<1>2. CASE StartPrecache
  <2>1. nextFile \in Songs \cup {0}
    BY DEF PlayerTypes
  <2> QED BY <1>2, <2>1, DecodersAre DEF StartPrecache
<1>3. CASE ~JoinPrecache /\ ~StartPrecache
  <2>1. UNCHANGED pre
    BY <1>3 DEF PlayerStep, PickSong, ClearSkips, TimeZero, Advance, EndPlaying,
       CloseDevice, PlayerReset, PrecachedOpen, PrecachedReady, NewDecoder, StartPlaying,
       InstallCallback, Decode, CheckRoom, CheckHeld, WaitRequest, TakeRequest, PlayerStop,
       PlayerStopped, PlayerSeek, PlayerSeekFails, SeekStop, SeekStopped, SeekReset,
       SeekTime, StartFlush, FlushWrites, Flushed, CheckParams, FlushSleeps, WaitSleeps,
       ParamsWaited,
       ParamsOpen, CheckFinished, DeleteDecoder, LastWaited, TimeZeroAfter
  <2> QED BY <2>1
<1> QED BY <1>1, <1>2, <1>3

LEMMA PlayerKeepsServerTypes ==
  ASSUME TypeOK, DecoderHolds, PlayerStep
  PROVE  ServerTypes'
<1> USE DEF TypeOK, ServerTypes, plist, requests, server
<1>1. CASE ClearSkips \/ EndPlaying \/ StartPlaying \/ TakeRequest
  BY ZenonT(20), <1>1 DEF ClearSkips, EndPlaying, StartPlaying, TakeRequest
<1>2. CASE Advance
  <2>1. cur' \in Songs \cup {0}
    BY <1>2, NextIsASong DEF Advance
  <2> QED BY <1>2, <2>1 DEF Advance
<1>3. CASE NewDecoder
  <2>1. file \in Songs
    BY <1>3 DEF NewDecoder, DecoderHolds, PlayerTypes
  <2>2. invalid' \subseteq Songs
    BY <1>3, <2>1, FailedIs DEF NewDecoder
  <2> QED BY <1>3, <2>2 DEF NewDecoder
<1>4. CASE Decode
  <2>1. dec.song \in Songs
    BY <1>4, DecoderFields DEF Decode, DecoderHolds, SoundPlaces, LoopPlaces, PlayerTypes
  <2>2. invalid' \subseteq Songs
    BY <1>4, <2>1, FailedIs DEF Decode
  <2> QED BY <1>4, <2>2 DEF Decode
<1>5. CASE \/ PickSong \/ TimeZero \/ CloseDevice \/ PlayerReset \/ JoinPrecache
           \/ PrecachedOpen \/ PrecachedReady \/ InstallCallback \/ CheckRoom \/ CheckHeld
           \/ StartPrecache \/ WaitRequest \/ PlayerStop \/ PlayerStopped \/ PlayerSeek
           \/ PlayerSeekFails \/ SeekStop \/ SeekStopped \/ SeekReset \/ SeekTime
           \/ StartFlush \/ FlushWrites \/ Flushed \/ CheckParams \/ FlushSleeps
           \/ WaitSleeps
           \/ ParamsWaited \/ ParamsOpen \/ CheckFinished \/ DeleteDecoder \/ LastWaited
           \/ TimeZeroAfter
  <2>1. UNCHANGED <<plist, state, requests, server>>
    BY <1>5 DEF PickSong, TimeZero, CloseDevice, PlayerReset, JoinPrecache, PrecachedOpen,
       PrecachedReady, InstallCallback, CheckRoom, CheckHeld, StartPrecache, WaitRequest,
       PlayerStop, PlayerStopped, PlayerSeek, PlayerSeekFails, SeekStop, SeekStopped,
       SeekReset, SeekTime, StartFlush, FlushWrites, Flushed, CheckParams, FlushSleeps,
       WaitSleeps,
       ParamsWaited, ParamsOpen, CheckFinished, DeleteDecoder, LastWaited, TimeZeroAfter
  <2> QED BY <2>1
<1> QED BY <1>1, <1>2, <1>3, <1>4, <1>5 DEF PlayerStep

LEMMA PlayerPlacesAre ==
  ASSUME TypeOK, PlayerStep
  PROVE  ppc # "none" /\ ppc' # "none" /\ ppc' \in PlayerPlaces
<1>0. ppc \in PlayerPlaces /\ request \in {"nothing", "stop", "seek"}
  BY DEF TypeOK, PlayerTypes, ServerTypes
<1> USE <1>0 DEF PlayerPlaces, LoopPlaces, PlayerGoes
<1>1. CASE \/ PickSong \/ ClearSkips \/ TimeZero \/ Advance \/ EndPlaying \/ CloseDevice
           \/ PlayerReset \/ JoinPrecache \/ PrecachedOpen \/ PrecachedReady \/ NewDecoder
           \/ StartPlaying \/ InstallCallback
  BY <1>1 DEF PickSong, ClearSkips, TimeZero, Advance, EndPlaying, CloseDevice, PlayerReset,
     JoinPrecache, PrecachedOpen, PrecachedReady, NewDecoder, StartPlaying, InstallCallback
<1>2. CASE \/ Decode \/ CheckRoom \/ CheckHeld \/ StartPrecache \/ WaitRequest \/ TakeRequest
           \/ PlayerStop \/ PlayerStopped \/ PlayerSeek \/ PlayerSeekFails \/ SeekStop
           \/ SeekStopped \/ SeekReset \/ SeekTime
  <2>1. CASE Decode \/ CheckRoom \/ CheckHeld \/ StartPrecache \/ WaitRequest
    BY <2>1 DEF Decode, CheckRoom, CheckHeld, StartPrecache, WaitRequest
  <2>2. CASE TakeRequest
    BY <2>2 DEF TakeRequest
  <2>3. CASE \/ PlayerStop \/ PlayerStopped \/ PlayerSeek \/ PlayerSeekFails \/ SeekStop
             \/ SeekStopped \/ SeekReset \/ SeekTime
    BY <2>3 DEF PlayerStop, PlayerStopped, PlayerSeek, PlayerSeekFails, SeekStop, SeekStopped,
       SeekReset, SeekTime
  <2> QED BY <1>2, <2>1, <2>2, <2>3
<1>3. CASE \/ StartFlush \/ FlushWrites \/ Flushed \/ CheckParams \/ FlushSleeps
           \/ WaitSleeps
           \/ ParamsWaited \/ ParamsOpen \/ CheckFinished \/ DeleteDecoder \/ LastWaited
           \/ TimeZeroAfter
  BY <1>3 DEF StartFlush, FlushWrites, Flushed, CheckParams, FlushSleeps, WaitSleeps,
     ParamsWaited,
     ParamsOpen, CheckFinished, DeleteDecoder, LastWaited, TimeZeroAfter
<1> QED BY <1>1, <1>2, <1>3 DEF PlayerStep

LEMMA PlayerKeepsPlayerTypes ==
  ASSUME TypeOK, DecoderHolds, PlayerStep
  PROVE  PlayerTypes'
<1> USE DEF TypeOK, PlayerTypes, locals, device
<1>0. /\ ppc' \in PlayerPlaces /\ dec \in Decoders /\ NoDecoder \in Decoders
      /\ dec.sp \in Params \cup {"none"}
  BY PlayerPlacesAre, DecodersAre, DecoderFields
<1>1. CASE PickSong
  <2>1. file' \in Songs \cup {0} /\ nextFile' \in Songs \cup {0}
    BY <1>1, NextIsASong DEF PickSong, Valid
  <2> QED BY <1>0, <1>1, <2>1 DEF PickSong
<1>2. CASE CloseDevice \/ PlayerReset \/ PlayerStop \/ SeekReset \/ DeleteDecoder
  <2>1. CASE CloseDevice
    BY <1>0, <2>1 DEF CloseDevice
  <2>2. CASE PlayerReset
    <3>1. /\ stream' = stream + 1 /\ stopped' = FALSE /\ dec' = NoDecoder
          /\ UNCHANGED <<file, nextFile, seekPos, pending, device>>
      BY <2>2 DEF PlayerReset
    <3>2. dec' \in Decoders
      BY <1>0, <3>1
    <3>3. stream' \in Nat
      BY <3>1
    <3>4. stopped' \in BOOLEAN
      BY <3>1
    <3> QED BY <1>0, <3>1, <3>2, <3>3, <3>4
  <2>3. CASE SeekReset
    BY <1>0, <2>3 DEF SeekReset
  <2>4. CASE DeleteDecoder
    BY <1>0, <2>4 DEF DeleteDecoder
  <2>5. CASE PlayerStop
    BY <1>0, <2>5 DEF PlayerStop
  <2> QED BY <1>2, <2>1, <2>2, <2>3, <2>4, <2>5
<1>3. CASE JoinPrecache
  BY <1>0, <1>3 DEF JoinPrecache, PrecacheTypes
<1>4. CASE PrecachedOpen
  <2>1. opened' \in BOOLEAN /\ devSp' \in Params \cup {"none"}
    BY <1>0, <1>4, OpenedIs DEF PrecachedOpen
  <2>2. dec' \in Decoders
    BY <1>0, <1>4, DecoderChanges DEF PrecachedOpen
  <2>3. pending' \in Seq(Unit)
    BY <1>0, <1>4, PcmUnitsAre DEF PrecachedOpen
  <2> QED BY <1>0, <1>4, <2>1, <2>2, <2>3 DEF PrecachedOpen
<1>5. CASE NewDecoder
  <2>1. dec' \in Decoders
    BY <1>5, DecodersAre DEF NewDecoder, DecoderHolds
  <2> QED BY <1>0, <1>5, <2>1 DEF NewDecoder
<1>6. CASE Decode
  <2>1. dec' \in Decoders
    BY <1>6, DecodedIs DEF Decode, DecoderHolds, SoundPlaces, LoopPlaces
  <2> QED BY <1>0, <1>6, <2>1 DEF Decode
<1>7. CASE PlayerSeek
  <2>1. reqSeek \in Nat /\ Len(Song[dec.song]) \in Nat
    BY <1>7, DecoderFields, SongsAre
       DEF PlayerSeek, PlayerGoes, DecoderHolds, SoundPlaces, ServerTypes
  <2>2. dec' \in Decoders /\ seekPos' \in Int /\ stopped' \in BOOLEAN
    <3>1. CASE SeekInside
      BY <1>0, <2>1, <3>1, AfterSeekIs DEF SeekInside
    <3>2. CASE SeekToEnd
      <4>1. dec' = [dec EXCEPT !.done = TRUE] /\ seekPos' = Len(Song[dec.song]) /\ stopped' = TRUE
        BY <3>2 DEF SeekToEnd
      <4>2. [dec EXCEPT !.done = TRUE] \in Decoders
        BY <1>0, DecoderChanges
      <4> QED BY <2>1, <4>1, <4>2
    <3>3. SeekInside \/ SeekToEnd
      BY <1>7 DEF PlayerSeek
    <3> QED BY <3>1, <3>2, <3>3
  <2> QED BY <1>0, <1>7, <2>2 DEF PlayerSeek
<1>8. CASE SeekTime
  BY <1>0, <1>8, DecoderChanges DEF SeekTime, PcmAfterSeek
<1>9. CASE StartFlush
  <2>1. dec' \in Decoders
    BY <1>0, <1>9, DecoderChanges DEF StartFlush
  <2>2. pending' \in Seq(Unit)
    BY <1>0, <1>9, PcmUnitsAre DEF StartFlush
  <2> QED BY <1>0, <1>9, <2>1, <2>2 DEF StartFlush
<1>10. CASE FlushWrites
  <2>1. Fitting(pending) \in 0..Len(pending)
    BY <1>10, FittingIs DEF FlushWrites, PutSome
  <2>2. pending' \in Seq(Unit)
    BY <1>10, <2>1, SplitSeq DEF FlushWrites
  <2> QED BY <1>0, <1>10, <2>2 DEF FlushWrites
<1>11. CASE CheckParams
  BY <1>0, <1>11, DecoderChanges DEF CheckParams
<1>12. CASE ParamsOpen
  <2>1. opened' \in BOOLEAN /\ devSp' \in Params \cup {"none"}
    BY <1>0, <1>12, OpenedIs DEF ParamsOpen
  <2> QED BY <1>0, <1>12, <2>1 DEF ParamsOpen
<1>13. CASE \/ ClearSkips \/ TimeZero \/ Advance \/ EndPlaying \/ PrecachedReady
            \/ StartPlaying \/ InstallCallback \/ CheckRoom \/ CheckHeld \/ StartPrecache
            \/ WaitRequest \/ TakeRequest \/ PlayerStopped \/ PlayerSeekFails \/ SeekStop
            \/ SeekStopped \/ Flushed \/ FlushSleeps \/ WaitSleeps \/ ParamsWaited
            \/ CheckFinished
            \/ LastWaited \/ TimeZeroAfter
  <2>1. UNCHANGED <<locals, device>>
    BY <1>13 DEF ClearSkips, TimeZero, Advance, EndPlaying, PrecachedReady, StartPlaying,
       InstallCallback, CheckRoom, CheckHeld, StartPrecache, WaitRequest, TakeRequest,
       PlayerStopped, PlayerSeekFails, SeekStop, SeekStopped, Flushed, FlushSleeps,
       WaitSleeps,
       ParamsWaited, CheckFinished, LastWaited, TimeZeroAfter
  <2> QED BY <1>0, <2>1
<1> QED BY <1>1, <1>2, <1>3, <1>4, <1>5, <1>6, <1>7, <1>8, <1>9, <1>10, <1>11, <1>12, <1>13
        DEF PlayerStep

LEMMA PrecacheRunsTypes ==
  ASSUME TypeOK, PrecacheHolds, PrecacheRuns
  PROVE  TypeOK'
<1>1. precache.song \in Songs
  BY DecoderFields DEF PrecacheRuns, PrecacheHolds, TypeOK, PrecacheTypes
<1>2. OutBufTypes'
  BY BufferUnmoved DEF PrecacheRuns, TypeOK
<1>3. PlayerTypes'
  BY DEF PrecacheRuns, TypeOK, PlayerTypes, locals, device
<1>4. PrecacheTypes'
  BY <1>1, PrecachedIs DEF PrecacheRuns, TypeOK, PrecacheTypes
<1>5. ServerTypes'
  <2>1. invalid' \subseteq Songs
    BY <1>1, FailedIs DEF PrecacheRuns, TypeOK, ServerTypes
  <2> QED BY <2>1 DEF PrecacheRuns, TypeOK, ServerTypes, requests, server
<1> QED BY <1>2, <1>3, <1>4, <1>5 DEF TypeOK

LEMMA AwakeIs ==
  ASSUME PlayerTypes
  PROVE  Awake \in PlayerPlaces
BY DEF PlayerTypes, Awake, PlayerPlaces, LoopPlaces

LEMMA ReaderMovesTypes ==
  ASSUME TypeOK, ReaderMoves
  PROVE  TypeOK'
<1>1. OutBufTypes'
  <2>1. CASE CallbackNotifies
    BY <2>1, BufferUnmoved DEF CallbackNotifies, TypeOK
  <2>2. CASE ReaderRuns \/ CallbackReturns \/ ReaderCloses \/ ReaderReopens
    <3>1. ReaderStep
      BY <2>2 DEF ReaderRuns, CallbackReturns, ReaderCloses, ReaderReopens, ReaderStep
    <3> QED BY <3>1, ReaderTypes DEF TypeOK
  <2> QED BY <2>1, <2>2 DEF ReaderMoves
<1>2. PlayerTypes'
  <2> USE DEF TypeOK, PlayerTypes, locals, device
  <2>1. CASE ReaderRuns
    BY <2>1 DEF ReaderRuns
  <2>2. CASE CallbackNotifies
    BY <2>2, AwakeIs DEF CallbackNotifies
  <2>3. CASE CallbackReturns
    BY <2>3 DEF CallbackReturns
  <2>4. CASE ReaderCloses
    BY <2>4 DEF ReaderCloses
  <2>5. CASE ReaderReopens
    <3>1. devClosed' \in BOOLEAN
      BY <1>1 DEF OutBufTypes
    <3>2. opened' \in BOOLEAN
      BY <2>5, <3>1 DEF ReaderReopens
    <3> QED BY <2>5, <3>2 DEF ReaderReopens
  <2> QED BY <2>1, <2>2, <2>3, <2>4, <2>5 DEF ReaderMoves
<1>3. UNCHANGED <<pre, plist, state, requests, server>>
  BY DEF ReaderMoves, ReaderRuns, CallbackNotifies, CallbackReturns, ReaderCloses, ReaderReopens
<1>4. PrecacheTypes' /\ ServerTypes'
  BY <1>3 DEF TypeOK, PrecacheTypes, ServerTypes, pre, plist, requests, server
<1> QED BY <1>1, <1>2, <1>4 DEF TypeOK

LEMMA ServerKeepsBufferTypes ==
  ASSUME TypeOK, CommandHandled \/ ServerInCall
  PROVE  OutBufTypes'
<1>1. CASE CmdPause \/ CmdUnpause
  <2>1. Pause \/ Unpause
    BY <1>1 DEF CmdPause, CmdUnpause
  <2> QED BY <2>1, CallTypes DEF TypeOK
<1>2. CASE ~(CmdPause \/ CmdUnpause)
  <2>1. UNCHANGED obVars
    BY <1>2 DEF CommandHandled, ServerInCall, CmdStop, CmdPlay, CmdSkip, CmdSeek, PostStop,
                JoinPlayer, StartPlayer, SetState, PostSeek
  <2> QED BY <2>1, BufferUnmoved DEF TypeOK
<1> QED BY <1>1, <1>2

LEMMA ServerKeepsPlayerTypes ==
  ASSUME TypeOK, CommandHandled \/ ServerInCall
  PROVE  PlayerTypes' /\ PrecacheTypes'
<1>1. UNCHANGED <<locals, device, pre>>
  BY DEF CommandHandled, ServerInCall, CmdStop, CmdPause, CmdUnpause, CmdPlay, CmdSkip,
         CmdSeek, PostStop, JoinPlayer, StartPlayer, SetState, PostSeek
<1>2. ppc' \in {ppc, Awake, "none", "pick"}
  BY DEF CommandHandled, ServerInCall, CmdStop, CmdPause, CmdUnpause, CmdPlay, CmdSkip,
         CmdSeek, PostStop, JoinPlayer, StartPlayer, SetState, PostSeek
<1>3. ppc' \in PlayerPlaces
  BY <1>2, AwakeIs DEF TypeOK, PlayerTypes, PlayerPlaces
<1> QED BY <1>1, <1>3 DEF TypeOK, PlayerTypes, PrecacheTypes, locals, device, pre

LEMMA CommandTypes ==
  ASSUME TypeOK, CommandHandled
  PROVE  ServerTypes'
<1> USE DEF TypeOK, ServerTypes, plist, requests
<1>1. ASSUME NEW c, Command(c) PROVE cmds' \in 0..(MaxCmds + 1)
  BY <1>1, CommandsAssumption DEF Command
<1>2. CASE CmdStop
  <2>1. then' \in Int /\ reqSeek' \in Nat /\ cmds' \in 0..(MaxCmds + 1)
    BY <1>1, <1>2 DEF CmdStop
  <2>2. cur' \in Songs \cup {0} /\ state' \in {"stop", "play", "pause"}
    BY <1>2 DEF CmdStop
  <2> QED BY <1>2, <2>1, <2>2 DEF CmdStop
<1>3. CASE CmdPause
  BY <1>1, <1>3 DEF CmdPause
<1>4. CASE CmdUnpause
  BY <1>1, <1>4 DEF CmdUnpause
<1>5. ASSUME NEW s \in Songs \cup {-1}, CmdPlay(s) PROVE ServerTypes'
  <2>1. -1 \in Int /\ \A t \in Songs : t \in Int
    BY SongsAre
  <2>2. s \in Int
    BY <2>1
  <2> QED BY <1>1, <1>5, <2>2 DEF CmdPlay
<1>6. ASSUME NEW c \in Commands, CmdSkip(c) PROVE ServerTypes'
  BY <1>1, <1>6 DEF CmdSkip
<1>7. ASSUME NEW c \in Commands, NEW by \in -1..1, CmdSeek(c, by) PROVE ServerTypes'
  BY <1>1, <1>7 DEF CmdSeek
<1> QED BY <1>2, <1>3, <1>4, <1>5, <1>6, <1>7 DEF CommandHandled

LEMMA InCallTypes ==
  ASSUME TypeOK, ServerInCall
  PROVE  ServerTypes'
<1> USE DEF TypeOK, ServerTypes, plist, requests
<1>1. CASE PostStop
  BY <1>1 DEF PostStop
<1>2. CASE JoinPlayer
  BY <1>2 DEF JoinPlayer
<1>3. CASE StartPlayer
  <2>1. cur' \in Songs \cup {0}
    BY <1>3, NextIsASong DEF StartPlayer
  <2>2. then' \in Int /\ reqSeek' \in Nat /\ cmds' \in 0..(MaxCmds + 1)
    BY <1>3 DEF StartPlayer
  <2> QED BY <1>3, <2>1, <2>2 DEF StartPlayer
<1>4. CASE SetState
  BY <1>4 DEF SetState
<1>5. CASE PostSeek
  <2>1. SeekTarget \in Nat
    <3>1. time \in Nat /\ then \in Int
      BY DEF OutBufTypes
    <3> QED BY <3>1 DEF SeekTarget
  <2> QED BY <1>5, <2>1 DEF PostSeek
<1> QED BY <1>1, <1>2, <1>3, <1>4, <1>5 DEF ServerInCall

LEMMA InitTypes == Init => TypeOK
<1> SUFFICES ASSUME Init PROVE TypeOK
  OBVIOUS
<1>1. <<>> \in Seq(Unit) /\ Len(<<>>) = 0 /\ BufSize \in Nat /\ Chunk \in Nat
  BY EmptySeq, BufSizeAssumption, ChunkAssumption
<1>2. OutBufTypes
  <2>1. /\ buf \in Seq(Unit) /\ Len(buf) <= BufSize
        /\ chunk \in Seq(Unit) /\ Len(chunk) <= Chunk /\ played \in 0..Len(chunk)
    BY <1>1 DEF Init, OutBufInit
  <2>2. time \in Nat
    BY DEF Init, OutBufInit
  <2> QED BY <2>1, <2>2 DEF Init, OutBufInit, OutBufTypes, ReaderPlaces
<1>3. PlayerTypes
  <2>1. pending \in Seq(Unit) /\ dec \in Decoders
    BY <1>1, DecodersAre DEF Init
  <2>2. seekPos \in Int /\ stream \in Nat
    BY DEF Init
  <2> QED BY <2>1, <2>2 DEF Init, PlayerTypes, PlayerPlaces
<1>4. PrecacheTypes
  BY DecodersAre DEF Init, PrecacheTypes
<1>5. ServerTypes
  <2>1. cmds \in 0..(MaxCmds + 1)
    BY CommandsAssumption DEF Init
  <2>2. then \in Int /\ reqSeek \in Nat
    BY DEF Init
  <2> QED BY <2>1, <2>2 DEF Init, ServerTypes
<1> QED BY <1>2, <1>3, <1>4, <1>5 DEF TypeOK

(* Every step keeps the types, given what holds of the threads.            *)
LEMMA TypesKept ==
  ASSUME TypeOK, PrecacheHolds, DecoderHolds, Next
  PROVE  TypeOK'
<1>1. CASE PlayerStep
  BY <1>1, PlayerKeepsBufferTypes, PlayerKeepsPlayerTypes, PlayerKeepsPrecacheTypes,
     PlayerKeepsServerTypes DEF TypeOK
<1>2. CASE CommandHandled \/ ServerInCall
  BY <1>2, ServerKeepsBufferTypes, ServerKeepsPlayerTypes, CommandTypes, InCallTypes DEF TypeOK
<1> QED BY <1>1, <1>2, PrecacheRunsTypes, ReaderMovesTypes DEF Next

-----------------------------------------------------------------------------
(* What holds of the threads                                               *)

LEMMA ReaderHoldsKept ==
  ASSUME ReaderHolds, Next
  PROVE  ReaderHolds'
<1> USE DEF ReaderHolds
<1>1. CASE UNCHANGED <<rpc, chunk, waiting>>
  BY <1>1
<1>2. CASE UNCHANGED <<chunk, waiting>> /\ rpc' = Signalled
  BY <1>2 DEF Signalled
<1>3. CASE ReaderStep
  <2>1. CASE \/ ReaderTop \/ ReaderCallbackDone \/ ReaderPast \/ ReaderOpened \/ ReaderExit
             \/ ReaderAgain
    <3>1. rpc # "send" /\ rpc' # "send" /\ chunk' = chunk
      BY <2>1 DEF ReaderTop, ReaderCallbackDone, ReaderPast, ReaderOpened, ReaderExit, ReaderAgain
    <3>2. waiting' => rpc' \in {"wait", "woken"}
      <4>1. CASE ReaderPast
        BY <4>1 DEF ReaderPast
      <4>2. CASE ~ReaderPast
        BY <2>1, <4>2 DEF ReaderTop, ReaderCallbackDone, ReaderOpened, ReaderExit, ReaderAgain
      <4> QED BY <4>1, <4>2
    <3> QED BY <3>1, <3>2
  <2>2. CASE ReaderReady \/ ReaderClosed
    BY <2>2 DEF ReaderReady, ReaderClosed
  <2>3. CASE ReaderTake \/ ReaderSend \/ ReaderSent
    BY <2>3 DEF ReaderTake, ReaderSend, ReaderSent
  <2> QED BY <1>3, <2>1, <2>2, <2>3 DEF ReaderStep
<1>4. CASE UNCHANGED obVars
  BY <1>1, <1>4 DEF obVars
<1>5. CASE PlayerStep /\ ~UNCHANGED obVars
  <2>1. CASE \/ TimeZero \/ CloseDevice \/ PlayerReset \/ InstallCallback \/ SeekReset
             \/ SeekTime \/ FlushSleeps \/ WaitSleeps \/ TimeZeroAfter
    BY <1>1, <2>1 DEF TimeZero, CloseDevice, PlayerReset, InstallCallback, SeekReset, SeekTime,
       FlushSleeps, WaitSleeps, TimeZeroAfter, TimeSet, Reset, SetCallback, PutSleep,
       WaitSleep, reader
  <2>2. CASE PlayerStop \/ SeekStop \/ FlushWrites
    <3>1. UNCHANGED <<chunk, waiting>> /\ rpc' = Signalled
      BY <2>2 DEF PlayerStop, SeekStop, FlushWrites, StopCall, PutSome
    <3> QED BY <1>2, <3>1
  <2> QED BY <1>5, <2>1, <2>2
          DEF PlayerStep, PickSong, ClearSkips, Advance, EndPlaying, JoinPrecache,
          PrecachedOpen, PrecachedReady, NewDecoder, StartPlaying, Decode, CheckRoom,
          CheckHeld, StartPrecache, WaitRequest, TakeRequest, PlayerStopped, PlayerSeek,
          PlayerSeekFails, SeekStopped, StartFlush, Flushed, CheckParams, ParamsWaited,
          ParamsOpen, CheckFinished, DeleteDecoder, LastWaited, StopReturn, WaitReturn
<1>6. CASE PrecacheRuns
  BY <1>4, <1>6 DEF PrecacheRuns
<1>7. CASE ReaderMoves
  BY <1>3, <1>4, <1>7 DEF ReaderMoves, ReaderRuns, CallbackNotifies, CallbackReturns,
     ReaderCloses, ReaderReopens, ReaderStep
<1>8. CASE CommandHandled \/ ServerInCall
  <2>1. CASE CmdPause
    BY <1>1, <2>1 DEF CmdPause, Pause, reader
  <2>2. CASE CmdUnpause
    BY <1>2, <2>2 DEF CmdUnpause, Unpause
  <2> QED BY <1>4, <1>8, <2>1, <2>2
          DEF CommandHandled, ServerInCall, CmdStop, CmdPlay, CmdSkip, CmdSeek, PostStop,
          JoinPlayer, StartPlayer, SetState, PostSeek
<1> QED BY <1>5, <1>4, <1>6, <1>7, <1>8 DEF Next

LEMMA ServerHoldsKept ==
  ASSUME TypeOK, ServerHolds, Next
  PROVE  ServerHolds'
<1> USE DEF ServerHolds
<1>1. CASE PlayerStep
  <2>1. UNCHANGED <<running, spc>>
    BY <1>1 DEF PlayerStep, server, PickSong, ClearSkips, TimeZero, Advance, EndPlaying,
       CloseDevice, PlayerReset, JoinPrecache, PrecachedOpen, PrecachedReady, NewDecoder,
       StartPlaying, InstallCallback, Decode, CheckRoom, CheckHeld, StartPrecache,
       WaitRequest, TakeRequest, PlayerStop, PlayerStopped, PlayerSeek, PlayerSeekFails,
       SeekStop, SeekStopped, SeekReset, SeekTime, StartFlush, FlushWrites, Flushed,
       CheckParams, FlushSleeps, WaitSleeps, ParamsWaited, ParamsOpen, CheckFinished,
       DeleteDecoder,
       LastWaited, TimeZeroAfter
  <2> QED BY <1>1, <2>1, PlayerPlacesAre
<1>2. CASE PrecacheRuns
  BY <1>2 DEF PrecacheRuns, server
<1>3. CASE ReaderMoves
  <2>1. UNCHANGED <<running, spc>> /\ ppc' \in {ppc, Awake}
    BY <1>3 DEF ReaderMoves, ReaderRuns, CallbackNotifies, CallbackReturns, ReaderCloses,
       ReaderReopens, server
  <2> QED BY <2>1 DEF Awake
<1>4. CASE CommandHandled
  <2>1. UNCHANGED <<running, ppc>> /\ (spc' = "start" => ~running)
    BY <1>4 DEF CommandHandled, CmdStop, CmdPause, CmdUnpause, CmdPlay, CmdSkip, CmdSeek,
       Command
  <2> QED BY <2>1
<1>5. CASE ServerInCall
  <2>1. CASE PostStop \/ PostSeek
    <3>1. running' = running /\ ppc' = Awake /\ spc' # "start"
      BY <2>1 DEF PostStop, PostSeek
    <3> QED BY <3>1 DEF Awake
  <2>2. CASE JoinPlayer
    BY <2>2 DEF JoinPlayer
  <2>3. CASE StartPlayer
    BY <2>3 DEF StartPlayer
  <2>4. CASE SetState
    BY <2>4 DEF SetState
  <2> QED BY <1>5, <2>1, <2>2, <2>3, <2>4 DEF ServerInCall
<1> QED BY <1>1, <1>2, <1>3, <1>4, <1>5 DEF Next

LEMMA PrecacheHoldsKept ==
  ASSUME TypeOK, PrecacheHolds, Next
  PROVE  PrecacheHolds'
<1> USE DEF PrecacheHolds
<1>0. Fresh(NoDecoder)
  BY DEF Fresh, NoDecoder
<1>1. CASE JoinPrecache
  BY <1>0, <1>1 DEF JoinPrecache
<1>2. CASE StartPrecache
  <2>1. CASE nextFile # 0 /\ ~precaching /\ precache.song = 0
    <3>1. cpc' = "run" /\ precache' = [NoDecoder EXCEPT !.song = nextFile]
      BY <1>2, <2>1 DEF StartPrecache
    <3>2. precache'.song = nextFile /\ Fresh(precache')
      BY <3>1 DEF NoDecoder, Fresh
    <3> QED BY <2>1, <3>1, <3>2
  <2>2. CASE UNCHANGED <<precache, cpc>>
    BY <2>2
  <2> QED BY <1>2, <2>1, <2>2 DEF StartPrecache, pre
<1>3. CASE PrecacheRuns
  <2>1. precache.song \in Songs /\ cpc' = "done" /\ precache' = Precached(precache.song)
    BY <1>3, DecoderFields DEF PrecacheRuns, TypeOK, PrecacheTypes
  <2> QED BY <2>1, PrecachedIs
<1>4. CASE UNCHANGED pre
  BY <1>4 DEF pre
<1>5. CASE PlayerStep /\ ~JoinPrecache /\ ~StartPrecache
  <2>1. UNCHANGED pre
    BY <1>5 DEF PlayerStep, PickSong, ClearSkips, TimeZero, Advance, EndPlaying,
       CloseDevice, PlayerReset, PrecachedOpen, PrecachedReady, NewDecoder, StartPlaying,
       InstallCallback, Decode, CheckRoom, CheckHeld, WaitRequest, TakeRequest, PlayerStop,
       PlayerStopped, PlayerSeek, PlayerSeekFails, SeekStop, SeekStopped, SeekReset,
       SeekTime, StartFlush, FlushWrites, Flushed, CheckParams, FlushSleeps, WaitSleeps,
       ParamsWaited,
       ParamsOpen, CheckFinished, DeleteDecoder, LastWaited, TimeZeroAfter
  <2> QED BY <1>4, <2>1
<1>6. CASE ReaderMoves
  BY <1>4, <1>6 DEF ReaderMoves, ReaderRuns, CallbackNotifies, CallbackReturns, ReaderCloses,
     ReaderReopens
<1>7. CASE CommandHandled \/ ServerInCall
  BY <1>4, <1>7 DEF CommandHandled, ServerInCall, CmdStop, CmdPause, CmdUnpause, CmdPlay,
     CmdSkip, CmdSeek, PostStop, JoinPlayer, StartPlayer, SetState, PostSeek
<1> QED BY <1>1, <1>2, <1>3, <1>5, <1>6, <1>7 DEF Next

(* A step of another thread leaves the playing thread where it was, or     *)
(* wakes it, or starts or joins it.                                        *)
LEMMA OthersMovePlayer ==
  ASSUME ServerHolds, Next, ~PlayerStep
  PROVE  /\ UNCHANGED locals
         /\ \/ ppc' = ppc
            \/ ppc = "asleep" /\ ppc' = "request"
            \/ ppc = "ended" /\ ppc' = "none"
            \/ ppc = "none" /\ ppc' = "pick"
<1>1. CASE PrecacheRuns
  BY <1>1 DEF PrecacheRuns
<1>2. CASE ReaderMoves
  <2>1. UNCHANGED locals /\ ppc' \in {ppc, Awake}
    BY <1>2 DEF ReaderMoves, ReaderRuns, CallbackNotifies, CallbackReturns, ReaderCloses,
       ReaderReopens
  <2> QED BY <2>1 DEF Awake
<1>3. CASE CommandHandled
  BY <1>3 DEF CommandHandled, CmdStop, CmdPause, CmdUnpause, CmdPlay, CmdSkip, CmdSeek
<1>4. CASE ServerInCall
  <2>1. UNCHANGED locals
    BY <1>4 DEF ServerInCall, PostStop, JoinPlayer, StartPlayer, SetState, PostSeek
  <2>2. CASE PostStop \/ PostSeek
    <3>1. ppc' = Awake
      BY <2>2 DEF PostStop, PostSeek
    <3> QED BY <2>1, <3>1 DEF Awake
  <2>3. CASE JoinPlayer \/ SetState
    BY <2>1, <2>3 DEF JoinPlayer, SetState
  <2>4. CASE StartPlayer
    BY <2>1, <2>4 DEF StartPlayer, ServerHolds
  <2> QED BY <1>4, <2>2, <2>3, <2>4 DEF ServerInCall
<1> QED BY <1>1, <1>2, <1>3, <1>4 DEF Next

LEMMA ChoosingDecoder ==
  ASSUME TypeOK, PrecacheHolds, DecoderHolds,
         \/ PickSong \/ ClearSkips \/ TimeZero \/ Advance \/ EndPlaying \/ CloseDevice
         \/ PlayerReset \/ JoinPrecache \/ PrecachedOpen \/ PrecachedReady \/ NewDecoder
         \/ StartPlaying \/ InstallCallback
  PROVE  DecoderHolds'
<1> USE DEF DecoderHolds, SoundPlaces, LoopPlaces, SeekPlaces, PlayerGoes, locals
<1>1. CASE PickSong
  BY <1>1 DEF PickSong
<1>2. CASE ClearSkips \/ TimeZero \/ Advance \/ EndPlaying \/ CloseDevice
  BY <1>2 DEF ClearSkips, TimeZero, Advance, EndPlaying, CloseDevice
<1>3. CASE PlayerReset
  BY <1>3 DEF PlayerReset
<1>4. CASE JoinPrecache
  <2>1. /\ file # 0 /\ file' = file /\ pending' = <<>> /\ LongSongs' = LongSongs
        /\ \/ ppc' = "new"
           \/ ppc' = "preopen" /\ dec' = precache /\ precache.song = file
    BY <1>4 DEF JoinPrecache, UsePrecached, LongSongs
  <2> QED BY <2>1 DEF PrecacheHolds, Fresh
<1>5. CASE PrecachedOpen
  <2>1. dec \in Decoders
    BY DEF TypeOK, PlayerTypes
  <2>2. CASE ppc' = "after"
    <3>1. pending' = pending /\ pending = <<>>
      BY <1>5, <2>2 DEF PrecachedOpen
    <3> QED BY <2>2, <3>1
  <2>3. CASE ppc' = "preflush"
    <3>1. ppc = "preopen" /\ dec' = [dec EXCEPT !.fill = 0] /\ LongSongs' = LongSongs
      BY <1>5, <2>3 DEF PrecachedOpen, LongSongs
    <3>2. dec'.song = dec.song /\ dec'.dpos = dec.dpos /\ dec'.done = dec.done
      BY <2>1, <3>1, DecoderChanges
    <3> QED BY <2>3, <3>1, <3>2
  <2> QED BY <1>5, <2>2, <2>3 DEF PrecachedOpen
<1>6. CASE PrecachedReady \/ StartPlaying \/ InstallCallback
  BY <1>6 DEF PrecachedReady, StartPlaying, InstallCallback
<1>7. CASE NewDecoder
  <2>1. /\ file # 0 /\ file' = file /\ pending' = <<>>
        /\ ppc' = "after" \/ (ppc' = "start" /\ dec' = Opened(file))
    BY <1>7 DEF NewDecoder
  <2> QED BY <2>1 DEF Opened
<1> QED BY <1>1, <1>2, <1>3, <1>4, <1>5, <1>6, <1>7

LEMMA LoopDecoder ==
  ASSUME TypeOK, DecoderHolds,
         \/ Decode \/ CheckRoom \/ CheckHeld \/ StartPrecache \/ WaitRequest \/ TakeRequest
         \/ PlayerStop \/ PlayerStopped \/ PlayerSeek \/ PlayerSeekFails \/ SeekStop
         \/ SeekStopped \/ SeekReset \/ SeekTime \/ StartFlush \/ FlushWrites \/ Flushed
         \/ CheckParams \/ FlushSleeps \/ WaitSleeps \/ ParamsWaited \/ ParamsOpen
         \/ CheckFinished
         \/ DeleteDecoder \/ LastWaited \/ TimeZeroAfter
  PROVE  DecoderHolds'
<1> USE DEF DecoderHolds, SoundPlaces, LoopPlaces, SeekPlaces, PlayerGoes, locals
<1>0. dec \in Decoders /\ request \in {"nothing", "stop", "seek"} /\ reqSeek \in Nat
  BY DEF TypeOK, PlayerTypes, ServerTypes
<1>1. CASE Decode
  <2>1. /\ ppc = "decode" /\ ppc' = "room" /\ dec' = Decoded(dec) /\ pending' = pending
    BY <1>1 DEF Decode
  <2>2. dec'.song = dec.song
    BY <1>0, <2>1, DecodedIs
  <2> QED BY <2>1, <2>2
<1>2. CASE CheckRoom \/ CheckHeld \/ StartPrecache \/ WaitRequest
  BY <1>2 DEF CheckRoom, CheckHeld, StartPrecache, WaitRequest
<1>3. CASE TakeRequest
  BY <1>0, <1>3 DEF TakeRequest
<1>4. CASE PlayerStop \/ PlayerStopped
  BY <1>4 DEF PlayerStop, PlayerStopped
<1>5. CASE PlayerSeek
  <2>1. ppc' = "seekstop" /\ dec.song # 0 /\ pending' = <<>>
    BY <1>5 DEF PlayerSeek
  <2>2. dec'.song = dec.song /\ seekPos' \in Nat /\ (stopped' \/ dec'.dpos = seekPos')
    <3>1. CASE SeekInside
      BY <1>0, <3>1, AfterSeekIs DEF SeekInside
    <3>2. CASE SeekToEnd
      <4>1. dec' = [dec EXCEPT !.done = TRUE] /\ seekPos' = Len(Song[dec.song]) /\ stopped'
        BY <3>2 DEF SeekToEnd
      <4>2. dec'.song = dec.song
        BY <1>0, <4>1, DecoderChanges
      <4>3. seekPos' \in Nat
        BY <1>0, <2>1, <4>1, DecoderFields, SongsAre
      <4> QED BY <4>1, <4>2, <4>3
    <3>3. SeekInside \/ SeekToEnd
      BY <1>5 DEF PlayerSeek
    <3> QED BY <3>1, <3>2, <3>3
  <2> QED BY <2>1, <2>2
<1>6. CASE PlayerSeekFails \/ SeekStop \/ SeekStopped \/ SeekReset
  BY <1>6 DEF PlayerSeekFails, SeekStop, SeekStopped, SeekReset
<1>7. CASE SeekTime
  <2>1. /\ ppc = "seektime" /\ ppc' \in {"delete", "flush"} /\ pending' = pending
        /\ dec' = [dec EXCEPT !.fill = 0]
    BY <1>7 DEF SeekTime, PcmAfterSeek
  <2>2. dec'.song = dec.song
    BY <1>0, <2>1, DecoderChanges
  <2> QED BY <2>1, <2>2
<1>8. CASE StartFlush
  <2>1. /\ ppc = "flush" /\ ppc' \in {"put", "params"} /\ (ppc' = "params" => pending' = pending)
        /\ dec' \in {dec, [dec EXCEPT !.fill = 0]}
    BY <1>8 DEF StartFlush
  <2>2. dec'.song = dec.song
    BY <1>0, <2>1, DecoderChanges
  <2> QED BY <2>1, <2>2
<1>9. CASE FlushWrites
  <2>1. /\ ppc \in {"put", "preflush"} /\ UNCHANGED <<ppc, dec>> /\ LongSongs' = LongSongs
    BY <1>9 DEF FlushWrites, LongSongs
  <2> QED BY <2>1
<1>10. CASE \/ Flushed \/ FlushSleeps \/ WaitSleeps \/ ParamsWaited \/ ParamsOpen
            \/ CheckFinished
  BY <1>10 DEF Flushed, FlushSleeps, WaitSleeps, ParamsWaited, ParamsOpen, CheckFinished
<1>11. CASE CheckParams
  <2>1. /\ ppc = "params" /\ ppc' \in {"paramswait", "finished"} /\ pending' = pending
        /\ dec' \in {dec, [dec EXCEPT !.changed = FALSE]}
    BY <1>11 DEF CheckParams
  <2>2. dec'.song = dec.song
    BY <1>0, <2>1, DecoderChanges
  <2> QED BY <2>1, <2>2
<1>12. CASE DeleteDecoder \/ LastWaited \/ TimeZeroAfter
  BY <1>12 DEF DeleteDecoder, LastWaited, TimeZeroAfter
<1> QED BY <1>1, <1>2, <1>3, <1>4, <1>5, <1>6, <1>7, <1>8, <1>9, <1>10, <1>11, <1>12

LEMMA DecoderHoldsKept ==
  ASSUME TypeOK, ServerHolds, PrecacheHolds, DecoderHolds, Next
  PROVE  DecoderHolds'
<1>1. CASE PlayerStep
  BY <1>1, ChoosingDecoder, LoopDecoder DEF PlayerStep
<1>2. CASE ~PlayerStep
  <2>1. /\ UNCHANGED <<file, dec, stopped, seekPos, pending>> /\ LongSongs' = LongSongs
        /\ \/ ppc' = ppc
           \/ ppc = "asleep" /\ ppc' = "request"
           \/ ppc = "ended" /\ ppc' = "none"
           \/ ppc = "none" /\ ppc' = "pick"
    BY <1>2, OthersMovePlayer DEF locals, LongSongs
  <2> QED BY <2>1 DEF DecoderHolds, SoundPlaces, LoopPlaces, SeekPlaces
<1> QED BY <1>1, <1>2

LEMMA InitThreads == Init => Threads
BY DEF Init, OutBufInit, Threads, ReaderHolds, ServerHolds, PrecacheHolds, DecoderHolds,
       Fresh, NoDecoder, SoundPlaces, LoopPlaces, SeekPlaces

LEMMA ThreadsKept ==
  ASSUME TypeOK, Threads, [Next]_vars
  PROVE  TypeOK' /\ Threads'
<1>1. CASE Next
  BY <1>1, TypesKept, ReaderHoldsKept, ServerHoldsKept, PrecacheHoldsKept, DecoderHoldsKept
     DEF Threads
<1>2. CASE UNCHANGED vars
  <2> USE <1>2 DEF vars
  <2>1. OutBufTypes'
    BY BufferUnmoved DEF TypeOK
  <2>2. PlayerTypes' /\ PrecacheTypes' /\ ServerTypes'
    BY DEF TypeOK, PlayerTypes, PrecacheTypes, ServerTypes, plist, requests, locals, pre,
           device, server
  <2>3. ReaderHolds' /\ ServerHolds'
    BY DEF Threads, ReaderHolds, ServerHolds, obVars, server
  <2>4. PrecacheHolds' /\ DecoderHolds'
    BY DEF Threads, PrecacheHolds, DecoderHolds, Fresh, LongSongs, locals, pre
  <2> QED BY <2>1, <2>2, <2>3, <2>4 DEF TypeOK, Threads
<1> QED BY <1>1, <1>2

LEMMA ThreadsHold == Spec => [](TypeOK /\ Threads)
BY InitTypes, InitThreads, ThreadsKept, PTL DEF Spec

(* Every variable of the engine keeps its type, the buffer its size and    *)
(* the decoders theirs (out_buf.cc:6-36, player.cc:33-84, audio.cc:34-78). *)
THEOREM TypeCorrect == Spec => []TypeOK
BY ThreadsHold, PTL

-----------------------------------------------------------------------------
(* What is in the buffer between songs and around a stop                   *)

(* The reader takes only from a buffer that is not stopped, and wakes the  *)
(* sleepers when it holds nothing.                                         *)
LEMMA ReaderLeaves ==
  ASSUME OutBufTypes, ReaderHolds, ReaderStep
  PROVE  /\ stop' = stop
         /\ buf = <<>> => buf' = <<>>
         /\ chunk = <<>> => time' = time /\ (chunk' = <<>> \/ (buf # <<>> /\ ~stop))
         /\ sleepers' = sleepers \/ chunk' = <<>>
<1> USE DEF flags, ReaderHolds
<1>0. Len(<<>>) = 0 /\ time \in Nat
  BY EmptySeq DEF OutBufTypes
<1>1. CASE ReaderTop
  BY <1>1 DEF ReaderTop, KeptAtTop
<1>2. CASE \/ ReaderCallbackDone \/ ReaderClosed \/ ReaderPast \/ ReaderOpened \/ ReaderExit
           \/ ReaderAgain
  BY <1>2 DEF ReaderCallbackDone, ReaderClosed, ReaderPast, ReaderOpened, ReaderExit, ReaderAgain
<1>3. CASE ReaderReady
  BY <1>3 DEF ReaderReady
<1>4. CASE ReaderTake
  BY <1>4 DEF ReaderTake, MayTake
<1>5. CASE ReaderSend
  BY <1>5 DEF ReaderSend
<1>6. CASE ReaderSent
  <2>1. chunk = <<>> => time' = time
    BY <1>0, <1>6 DEF ReaderSent, SentTime
  <2> QED BY <1>6, <2>1 DEF ReaderSent
<1> QED BY <1>1, <1>2, <1>3, <1>4, <1>5, <1>6 DEF ReaderStep

LEMMA OthersUnmoved ==
  ASSUME Next, ~PlayerStep, ~ReaderStep
  PROVE  UNCHANGED <<stop, buf, chunk, time, sleepers>>
<1>1. UNCHANGED obVars \/ CmdPause \/ CmdUnpause
  <2>1. CASE PrecacheRuns
    BY <2>1 DEF PrecacheRuns
  <2>2. CASE ReaderMoves
    BY <2>2 DEF ReaderMoves, ReaderRuns, CallbackNotifies, CallbackReturns,
       ReaderCloses, ReaderReopens, ReaderStep
  <2>3. CASE CommandHandled \/ ServerInCall
    BY <2>3 DEF CommandHandled, ServerInCall, CmdStop, CmdPlay, CmdSkip, CmdSeek, PostStop,
       JoinPlayer, StartPlayer, SetState, PostSeek
  <2> QED BY <2>1, <2>2, <2>3 DEF Next
<1> QED BY <1>1 DEF obVars, reader, CmdPause, CmdUnpause, Pause, Unpause

LEMMA OthersLeave ==
  ASSUME TypeOK, Threads, Next, ~PlayerStep
  PROVE  /\ stop' = stop
         /\ buf = <<>> => buf' = <<>>
         /\ chunk = <<>> => time' = time /\ (chunk' = <<>> \/ (buf # <<>> /\ ~stop))
         /\ sleepers' = sleepers \/ chunk' = <<>>
<1>1. CASE ReaderStep
  BY <1>1, ReaderLeaves DEF TypeOK, Threads
<1>2. CASE ~ReaderStep
  BY <1>2, OthersUnmoved
<1> QED BY <1>1, <1>2

LEMMA OthersKeepBuffer ==
  ASSUME TypeOK, Threads, BufferHolds, Next, ~PlayerStep
  PROVE  BufferHolds'
<1>1. /\ stop' = stop
      /\ buf = <<>> => buf' = <<>>
      /\ chunk = <<>> => time' = time /\ (chunk' = <<>> \/ (buf # <<>> /\ ~stop))
      /\ sleepers' = sleepers \/ chunk' = <<>>
  BY OthersLeave
<1>2. \/ ppc' = ppc
      \/ ppc = "asleep" /\ ppc' = "request"
      \/ ppc = "ended" /\ ppc' = "none"
      \/ ppc = "none" /\ ppc' = "pick"
  BY OthersMovePlayer DEF Threads
<1>6. stopped' = stopped
  BY OthersMovePlayer DEF Threads, locals
<1>3. Quiet => Quiet' /\ time' = time
  BY <1>1 DEF Quiet
<1>4. Silent => Silent' /\ time' = time
  BY <1>1 DEF Silent
<1>5. stop /\ chunk = <<>> => chunk' = <<>>
  BY <1>1
<1> QED BY <1>1, <1>2, <1>3, <1>4, <1>5, <1>6 DEF BufferHolds, BetweenSongs

LEMMA ChoosingBuffer ==
  ASSUME TypeOK, Threads, BufferHolds, SoundHolds, LongSongs,
         \/ PickSong \/ ClearSkips \/ TimeZero \/ Advance \/ EndPlaying \/ CloseDevice
         \/ PlayerReset \/ JoinPrecache \/ PrecachedOpen \/ PrecachedReady \/ NewDecoder
         \/ StartPlaying \/ InstallCallback
  PROVE  BufferHolds'
<1> USE DEF BufferHolds, BetweenSongs, Quiet, Silent, PlayerGoes, obVars
<1>1. CASE PickSong \/ ClearSkips
  BY <1>1 DEF PickSong, ClearSkips
<1>2. CASE TimeZero
  BY <1>2 DEF TimeZero, TimeSet, flags, reader
<1>3. CASE Advance
  BY <1>3 DEF Advance
<1>4. CASE EndPlaying
  BY <1>4 DEF EndPlaying
<1>5. CASE CloseDevice
  BY <1>5 DEF CloseDevice, flags, reader
<1>6. CASE PlayerReset
  BY <1>6 DEF PlayerReset, Reset, KeptByReset, reader
<1>7. CASE JoinPrecache
  BY <1>7 DEF JoinPrecache
<1>8. CASE PrecachedOpen
  BY <1>8 DEF PrecachedOpen
<1>9. CASE PrecachedReady
  <2>1. CASE ppc' = "start"
    BY <1>9, <2>1 DEF PrecachedReady
  <2>2. CASE ppc' = "after"
    <3>1. ppc = "preflush" /\ dec.done /\ dec.fill = 0 /\ UNCHANGED <<buf, chunk, stop, sleepers>>
      BY <1>9, <2>2 DEF PrecachedReady, NothingDecoded
    <3>2. dec.dpos = 0
      BY <3>1 DEF Threads, DecoderHolds
    <3>3. time + Len(chunk) + Len(buf) + Len(pending) + dec.fill = dec.dpos
      BY <3>1 DEF SoundHolds, SoundPlaces, InPlace
    <3>4. /\ buf \in Seq(Unit) /\ chunk \in Seq(Unit) /\ time \in Nat
          /\ Len(buf) \in Nat /\ Len(chunk) \in Nat /\ Len(pending) \in Nat
      BY LenProperties DEF TypeOK, OutBufTypes, PlayerTypes
    <3>5. Len(buf) = 0 /\ Len(chunk) = 0
      BY <3>1, <3>2, <3>3, <3>4
    <3>6. buf = <<>> /\ chunk = <<>>
      BY <3>4, <3>5, EmptySeq
    <3> QED BY <2>2, <3>1, <3>6
  <2> QED BY <1>9, <2>1, <2>2 DEF PrecachedReady
<1>10. CASE NewDecoder
  BY <1>10 DEF NewDecoder
<1>11. CASE StartPlaying
  BY <1>11 DEF StartPlaying
<1>12. CASE InstallCallback
  BY <1>12 DEF InstallCallback, SetCallback, reader
<1> QED
  BY <1>1, <1>2, <1>3, <1>4, <1>5, <1>6, <1>7, <1>8, <1>9, <1>10, <1>11, <1>12

LEMMA LoopBuffer ==
  ASSUME TypeOK, Threads, BufferHolds,
         \/ Decode \/ CheckRoom \/ CheckHeld \/ StartPrecache \/ WaitRequest \/ TakeRequest
         \/ PlayerStop \/ PlayerStopped \/ PlayerSeek \/ PlayerSeekFails \/ SeekStop
         \/ SeekStopped \/ SeekReset \/ SeekTime \/ StartFlush \/ FlushWrites \/ Flushed
         \/ CheckParams \/ FlushSleeps \/ WaitSleeps \/ ParamsWaited \/ ParamsOpen
         \/ CheckFinished
         \/ DeleteDecoder \/ LastWaited \/ TimeZeroAfter
  PROVE  BufferHolds'
<1> USE DEF BufferHolds, BetweenSongs, Quiet, Silent, PlayerGoes, obVars
<1>0. request \in {"nothing", "stop", "seek"}
  BY DEF TypeOK, ServerTypes
<1>1. CASE Decode \/ CheckRoom \/ CheckHeld \/ StartPrecache \/ WaitRequest
  BY <1>1 DEF Decode, CheckRoom, CheckHeld, StartPrecache, WaitRequest
<1>2. CASE TakeRequest
  BY <1>0, <1>2 DEF TakeRequest
<1>3. CASE PlayerStop
  BY <1>3 DEF PlayerStop, StopCall, Sleep
<1>4. CASE PlayerStopped
  BY <1>4 DEF PlayerStopped, StopReturn, Threads, DecoderHolds, locals
<1>5. CASE PlayerSeek \/ PlayerSeekFails
  BY <1>5 DEF PlayerSeek, PlayerSeekFails
<1>6. CASE SeekStop
  BY <1>6 DEF SeekStop, StopCall, Sleep
<1>7. CASE SeekStopped
  BY <1>7 DEF SeekStopped, StopReturn, Woken
<1>8. CASE SeekReset
  BY <1>8 DEF SeekReset, Reset, KeptByReset, reader
<1>9. CASE SeekTime
  BY <1>9 DEF SeekTime, TimeSet, flags, reader
<1>10. CASE StartFlush \/ Flushed
  BY <1>10 DEF StartFlush, Flushed
<1>11. CASE FlushWrites
  BY <1>11 DEF FlushWrites, PutSome, flags
<1>12. CASE CheckParams
  BY <1>12 DEF CheckParams
<1>13. CASE FlushSleeps \/ WaitSleeps
  BY <1>13 DEF FlushSleeps, WaitSleeps, PutSleep, WaitSleep, flags, reader
<1>14. CASE ParamsWaited
  BY <1>14 DEF ParamsWaited, WaitReturn
<1>15. CASE ParamsOpen
  BY <1>15 DEF ParamsOpen
<1>16. CASE CheckFinished
  BY <1>16 DEF CheckFinished, PlayedEverything
<1>17. CASE DeleteDecoder
  BY <1>17 DEF DeleteDecoder
<1>18. CASE LastWaited
  BY <1>18 DEF LastWaited, WaitReturn, ReaderIdle, Threads, ReaderHolds
<1>19. CASE TimeZeroAfter
  BY <1>19 DEF TimeZeroAfter, TimeSet, flags, reader
<1> QED
  BY <1>1, <1>2, <1>3, <1>4, <1>5, <1>6, <1>7, <1>8, <1>9, <1>10, <1>11, <1>12, <1>13,
     <1>14, <1>15, <1>16, <1>17, <1>18, <1>19

LEMMA BufferHoldsKept ==
  ASSUME TypeOK, Threads, BufferHolds, SoundHolds, LongSongs, Next
  PROVE  BufferHolds'
BY OthersKeepBuffer, ChoosingBuffer, LoopBuffer DEF PlayerStep

-----------------------------------------------------------------------------
(* The sound on its way                                                    *)

(* What the reader has is still in place after its steps.                  *)
LEMMA TakeKeepsPlace ==
  ASSUME TypeOK, Threads, InPlace, ReaderTake, UNCHANGED <<dec, stream, pending>>
  PROVE  InPlace'
<1> DEFINE k == Least(Chunk, Len(buf))
<1>1. /\ chunk = <<>> /\ chunk' = SubSeq(buf, 1, k) /\ buf' = SubSeq(buf, k + 1, Len(buf))
      /\ time' = time
  BY DEF ReaderTake, Rest, Threads, ReaderHolds
<1>2. /\ k \in 0..Len(buf) /\ Len(chunk') = k /\ Len(buf') = Len(buf) - k
  BY <1>1, TakenIs DEF Rest, TypeOK
<1>3. /\ buf \in Seq(Unit) /\ Len(buf) \in Nat /\ time \in Nat /\ Len(pending) \in Nat
      /\ Len(chunk) = 0 /\ dec.dpos \in Nat /\ dec.fill \in Nat
  BY <1>1, EmptySeq, LenProperties, DecoderFields DEF TypeOK, OutBufTypes, PlayerTypes
<1> HIDE DEF k
<1>4. IsPiece(buf, stream, dec.song, time)
  BY <1>3 DEF InPlace
<1>5. /\ IsPiece(SubSeq(buf, 1, k), stream, dec.song, time)
      /\ IsPiece(SubSeq(buf, k + 1, Len(buf)), stream, dec.song, time + k)
  BY <1>2, <1>3, <1>4, PieceSplits
<1>6. IsPiece(chunk', stream, dec.song, time) /\ IsPiece(buf', stream, dec.song, time + k)
  BY <1>1, <1>5
<1>7. time + k + (Len(buf) - k) = time + Len(chunk) + Len(buf)
  BY <1>2, <1>3
<1>8. IsPiece(pending, stream, dec.song, time + k + (Len(buf) - k))
  BY <1>7 DEF InPlace
<1> QED BY <1>1, <1>2, <1>3, <1>6, <1>7, <1>8 DEF InPlace

LEMMA ReaderKeepsPlace ==
  ASSUME TypeOK, Threads, InPlace, ~stop, ReaderStep, UNCHANGED <<dec, stream, pending>>
  PROVE  InPlace'
<1>1. CASE ReaderTake
  BY <1>1, TakeKeepsPlace
<1>2. CASE ReaderSent
  <2>1. chunk' = <<>> /\ buf' = buf /\ time' = time + Len(chunk)
    BY <1>2 DEF ReaderSent, SentTime
  <2>2. /\ time \in Nat /\ Len(chunk) \in Nat /\ Len(buf) \in Nat /\ Len(pending) \in Nat
        /\ dec.dpos \in Nat /\ dec.fill \in Nat /\ Len(<<>>) = 0
    BY EmptySeq, LenProperties, DecoderFields DEF TypeOK, OutBufTypes, PlayerTypes
  <2>3. time' + Len(chunk') = time + Len(chunk)
    BY <2>1, <2>2
  <2>4. IsPiece(chunk', stream, dec.song, time')
    BY <2>1, NoPiece
  <2> QED BY <2>1, <2>3, <2>4 DEF InPlace
<1>3. CASE ReaderStep /\ ~ReaderTake /\ ~ReaderSent
  <2>1. UNCHANGED <<chunk, buf, time>>
    <3>1. CASE ReaderTop
      BY <3>1 DEF ReaderTop, KeptAtTop
    <3>2. CASE ~ReaderTop
      BY <1>3, <3>2 DEF ReaderStep, ReaderCallbackDone, ReaderReady, ReaderClosed, ReaderPast,
         ReaderOpened, ReaderExit, ReaderAgain, ReaderSend
    <3> QED BY <3>1, <3>2
  <2> QED BY <2>1 DEF InPlace
<1> QED BY <1>1, <1>2, <1>3

LEMMA OthersKeepSound ==
  ASSUME TypeOK, Threads, BufferHolds, SoundHolds, Next, ~PlayerStep
  PROVE  SoundHolds'
<1>1. /\ UNCHANGED <<dec, stream, pending, stopped>>
      /\ \/ ppc' = ppc
         \/ ppc = "asleep" /\ ppc' = "request"
         \/ ppc = "ended" /\ ppc' = "none"
         \/ ppc = "none" /\ ppc' = "pick"
  BY OthersMovePlayer DEF Threads, locals
<1>2. SUFFICES ASSUME ppc' \in SoundPlaces \/ (ppc' = "delete" /\ ~stopped')
               PROVE  InPlace'
  BY DEF SoundHolds
<1>3. ppc \in SoundPlaces \/ (ppc = "delete" /\ ~stopped)
  BY <1>1, <1>2 DEF SoundPlaces, LoopPlaces
<1>4. InPlace /\ ~stop
  BY <1>3 DEF SoundHolds, BufferHolds, SoundPlaces, LoopPlaces, BetweenSongs
<1>5. CASE ReaderStep
  BY <1>1, <1>4, <1>5, ReaderKeepsPlace
<1>6. CASE ~ReaderStep
  <2>1. UNCHANGED <<chunk, buf, time>>
    BY <1>6, OthersUnmoved
  <2> QED BY <1>1, <1>4, <2>1 DEF InPlace
<1> QED BY <1>5, <1>6

(* A song begins with nothing on its way.                                  *)
LEMMA SilenceIsInPlace ==
  ASSUME chunk = <<>>, buf = <<>>, pending = <<>>, time \in Nat, dec \in Decoders,
         time + dec.fill = dec.dpos
  PROVE  InPlace
<1>1. Len(chunk) = 0 /\ Len(buf) = 0 /\ Len(pending) = 0
  BY EmptySeq
<1>2. time + Len(chunk) + Len(buf) + Len(pending) + dec.fill = dec.dpos
  BY <1>1, DecoderFields
<1> QED BY <1>2, NoPiece DEF InPlace

(* Giving the buffer what is decoded, and some of it entering the buffer.  *)
LEMMA GivingKeepsPlace ==
  ASSUME TypeOK, InPlace, pending = <<>>, pending' = PcmUnits(dec),
         dec' = [dec EXCEPT !.fill = 0], UNCHANGED <<chunk, buf, time, stream>>
  PROVE  InPlace'
<1>1. /\ dec \in Decoders /\ dec' \in Decoders /\ dec'.song = dec.song
      /\ dec'.dpos = dec.dpos /\ dec'.fill = 0
  BY DecoderChanges DEF TypeOK, PlayerTypes
<1>2. /\ time \in Nat /\ Len(chunk) \in Nat /\ Len(buf) \in Nat /\ Len(pending) = 0
      /\ dec.dpos \in Nat /\ dec.fill \in Nat
  BY <1>1, EmptySeq, LenProperties, DecoderFields DEF TypeOK, OutBufTypes
<1>3. dec.dpos - dec.fill = time + Len(chunk) + Len(buf)
  BY <1>2 DEF InPlace
<1>4. /\ Len(pending') = dec.fill
      /\ IsPiece(pending', stream, dec.song, time + Len(chunk) + Len(buf))
  BY <1>1, <1>3, PcmUnitsAre DEF TypeOK
<1>5. time + Len(chunk) + Len(buf) + Len(pending') + dec'.fill = dec'.dpos
  BY <1>1, <1>2, <1>3, <1>4
<1> QED BY <1>1, <1>4, <1>5 DEF InPlace

LEMMA WritingKeepsPlace ==
  ASSUME TypeOK, InPlace, FlushWrites
  PROVE  InPlace'
<1> DEFINE k == Fitting(pending)  n == Len(pending)  m == Len(buf)
           from == time + Len(chunk)
<1>1. /\ buf' = buf \o SubSeq(pending, 1, k) /\ pending' = SubSeq(pending, k + 1, n)
      /\ UNCHANGED <<chunk, time, stream, dec>> /\ ~Full
  BY DEF FlushWrites, PutSome
<1>2. /\ buf \in Seq(Unit) /\ pending \in Seq(Unit) /\ m \in Nat /\ n \in Nat
      /\ time \in Nat /\ Len(chunk) \in Nat /\ from \in Nat /\ dec.dpos \in Nat /\ dec.fill \in Nat
  BY LenProperties, DecoderFields DEF TypeOK, OutBufTypes, PlayerTypes
<1>3. k \in 0..n /\ Len(buf') = m + k
  BY <1>1, <1>2, FittingIs DEF TypeOK
<1>4. /\ SubSeq(pending, 1, k) \in Seq(Unit)
      /\ Len(pending') = n - k
  BY <1>1, <1>2, <1>3, SplitSeq
<1>5. IsPiece(buf, stream, dec.song, from) /\ IsPiece(pending, stream, dec.song, from + m)
  BY DEF InPlace
<1> HIDE DEF k, n, m, from
<1>6. from + m \in Nat
  BY <1>2
<1>7. /\ IsPiece(SubSeq(pending, 1, k), stream, dec.song, from + m)
      /\ IsPiece(pending', stream, dec.song, (from + m) + k)
  BY <1>1, <1>2, <1>3, <1>5, <1>6, PieceSplits DEF n
<1>8. IsPiece(buf', stream, dec.song, from)
  BY <1>1, <1>2, <1>4, <1>5, <1>7, PiecesJoin DEF m
<1>9. (from + m) + k = from + Len(buf')
  BY <1>2, <1>3
<1>10. IsPiece(pending', stream, dec.song, from + Len(buf'))
  BY <1>7, <1>9
<1>11. from + Len(buf') + Len(pending') + dec.fill = dec.dpos
  <2>1. from + m + n + dec.fill = dec.dpos
    BY DEF InPlace, from, m, n
  <2> QED BY <1>2, <1>3, <1>4, <2>1
<1> QED BY <1>1, <1>8, <1>10, <1>11 DEF InPlace, from

(* Steps that leave the sound on its way alone.                            *)
LEMMA DecoderKeepsPlace ==
  ASSUME TypeOK, InPlace, UNCHANGED <<chunk, buf, pending, time, stream>>, dec' \in Decoders,
         dec'.song = dec.song, dec'.dpos - dec'.fill = dec.dpos - dec.fill
  PROVE  InPlace'
<1>1. /\ time \in Nat /\ Len(chunk) \in Nat /\ Len(buf) \in Nat /\ Len(pending) \in Nat
      /\ dec.dpos \in Nat /\ dec.fill \in Nat /\ dec'.dpos \in Nat /\ dec'.fill \in Nat
  BY LenProperties, DecoderFields DEF TypeOK, OutBufTypes, PlayerTypes
<1>2. time + Len(chunk) + Len(buf) + Len(pending) + dec'.fill = dec'.dpos
  <2>1. time + Len(chunk) + Len(buf) + Len(pending) + dec.fill = dec.dpos
    BY DEF InPlace
  <2> DEFINE a == Len(chunk)  b == Len(buf)  c == Len(pending)  f == dec.fill  d == dec.dpos
             f2 == dec'.fill  d2 == dec'.dpos
  <2>2. /\ a \in Nat /\ b \in Nat /\ c \in Nat /\ f \in Nat /\ d \in Nat /\ f2 \in Nat
        /\ d2 \in Nat /\ d2 - f2 = d - f /\ time + a + b + c + f = d
    BY <1>1, <2>1
  <2> HIDE DEF a, b, c, f, d, f2, d2
  <2>3. time + a + b + c + f2 = d2
    BY <1>1, <2>2
  <2> QED BY <2>3 DEF a, b, c, f2, d2
<1> QED BY <1>2 DEF InPlace

LEMMA StillInPlace ==
  ASSUME InPlace, UNCHANGED <<chunk, buf, pending, time, stream, dec>>
  PROVE  InPlace'
BY DEF InPlace

LEMMA BeginningIsInPlace ==
  ASSUME TypeOK, TypeOK', Threads, BufferHolds, JoinPrecache \/ NewDecoder
  PROVE  SoundHolds'
<1>1. SUFFICES ASSUME ppc' \in SoundPlaces \/ (ppc' = "delete" /\ ~stopped')
               PROVE  InPlace'
  BY DEF SoundHolds
<1>2. chunk' = <<>> /\ buf' = <<>> /\ pending' = <<>> /\ time' = 0
  BY DEF JoinPrecache, NewDecoder, BufferHolds, Silent, Threads, DecoderHolds, obVars, reader
<1>3. dec' \in Decoders
  BY DEF TypeOK, PlayerTypes
<1>4. dec'.fill = dec'.dpos
  <2>1. CASE JoinPrecache
    <3>1. dec' = precache
      BY <1>1, <2>1 DEF JoinPrecache, SoundPlaces, LoopPlaces
    <3> QED BY <3>1 DEF Threads, PrecacheHolds, Fresh
  <2>2. CASE NewDecoder
    <3>1. dec' = Opened(file)
      BY <1>1, <2>2 DEF NewDecoder, SoundPlaces, LoopPlaces
    <3> QED BY <3>1 DEF Opened
  <2> QED BY <2>1, <2>2
<1>5. time' \in Nat /\ time' + dec'.fill = dec'.dpos
  BY <1>2, <1>3, <1>4, DecoderFields
<1>6. Len(chunk') = 0 /\ Len(buf') = 0 /\ Len(pending') = 0
  BY <1>2, EmptySeq
<1>7. time' + Len(chunk') + Len(buf') + Len(pending') + dec'.fill = dec'.dpos
  BY <1>3, <1>5, <1>6, DecoderFields
<1> QED BY <1>2, <1>7, NoPiece DEF InPlace

LEMMA SoughtIsInPlace ==
  ASSUME TypeOK, TypeOK', Threads, BufferHolds, SeekTime, ~stopped
  PROVE  InPlace'
<1>1. /\ ppc = "seektime" /\ time' = seekPos /\ dec' = [dec EXCEPT !.fill = 0]
      /\ UNCHANGED <<chunk, buf, pending, stream>>
  BY DEF SeekTime, TimeSet, PcmAfterSeek, reader
<1>2. chunk' = <<>> /\ buf' = <<>> /\ pending' = <<>> /\ dec.dpos = seekPos
  BY <1>1 DEF BufferHolds, Silent, Threads, DecoderHolds, SeekPlaces
<1>3. dec \in Decoders /\ dec'.fill = 0 /\ dec'.dpos = dec.dpos /\ dec.dpos \in Nat
  BY <1>1, DecoderChanges, DecoderFields DEF TypeOK, PlayerTypes
<1>4. Len(chunk') = 0 /\ Len(buf') = 0 /\ Len(pending') = 0
  BY <1>2, EmptySeq
<1>5. time' + Len(chunk') + Len(buf') + Len(pending') + dec'.fill = dec'.dpos
  BY <1>1, <1>2, <1>3, <1>4
<1> QED BY <1>2, <1>5, NoPiece DEF InPlace

LEMMA PlayerKeepsSound ==
  ASSUME TypeOK, TypeOK', Threads, BufferHolds, SoundHolds, PlayerStep
  PROVE  SoundHolds'
<1>1. CASE \/ PickSong \/ ClearSkips \/ TimeZero \/ Advance \/ EndPlaying \/ CloseDevice
           \/ PlayerReset \/ DeleteDecoder \/ LastWaited \/ TimeZeroAfter \/ PlayerSeek
           \/ PlayerStop \/ PlayerStopped \/ SeekStop \/ SeekStopped \/ SeekReset
  <2>1. ppc' \notin SoundPlaces /\ (ppc' = "delete" => stopped')
    BY <1>1 DEF PickSong, ClearSkips, TimeZero, Advance, EndPlaying, CloseDevice, PlayerReset,
       DeleteDecoder, LastWaited, TimeZeroAfter, PlayerSeek, PlayerStop, PlayerStopped,
       SeekStop, SeekStopped, SeekReset, PlayerGoes, SoundPlaces, LoopPlaces, Threads,
       DecoderHolds, locals
  <2> QED BY <2>1 DEF SoundHolds
<1>2. CASE JoinPrecache \/ NewDecoder
  BY <1>2, BeginningIsInPlace
<1>3. CASE \/ PrecachedReady \/ StartPlaying \/ InstallCallback \/ CheckRoom \/ CheckHeld
           \/ StartPrecache \/ WaitRequest \/ TakeRequest \/ PlayerSeekFails \/ Flushed
           \/ FlushSleeps \/ WaitSleeps \/ ParamsWaited \/ ParamsOpen \/ CheckFinished
  <2>1. UNCHANGED <<chunk, buf, pending, time, stream, dec>> /\ ppc \in SoundPlaces \cup {"lastwait"}
    BY <1>3 DEF PrecachedReady, StartPlaying, InstallCallback, CheckRoom, CheckHeld,
       StartPrecache, WaitRequest, TakeRequest, PlayerSeekFails, Flushed, FlushSleeps,
       WaitSleeps,
       ParamsWaited, ParamsOpen, CheckFinished, PlayerGoes, SoundPlaces, LoopPlaces,
       SetCallback, PutSleep, WaitSleep, WaitReturn, obVars, reader, locals
  <2>2. ppc = "lastwait" => ppc' = "lastwait"
    BY <1>3 DEF PrecachedReady, StartPlaying, InstallCallback, CheckRoom, CheckHeld,
       StartPrecache, WaitRequest, TakeRequest, PlayerSeekFails, Flushed, FlushSleeps,
       WaitSleeps,
       ParamsWaited, ParamsOpen, CheckFinished, PlayerGoes
  <2>3. CASE ppc = "lastwait"
    BY <2>2, <2>3 DEF SoundHolds, SoundPlaces, LoopPlaces
  <2>4. CASE ppc \in SoundPlaces
    BY <2>1, <2>4, StillInPlace DEF SoundHolds
  <2> QED BY <2>1, <2>3, <2>4
<1>4. CASE PrecachedOpen
  <2>1. CASE opened'
    <3>1. /\ ppc = "preopen" /\ pending' = PcmUnits(dec) /\ dec' = [dec EXCEPT !.fill = 0]
          /\ UNCHANGED <<chunk, buf, time, stream>>
      BY <1>4, <2>1 DEF PrecachedOpen, obVars, reader
    <3>2. InPlace /\ pending = <<>>
      BY <3>1 DEF SoundHolds, SoundPlaces, Threads, DecoderHolds
    <3>3. InPlace'
      BY <3>1, <3>2, GivingKeepsPlace
    <3> QED BY <3>3 DEF SoundHolds
  <2>2. CASE ~opened'
    BY <1>4, <2>2 DEF PrecachedOpen, SoundHolds, SoundPlaces, LoopPlaces
  <2> QED BY <2>1, <2>2
<1>5. CASE StartFlush
  <2>0. /\ ppc = "flush" /\ UNCHANGED <<chunk, buf, time, stream>>
    BY <1>5 DEF StartFlush, obVars, reader
  <2>1. InPlace /\ pending = <<>>
    BY <2>0 DEF SoundHolds, SoundPlaces, LoopPlaces, Threads, DecoderHolds
  <2>2. CASE MayFlush
    <3>1. pending' = PcmUnits(dec) /\ dec' = [dec EXCEPT !.fill = 0]
      BY <1>5, <2>2 DEF StartFlush
    <3>2. InPlace'
      BY <2>0, <2>1, <3>1, GivingKeepsPlace
    <3> QED BY <3>2 DEF SoundHolds
  <2>3. CASE ~MayFlush
    <3>1. UNCHANGED <<pending, dec>>
      BY <1>5, <2>3 DEF StartFlush
    <3>2. InPlace'
      BY <2>0, <2>1, <3>1, StillInPlace
    <3> QED BY <3>2 DEF SoundHolds
  <2> QED BY <2>2, <2>3
<1>6. CASE Decode \/ CheckParams
  <2>1. /\ ppc \in {"decode", "params"} /\ UNCHANGED <<chunk, buf, pending, time, stream>>
        /\ dec' \in {Decoded(dec), dec, [dec EXCEPT !.changed = FALSE]}
    BY <1>6 DEF Decode, CheckParams, obVars, reader
  <2>2. InPlace /\ dec \in Decoders /\ dec' \in Decoders /\ dec.song # 0
    BY <2>1 DEF SoundHolds, SoundPlaces, LoopPlaces, Threads, DecoderHolds, TypeOK, PlayerTypes
  <2>3. dec'.song = dec.song /\ dec'.dpos - dec'.fill = dec.dpos - dec.fill
    BY <2>1, <2>2, DecodedIs, DecoderChanges
  <2>4. InPlace'
    BY <2>1, <2>2, <2>3, DecoderKeepsPlace
  <2> QED BY <2>4 DEF SoundHolds
<1>7. CASE SeekTime
  <2>1. CASE stopped
    BY <1>7, <2>1 DEF SeekTime, SoundHolds, SoundPlaces, LoopPlaces
  <2>2. CASE ~stopped
    BY <1>7, <2>2, SoughtIsInPlace DEF SoundHolds
  <2> QED BY <2>1, <2>2
<1>8. CASE FlushWrites
  <2>1. ppc \in {"put", "preflush"}
    BY <1>8 DEF FlushWrites
  <2>2. InPlace
    BY <2>1 DEF SoundHolds, SoundPlaces, LoopPlaces
  <2> QED BY <1>8, <2>2, WritingKeepsPlace DEF SoundHolds
<1> QED BY <1>1, <1>2, <1>3, <1>4, <1>5, <1>6, <1>7, <1>8 DEF PlayerStep

LEMMA InitIInv == Init => IInv
<1> SUFFICES ASSUME Init PROVE IInv
  OBVIOUS
<1>1. TypeOK /\ Threads
  BY InitTypes, InitThreads
<1>2. BufferHolds
  BY DEF Init, OutBufInit, BufferHolds, BetweenSongs, Quiet
<1>3. SoundHolds
  BY DEF Init, SoundHolds, SoundPlaces, LoopPlaces
<1> QED BY <1>1, <1>2, <1>3 DEF IInv

LEMMA IInvKept ==
  ASSUME LongSongs, IInv, [Next]_vars
  PROVE  IInv'
<1>1. TypeOK' /\ Threads'
  BY ThreadsKept DEF IInv
<1>2. CASE Next
  <2>1. BufferHolds'
    BY <1>2, BufferHoldsKept DEF IInv
  <2>2. SoundHolds'
    BY <1>1, <1>2, OthersKeepSound, PlayerKeepsSound DEF IInv
  <2> QED BY <1>1, <2>1, <2>2 DEF IInv
<1>3. CASE UNCHANGED vars
  <2> USE <1>3 DEF vars, obVars, reader, flags, locals, IInv
  <2>1. BufferHolds'
    BY DEF BufferHolds, Quiet, Silent
  <2>2. SoundHolds'
    BY StillInPlace DEF SoundHolds
  <2> QED BY <1>1, <2>1, <2>2
<1> QED BY <1>2, <1>3

LEMMA IInvHolds ==
  ASSUME LongSongs
  PROVE  Spec => []IInv
<1>1. IInv /\ [Next]_vars => IInv'
  BY IInvKept
<1> QED BY <1>1, InitIInv, PTL DEF Spec

-----------------------------------------------------------------------------
(* The sound parameters of what is on its way                              *)

(* Sound the device can be sent when it is opened with sp, and what it can *)
(* be sent as it is opened.                                                *)
RightFor(sp) == {u \in Unit : OneFormat(u.song) => Song[u.song][u.pos + 1] = sp}
RightSound == RightFor(devSp)

(* The device is opened, or the reader has closed it to open it again.     *)
Usable == opened \/ devClosed

(* A decoder that holds sound knows its parameters, those of its song.     *)
Knows(d) ==
  /\ d.song # 0 => d.dpos <= Len(Song[d.song])
  /\ d.fill > 0 => d.sp # "none"
  /\ d.sp # "none" => d.song # 0 /\ \E i \in 1..Len(Song[d.song]) : d.sp = Song[d.song][i]

(* The places where the device follows the decoder: all those of a song    *)
(* but where the device is about to be opened.                             *)
DevicePlaces == (SoundPlaces \cup SeekPlaces) \ {"preopen", "paramswait", "open"}

ReaderSends == rpc = "send" => chunk # <<>> /\ opened
SoundIsRight ==
  chunk \in Seq(RightSound) /\ buf \in Seq(RightSound) /\ pending \in Seq(RightSound)
CanBeSent == (buf # <<>> /\ ~stop) \/ pending # <<>> => Usable
OpensInSilence == ppc = "open" => Silent
DecodersKnow == Knows(dec) /\ Knows(precache) /\ ~precache.changed
DeviceFollows ==
  ppc \in DevicePlaces /\ dec.sp # "none" /\ ~dec.changed => Usable /\ devSp = dec.sp

ParamsHold == /\ ReaderSends /\ SoundIsRight /\ CanBeSent
              /\ OpensInSilence /\ DecodersKnow /\ DeviceFollows

LEMMA RightIs ==
  /\ devSp' = devSp => RightSound' = RightSound
  /\ \A sp : devSp' = sp => RightSound' = RightFor(sp)
<1>1. devSp' = devSp => RightSound' = RightSound
  BY DEF RightSound, RightFor, OneFormat, Unit, Songs
<1>2. ASSUME NEW sp, devSp' = sp PROVE RightSound' = RightFor(sp)
  BY <1>2 DEF RightSound, RightFor, OneFormat, Unit, Songs
<1> QED BY <1>1, <1>2

(* Decoders that have decoded nothing, and what precaching leaves.         *)
LEMMA KnowsNew ==
  /\ Knows(NoDecoder) /\ ~NoDecoder.changed
  /\ \A s \in Songs : /\ Knows(Opened(s)) /\ ~Opened(s).changed /\ Opened(s).sp = "none"
                      /\ Knows([NoDecoder EXCEPT !.song = s])
                      /\ ~[NoDecoder EXCEPT !.song = s].changed
<1>1. Knows(NoDecoder) /\ ~NoDecoder.changed
  BY DEF Knows, NoDecoder
<1>2. ASSUME NEW s \in Songs
      PROVE  /\ Knows(Opened(s)) /\ ~Opened(s).changed /\ Opened(s).sp = "none"
             /\ Knows([NoDecoder EXCEPT !.song = s])
             /\ ~[NoDecoder EXCEPT !.song = s].changed
  <2>1. 0 <= Len(Song[s])
    BY SongsAre
  <2> QED BY <2>1 DEF Knows, NoDecoder, Opened
<1> QED BY <1>1, <1>2

LEMMA KnowsPrecached ==
  ASSUME NEW s \in Songs
  PROVE  Knows(Precached(s)) /\ ~Precached(s).changed
<1>1. /\ Song[s] \in Seq(Params) /\ Len(Song[s]) \in Nat /\ s # 0
      /\ Len(<<>>) = 0 /\ (Song[s] # <<>> => Len(Song[s]) > 0)
  BY SongsAre, EmptySeq DEF Songs
<1>2. CASE s \in Bad
  BY <1>2, KnowsNew DEF Precached
<1>3. CASE s \notin Bad /\ \E i \in 2..PrecacheFill(s) : Song[s][i] # Song[s][1]
  BY <1>3, KnowsNew DEF Precached
<1>4. CASE s \notin Bad /\ ~\E i \in 2..PrecacheFill(s) : Song[s][i] # Song[s][1]
  <2> DEFINE sp == IF Song[s] = <<>> THEN "none" ELSE Song[s][1]
             n == PrecacheFill(s)  d == Precached(s)
  <2>1. n \in 0..Len(Song[s]) /\ (Song[s] = <<>> => n = 0)
    BY RoomIs
  <2>2. d.song = s /\ d.dpos = n /\ d.fill = n /\ d.sp = sp /\ ~d.changed
    BY <1>4 DEF Precached, Opened
  <2>3. /\ n > 0 => sp # "none"
        /\ sp # "none" => \E i \in 1..Len(Song[s]) : sp = Song[s][i]
    <3>1. CASE Song[s] = <<>>
      BY <2>1, <3>1
    <3>2. CASE Song[s] # <<>>
      <4>1. 1 \in 1..Len(Song[s]) /\ sp = Song[s][1]
        BY <1>1, <3>2
      <4>2. sp \in Params
        BY <4>1, SongsAre
      <4> QED BY <4>1, <4>2, ParamsAssumption
    <3> QED BY <3>1, <3>2
  <2> HIDE DEF sp, n, d
  <2>4. n <= Len(Song[s])
    BY <1>1, <2>1
  <2>5. Knows(d)
    BY <1>1, <2>2, <2>3, <2>4 DEF Knows
  <2> QED BY <2>2, <2>5 DEF d
<1> QED BY <1>2, <1>3, <1>4

(* Decoding goes on with the parameters the device follows, or says that   *)
(* they have changed.                                                      *)
LEMMA KnowsDecoded ==
  ASSUME NEW d \in Decoders, d.song # 0, Knows(d)
  PROVE  /\ Knows(Decoded(d))
         /\ ~Decoded(d).changed => ~d.changed /\ Decoded(d).sp = d.sp
<1>1. /\ d.song \in Songs /\ d.dpos \in Nat /\ d.fill \in Nat /\ d.changed \in BOOLEAN
      /\ Song[d.song] \in Seq(Params) /\ Len(Song[d.song]) \in Nat
  <2>1. d.song \in Songs /\ d.dpos \in Nat /\ d.fill \in Nat
    BY DecoderFields
  <2>2. d.changed \in BOOLEAN
    BY DEF Decoders
  <2> QED BY <2>1, <2>2, SongsAre
<1>2. CASE d.done \/ PcmFull(d)
  <2>1. Decoded(d) = d
    BY <1>2 DEF Decoded
  <2> QED BY <2>1
<1>3. CASE ~(d.done \/ PcmFull(d)) /\ d.dpos < Len(Song[d.song])
  <2> DEFINE p == d.dpos + 1  sp == Song[d.song][p]  ch == d.changed \/ sp # d.sp
             f == d.fill + 1  e == Decoded(d)
  <2>1. p \in 1..Len(Song[d.song]) /\ sp \in Params /\ sp # "none"
    BY <1>1, <1>3, SongsAre, ParamsAssumption
  <2>2. e = [d EXCEPT !.dpos = p, !.fill = f, !.sp = sp, !.changed = ch]
    BY <1>3 DEF Decoded
  <2>3. ~ch => ~d.changed /\ sp = d.sp
    OBVIOUS
  <2>7. sp = Song[d.song][p]
    OBVIOUS
  <2> HIDE DEF p, sp, ch, f, e
  <2>4. e.song = d.song /\ e.dpos = p /\ e.fill = f /\ e.sp = sp /\ e.changed = ch
    BY <2>2 DEF Decoders
  <2>5. p <= Len(Song[d.song])
    BY <1>1, <2>1
  <2>6. Knows(e)
    BY <2>1, <2>4, <2>5, <2>7 DEF Knows
  <2> QED BY <2>3, <2>4, <2>6 DEF e
<1>4. CASE ~(d.done \/ PcmFull(d)) /\ ~(d.dpos < Len(Song[d.song]))
  <2>1. Decoded(d) = [d EXCEPT !.done = TRUE]
    BY <1>4 DEF Decoded
  <2>2. /\ Decoded(d).song = d.song /\ Decoded(d).dpos = d.dpos /\ Decoded(d).fill = d.fill
        /\ Decoded(d).sp = d.sp /\ Decoded(d).changed = d.changed
    BY <2>1 DEF Decoders
  <2> QED BY <2>2 DEF Knows
<1> QED BY <1>2, <1>3, <1>4

(* What else player() changes of its decoder.                              *)
LEMMA KnowsChanged ==
  ASSUME NEW d \in Decoders, Knows(d)
  PROVE  /\ Knows([d EXCEPT !.fill = 0]) /\ Knows([d EXCEPT !.done = TRUE])
         /\ Knows([d EXCEPT !.changed = FALSE])
         /\ [d EXCEPT !.fill = 0].sp = d.sp /\ [d EXCEPT !.fill = 0].changed = d.changed
         /\ [d EXCEPT !.done = TRUE].sp = d.sp /\ [d EXCEPT !.done = TRUE].changed = d.changed
         /\ \A p \in Nat : p <= Len(Song[d.song])
              => /\ Knows(AfterSeek(d, p)) /\ AfterSeek(d, p).sp = d.sp
                 /\ AfterSeek(d, p).changed = d.changed
<1>1. /\ Knows([d EXCEPT !.fill = 0])
      /\ [d EXCEPT !.fill = 0].sp = d.sp /\ [d EXCEPT !.fill = 0].changed = d.changed
  BY DEF Decoders, Knows
<1>2. /\ Knows([d EXCEPT !.done = TRUE])
      /\ [d EXCEPT !.done = TRUE].sp = d.sp /\ [d EXCEPT !.done = TRUE].changed = d.changed
  BY DEF Decoders, Knows
<1>3. Knows([d EXCEPT !.changed = FALSE])
  BY DEF Decoders, Knows
<1>4. ASSUME NEW p \in Nat, p <= Len(Song[d.song])
      PROVE  /\ Knows(AfterSeek(d, p)) /\ AfterSeek(d, p).sp = d.sp
             /\ AfterSeek(d, p).changed = d.changed
  <2>1. /\ AfterSeek(d, p).song = d.song /\ AfterSeek(d, p).dpos = p
        /\ AfterSeek(d, p).fill = d.fill /\ AfterSeek(d, p).sp = d.sp
        /\ AfterSeek(d, p).changed = d.changed
    BY DEF Decoders, AfterSeek
  <2> QED BY <1>4, <2>1 DEF Knows
<1> QED BY <1>1, <1>2, <1>3, <1>4

(* What a decoder gives the buffer has the parameters it knows.            *)
LEMMA PcmUnitsRight ==
  ASSUME PlayerTypes, NEW d \in Decoders, d.song # 0, Knows(d), d.fill <= d.dpos
  PROVE  PcmUnits(d) \in Seq(RightFor(d.sp))
<1> DEFINE n == d.fill  us == PcmUnits(d)
<1>1. /\ d.song \in Songs /\ d.dpos \in Nat /\ n \in Nat
      /\ Len(Song[d.song]) \in Nat /\ d.dpos <= Len(Song[d.song])
  BY DecoderFields, SongsAre DEF Knows
<1>2. /\ us \in Seq(Unit) /\ Len(us) = n
      /\ \A i \in 1..n : us[i] = [stream |-> stream, song |-> d.song, pos |-> d.dpos - n + i - 1]
  BY PcmUnitsAre DEF IsPiece
<1>3. ASSUME NEW i \in 1..n
      PROVE  us[i] \in RightFor(d.sp)
  <2> DEFINE k == d.dpos - n + i - 1
  <2>1. k + 1 \in 1..Len(Song[d.song])
    BY <1>1
  <2>2. d.sp # "none"
    <3>1. n > 0
      BY <1>1
    <3> QED BY <3>1 DEF Knows
  <2>3. PICK j \in 1..Len(Song[d.song]) : d.sp = Song[d.song][j]
    BY <2>2 DEF Knows
  <2>4. us[i] \in Unit
    BY <1>2, ElementOfSeq
  <2>5. us[i] = [stream |-> stream, song |-> d.song, pos |-> k]
    BY <1>2
  <2> HIDE DEF k, us
  <2>6. us[i].song = d.song /\ us[i].pos = k
    BY <2>5
  <2>7. OneFormat(d.song) => Song[d.song][k + 1] = d.sp
    BY <2>1, <2>3 DEF OneFormat
  <2> QED BY <2>4, <2>6, <2>7 DEF RightFor
<1> HIDE DEF n, us
<1>4. us \in [1..n -> RightFor(d.sp)]
  <2>1. us = [i \in 1..n |-> us[i]]
    BY <1>2, LenProperties
  <2> QED BY <1>3, <2>1
<1>5. us \in Seq(RightFor(d.sp))
  BY <1>1, <1>4, SeqDef DEF n
<1> QED BY <1>5 DEF us

(* A step that neither opens the device, nor sends, nor puts sound in.     *)
LEMMA QuietStepKeepsParams ==
  ASSUME ParamsHold,
         UNCHANGED <<chunk, pending, opened, devSp, devClosed>>,
         rpc' = "send" => rpc = "send",
         buf' = <<>> \/ (buf' = buf /\ (stop => stop')),
         ppc' = "open" => chunk' = <<>> /\ buf' = <<>>,
         Knows(dec'), Knows(precache'), ~precache'.changed,
         ppc' \in DevicePlaces /\ dec'.sp # "none" /\ ~dec'.changed
           => ppc \in DevicePlaces /\ dec.sp = dec'.sp /\ ~dec.changed
  PROVE  ParamsHold'
<1> USE DEF ParamsHold
<1>1. RightSound' = RightSound
  BY RightIs
<1>2. <<>> \in Seq(RightSound)
  BY EmptySeq
<1>3. SoundIsRight'
  BY <1>1, <1>2 DEF SoundIsRight
<1>4. ReaderSends'
  BY DEF ReaderSends
<1>5. Usable' = Usable
  BY DEF Usable
<1>6. CanBeSent'
  BY <1>5 DEF CanBeSent
<1>7. OpensInSilence'
  BY DEF OpensInSilence, Silent
<1>8. DecodersKnow'
  BY DEF DecodersKnow, Knows
<1>9. DeviceFollows'
  BY <1>5 DEF DeviceFollows, DevicePlaces, SoundPlaces, SeekPlaces, LoopPlaces
<1> QED BY <1>3, <1>4, <1>6, <1>7, <1>8, <1>9

(* The reader sends only what it took from a buffer that could be sent,    *)
(* and closes the device only to open it again.                            *)
LEMMA ReaderKeepsParams ==
  ASSUME IInv, ParamsHold, ReaderRuns \/ CallbackReturns \/ ReaderCloses \/ ReaderReopens
  PROVE  ParamsHold'
<1> USE DEF ParamsHold
<1>0. ReaderStep /\ UNCHANGED <<ppc, dec, pending, precache, devSp>>
  BY DEF ReaderRuns, CallbackReturns, ReaderCloses, ReaderReopens, ReaderStep, locals, pre, device
<1>1. /\ stop' = stop /\ (buf = <<>> => buf' = <<>>)
      /\ chunk = <<>> => chunk' = <<>> \/ (buf # <<>> /\ ~stop)
  BY <1>0, ReaderLeaves DEF IInv, TypeOK, Threads
<1>2. Usable => Usable'
  <2>1. CASE ReaderRuns
    BY <2>1 DEF ReaderRuns, ReaderTop, ReaderReady, ReaderPast, ReaderExit, ReaderAgain,
       ReaderTake, ReaderSend, ReaderSent, device, Usable
  <2>2. CASE CallbackReturns
    BY <2>2 DEF CallbackReturns, ReaderCallbackDone, Usable
  <2>3. CASE ReaderCloses
    BY <2>3 DEF ReaderCloses, ReaderClosed, Usable
  <2>4. CASE ReaderReopens
    <3>1. devClosed' \in BOOLEAN /\ opened' = ~devClosed'
      BY <2>4, <1>0, ReaderTypes DEF ReaderReopens, IInv, TypeOK, OutBufTypes
    <3> QED BY <3>1 DEF Usable
  <2> QED BY <2>1, <2>2, <2>3, <2>4
<1>3. ReaderSends' /\ chunk' \in Seq(RightSound) /\ buf' \in Seq(RightSound)
  <2>0. <<>> \in Seq(RightSound) /\ chunk \in Seq(RightSound) /\ buf \in Seq(RightSound)
    BY EmptySeq DEF SoundIsRight
  <2>1. CASE ReaderRuns /\ ReaderTake
    <3> DEFINE k == Least(Chunk, Len(buf))
    <3>1. /\ chunk' = SubSeq(buf, 1, k) /\ buf' = SubSeq(buf, k + 1, Len(buf)) /\ buf # <<>>
          /\ opened' = opened /\ ~stop /\ ~devClosed
      BY <2>1 DEF ReaderRuns, ReaderTake, Rest, MayTake, device
    <3>2. k \in 1..Len(buf)
      <4>1. Len(buf) \in Nat \ {0} /\ Chunk \in Nat \ {0}
        BY <3>1, <2>0, LenProperties, EmptySeq, ChunkAssumption
      <4> QED BY <4>1 DEF Least
    <3> HIDE DEF k
    <3>3. k \in 0..Len(buf) /\ k # 0
      BY <3>2
    <3>4. /\ chunk' \in Seq(RightSound) /\ Len(chunk') = k /\ buf' \in Seq(RightSound)
      BY <2>0, <3>1, <3>3, SplitSeq
    <3>5. chunk' # <<>>
      BY <3>3, <3>4, EmptySeq
    <3>6. opened'
      BY <3>1 DEF CanBeSent, Usable
    <3> QED BY <3>4, <3>5, <3>6 DEF ReaderSends
  <2>2. CASE ReaderRuns /\ ReaderSend
    <3>1. UNCHANGED <<chunk, buf, rpc, opened>>
      BY <2>2 DEF ReaderRuns, ReaderSend, device
    <3> QED BY <2>0, <3>1 DEF ReaderSends
  <2>3. CASE ~ReaderTake /\ ~ReaderSend
    <3>1. chunk' \in {chunk, <<>>} /\ buf' \in {buf, <<>>} /\ rpc' # "send"
      <4>1. CASE ReaderTop \/ ReaderReady \/ ReaderPast \/ ReaderExit \/ ReaderAgain \/ ReaderSent
        BY <4>1 DEF ReaderTop, KeptAtTop, ReaderReady, ReaderPast, ReaderExit, ReaderAgain,
           ReaderSent
      <4>2. CASE ReaderCallbackDone \/ ReaderClosed \/ ReaderOpened
        BY <4>2 DEF ReaderCallbackDone, ReaderClosed, ReaderOpened
      <4> QED BY <1>0, <2>3, <4>1, <4>2 DEF ReaderStep
    <3> QED BY <2>0, <3>1 DEF ReaderSends
  <2>4. (ReaderTake \/ ReaderSend) => ReaderRuns
    BY DEF ReaderTake, ReaderSend, ReaderRuns, CallbackReturns, ReaderCallbackDone,
           ReaderCloses, ReaderClosed, ReaderReopens, ReaderOpened
  <2> QED BY <2>1, <2>2, <2>3, <2>4
<1>4. RightSound' = RightSound
  BY <1>0, RightIs
<1>5. SoundIsRight'
  BY <1>0, <1>3, <1>4 DEF SoundIsRight
<1>6. CanBeSent'
  BY <1>0, <1>1, <1>2 DEF CanBeSent
<1>7. OpensInSilence'
  BY <1>0, <1>1 DEF OpensInSilence, Silent
<1>8. DecodersKnow'
  BY <1>0 DEF DecodersKnow, Knows
<1>9. DeviceFollows'
  BY <1>0, <1>2 DEF DeviceFollows, DevicePlaces, SoundPlaces, SeekPlaces, LoopPlaces
<1> QED BY <1>3, <1>5, <1>6, <1>7, <1>8, <1>9

LEMMA OthersKeepParams ==
  ASSUME IInv, ParamsHold, Next, ~PlayerStep
  PROVE  ParamsHold'
<1>1. CASE ReaderRuns \/ CallbackReturns \/ ReaderCloses \/ ReaderReopens
  BY <1>1, ReaderKeepsParams
<1>2. CASE PrecacheRuns \/ CommandHandled \/ ServerInCall \/ CallbackNotifies
  <2>1. /\ UNCHANGED <<dec, pending>>
        /\ \/ ppc' = ppc
           \/ ppc = "asleep" /\ ppc' = "request"
           \/ ppc = "ended" /\ ppc' = "none"
           \/ ppc = "none" /\ ppc' = "pick"
    BY OthersMovePlayer DEF IInv, Threads, locals
  <2>2. UNCHANGED <<buf, chunk, stop, devClosed, opened, devSp>> /\ rpc' \in {rpc, Signalled}
    <3>1. CASE PrecacheRuns
      BY <3>1 DEF PrecacheRuns, obVars, device
    <3>2. CASE CallbackNotifies
      BY <3>2 DEF CallbackNotifies, obVars
    <3>3. CASE CmdPause \/ CmdUnpause
      BY <3>3 DEF CmdPause, CmdUnpause, Pause, Unpause, reader, device
    <3>4. CASE (CommandHandled \/ ServerInCall) /\ ~(CmdPause \/ CmdUnpause)
      BY <3>4 DEF CommandHandled, ServerInCall, CmdStop, CmdPlay, CmdSkip, CmdSeek, PostStop,
         JoinPlayer, StartPlayer, SetState, PostSeek, obVars, device
    <3> QED BY <1>2, <3>1, <3>2, <3>3, <3>4
  <2>3. Knows(precache') /\ ~precache'.changed
    <3>1. CASE PrecacheRuns
      <4>1. precache.song \in Songs /\ precache' = Precached(precache.song)
        BY <3>1, DecoderFields
           DEF PrecacheRuns, IInv, Threads, PrecacheHolds, TypeOK, PrecacheTypes
      <4> QED BY <4>1, KnowsPrecached
    <3>2. CASE ~PrecacheRuns
      <4>1. precache' = precache
        BY <1>2, <3>2 DEF CommandHandled, ServerInCall, CallbackNotifies, CmdStop, CmdPause,
           CmdUnpause, CmdPlay, CmdSkip, CmdSeek, PostStop, JoinPlayer, StartPlayer, SetState,
           PostSeek, pre
      <4> QED BY <4>1 DEF ParamsHold, DecodersKnow
    <3> QED BY <3>1, <3>2
  <2>4. Knows(dec')
    BY <2>1 DEF ParamsHold, DecodersKnow
  <2>5. ppc' = "open" => chunk' = <<>> /\ buf' = <<>>
    BY <2>1, <2>2 DEF ParamsHold, OpensInSilence, Silent
  <2>6. ppc' \in DevicePlaces => ppc \in DevicePlaces
    BY <2>1 DEF DevicePlaces, SoundPlaces, SeekPlaces, LoopPlaces
  <2>7. rpc' = "send" => rpc = "send"
    BY <2>2 DEF Signalled
  <2> QED BY <2>1, <2>2, <2>3, <2>4, <2>5, <2>6, <2>7, QuietStepKeepsParams
<1> QED BY <1>1, <1>2 DEF Next, ReaderMoves

(* The playing thread leaves the reader what it is sending.                *)
LEMMA PlayerLeavesReader ==
  ASSUME PlayerStep
  PROVE  UNCHANGED <<chunk, devClosed>> /\ (rpc' = "send" => rpc = "send")
<1>1. CASE \/ TimeZero \/ CloseDevice \/ PlayerReset \/ InstallCallback \/ SeekReset
           \/ SeekTime \/ FlushSleeps \/ WaitSleeps \/ TimeZeroAfter
  BY <1>1 DEF TimeZero, CloseDevice, PlayerReset, InstallCallback, SeekReset, SeekTime,
     FlushSleeps, WaitSleeps, TimeZeroAfter, TimeSet, Reset, SetCallback, PutSleep,
     WaitSleep, reader
<1>2. CASE PlayerStop \/ SeekStop \/ FlushWrites
  BY <1>2 DEF PlayerStop, SeekStop, FlushWrites, StopCall, PutSome, Signalled
<1>3. CASE \/ PickSong \/ ClearSkips \/ Advance \/ EndPlaying \/ JoinPrecache
           \/ PrecachedOpen \/ PrecachedReady \/ NewDecoder \/ StartPlaying \/ Decode
           \/ CheckRoom \/ CheckHeld \/ StartPrecache \/ WaitRequest \/ TakeRequest
           \/ PlayerStopped \/ PlayerSeek \/ PlayerSeekFails \/ SeekStopped \/ StartFlush
           \/ Flushed \/ CheckParams \/ ParamsWaited \/ ParamsOpen \/ CheckFinished
           \/ DeleteDecoder \/ LastWaited
  <2>1. UNCHANGED obVars
    BY <1>3 DEF PickSong, ClearSkips, Advance, EndPlaying, JoinPrecache, PrecachedOpen,
       PrecachedReady, NewDecoder, StartPlaying, Decode, CheckRoom, CheckHeld, StartPrecache,
       WaitRequest, TakeRequest, PlayerStopped, PlayerSeek, PlayerSeekFails, SeekStopped,
       StartFlush, Flushed, CheckParams, ParamsWaited, ParamsOpen, CheckFinished,
       DeleteDecoder, LastWaited, StopReturn, WaitReturn
  <2> QED BY <2>1 DEF obVars
<1> QED BY <1>1, <1>2, <1>3 DEF PlayerStep

LEMMA ChoosingKeepsParams ==
  ASSUME IInv, ParamsHold,
         \/ PickSong \/ ClearSkips \/ TimeZero \/ Advance \/ EndPlaying \/ PlayerReset
         \/ JoinPrecache \/ PrecachedReady \/ NewDecoder \/ StartPlaying \/ InstallCallback
  PROVE  ParamsHold'
<1>1. UNCHANGED <<chunk, devClosed>> /\ (rpc' = "send" => rpc = "send")
  BY PlayerLeavesReader DEF PlayerStep
<1>2. UNCHANGED <<pending, opened, devSp>> /\ (buf' = <<>> \/ (buf' = buf /\ stop' = stop))
  <2>1. CASE TimeZero \/ PlayerReset \/ InstallCallback
    BY <2>1 DEF TimeZero, PlayerReset, InstallCallback, TimeSet, Reset, KeptByReset,
       SetCallback, flags, locals, device
  <2>2. CASE \/ PickSong \/ ClearSkips \/ Advance \/ EndPlaying \/ JoinPrecache
             \/ PrecachedReady \/ NewDecoder \/ StartPlaying
    BY <2>2 DEF PickSong, ClearSkips, Advance, EndPlaying, JoinPrecache, PrecachedReady,
       NewDecoder, StartPlaying, obVars, locals, device
  <2> QED BY <2>1, <2>2
<1>3. /\ ppc' # "open"
      /\ ppc' \in DevicePlaces => \/ ppc \in DevicePlaces /\ dec' = dec
                                  \/ ppc = "new" /\ dec' = Opened(file)
  <2> USE DEF DevicePlaces, SoundPlaces, LoopPlaces, SeekPlaces, PlayerGoes, locals
  <2>1. CASE PickSong \/ ClearSkips \/ TimeZero \/ Advance \/ EndPlaying \/ PlayerReset
    BY <2>1 DEF PickSong, ClearSkips, TimeZero, Advance, EndPlaying, PlayerReset
  <2>2. CASE JoinPrecache \/ PrecachedReady \/ NewDecoder \/ StartPlaying \/ InstallCallback
    BY <2>2 DEF JoinPrecache, PrecachedReady, NewDecoder, StartPlaying, InstallCallback
  <2> QED BY <2>1, <2>2
<1>4. dec' \in {dec, precache, NoDecoder} \/ (ppc = "new" /\ dec' = Opened(file))
  <2>1. CASE PlayerReset \/ JoinPrecache \/ NewDecoder
    BY <2>1 DEF PlayerReset, JoinPrecache, NewDecoder
  <2>2. CASE \/ PickSong \/ ClearSkips \/ TimeZero \/ Advance \/ EndPlaying
             \/ PrecachedReady \/ StartPlaying \/ InstallCallback
    BY <2>2 DEF PickSong, ClearSkips, TimeZero, Advance, EndPlaying, PrecachedReady,
       StartPlaying, InstallCallback, locals
  <2> QED BY <2>1, <2>2
<1>5. precache' \in {precache, NoDecoder}
  <2>1. CASE JoinPrecache
    BY <2>1 DEF JoinPrecache
  <2>2. CASE ~JoinPrecache
    BY <2>2 DEF PickSong, ClearSkips, TimeZero, Advance, EndPlaying, PlayerReset,
       PrecachedReady, NewDecoder, StartPlaying, InstallCallback, pre
  <2> QED BY <2>1, <2>2
<1>6. ppc = "new" => file \in Songs
  BY DEF IInv, Threads, DecoderHolds, TypeOK, PlayerTypes
<1>7. Knows(dec') /\ Knows(precache') /\ ~precache'.changed
  BY <1>4, <1>5, <1>6, KnowsNew DEF ParamsHold, DecodersKnow
<1>8. ppc' \in DevicePlaces /\ dec'.sp # "none" /\ ~dec'.changed
        => ppc \in DevicePlaces /\ dec.sp = dec'.sp /\ ~dec.changed
  BY <1>3, <1>6, KnowsNew
<1> QED BY <1>1, <1>2, <1>3, <1>7, <1>8, QuietStepKeepsParams

LEMMA LoopKeepsParams ==
  ASSUME IInv, ParamsHold,
         \/ Decode \/ CheckRoom \/ CheckHeld \/ StartPrecache \/ WaitRequest \/ TakeRequest
         \/ PlayerStop \/ PlayerStopped \/ PlayerSeek \/ PlayerSeekFails \/ SeekStop
         \/ SeekStopped \/ SeekReset \/ SeekTime \/ Flushed
         \/ CheckParams \/ FlushSleeps \/ WaitSleeps \/ ParamsWaited \/ CheckFinished
         \/ DeleteDecoder \/ LastWaited \/ TimeZeroAfter
  PROVE  ParamsHold'
<1>1. UNCHANGED <<chunk, devClosed>> /\ (rpc' = "send" => rpc = "send")
  BY PlayerLeavesReader DEF PlayerStep
<1>2. UNCHANGED <<pending, opened, devSp>> /\ (buf' = <<>> \/ (buf' = buf /\ (stop => stop')))
  <2>1. CASE \/ PlayerStop \/ SeekStop \/ SeekReset \/ SeekTime \/ FlushSleeps
             \/ WaitSleeps \/ TimeZeroAfter
    BY <2>1 DEF PlayerStop, SeekStop, SeekReset, SeekTime, FlushSleeps, WaitSleeps,
       TimeZeroAfter, TimeSet,
       Reset, KeptByReset, StopCall, PutSleep, WaitSleep, flags, locals, device
  <2>2. CASE \/ Decode \/ CheckRoom \/ CheckHeld \/ StartPrecache \/ WaitRequest \/ TakeRequest
             \/ PlayerStopped \/ PlayerSeek \/ PlayerSeekFails \/ SeekStopped \/ Flushed
             \/ CheckParams \/ ParamsWaited \/ CheckFinished \/ DeleteDecoder \/ LastWaited
    BY <2>2 DEF Decode, CheckRoom, CheckHeld, StartPrecache, WaitRequest, TakeRequest,
       PlayerStopped, PlayerSeek, PlayerSeekFails, SeekStopped, Flushed, CheckParams,
       ParamsWaited, CheckFinished, DeleteDecoder, LastWaited, StopReturn, WaitReturn,
       obVars, locals, device
  <2> QED BY <2>1, <2>2
<1>3. ppc' = "open" => chunk' = <<>> /\ buf' = <<>>
  <2>1. CASE ParamsWaited
    <3>1. ppc = "paramswait" /\ waiting /\ MutexFree /\ UNCHANGED <<buf, chunk>>
      BY <2>1 DEF ParamsWaited, PlayerGoes, WaitReturn, ReaderIdle, obVars
    <3> QED BY <3>1 DEF IInv, Threads, ReaderHolds, BufferHolds
  <2>2. CASE ~ParamsWaited
    <3>1. ppc' # "open"
      <4>1. CASE FlushSleeps \/ WaitSleeps
        BY <4>1 DEF FlushSleeps, WaitSleeps
      <4>2. CASE TakeRequest
        BY <4>2 DEF TakeRequest, IInv, TypeOK, ServerTypes
      <4>3. CASE ~FlushSleeps /\ ~WaitSleeps /\ ~TakeRequest
        BY <2>2, <4>3 DEF Decode, CheckRoom, CheckHeld, StartPrecache, WaitRequest, PlayerStop,
           PlayerStopped, PlayerSeek, PlayerSeekFails, SeekStop, SeekStopped, SeekReset,
           SeekTime, Flushed, CheckParams, CheckFinished, DeleteDecoder, LastWaited,
           TimeZeroAfter, PlayerGoes
      <4> QED BY <4>1, <4>2, <4>3
    <3> QED BY <3>1
  <2> QED BY <2>1, <2>2
<1>4. dec \in Decoders /\ Knows(dec) /\ (ppc \in DevicePlaces => dec.song # 0)
  BY DEF IInv, TypeOK, PlayerTypes, ParamsHold, DecodersKnow, DevicePlaces, Threads, DecoderHolds
<1>5. Knows(precache') /\ ~precache'.changed
  <2>1. CASE StartPrecache
    <3>1. precache' = precache \/ (nextFile # 0 /\ precache' = [NoDecoder EXCEPT !.song = nextFile])
      BY <2>1 DEF StartPrecache, pre
    <3>2. nextFile # 0 => nextFile \in Songs
      BY DEF IInv, TypeOK, PlayerTypes
    <3> QED BY <3>1, <3>2, KnowsNew DEF ParamsHold, DecodersKnow
  <2>2. CASE ~StartPrecache
    <3>1. precache' = precache
      BY <2>2 DEF Decode, CheckRoom, CheckHeld, WaitRequest, TakeRequest, PlayerStop,
     PlayerStopped, PlayerSeek, PlayerSeekFails, SeekStop, SeekStopped, SeekReset, SeekTime,
         Flushed, CheckParams, FlushSleeps, WaitSleeps, ParamsWaited, CheckFinished,
         DeleteDecoder,
         LastWaited, TimeZeroAfter, pre
    <3> QED BY <3>1 DEF ParamsHold, DecodersKnow
  <2> QED BY <2>1, <2>2
<1> DEFINE Follows == ppc' \in DevicePlaces /\ dec'.sp # "none" /\ ~dec'.changed
                        => ppc \in DevicePlaces /\ dec.sp = dec'.sp /\ ~dec.changed
<1>6. Knows(dec') /\ Follows
  <2> USE DEF DevicePlaces, SoundPlaces, LoopPlaces, SeekPlaces, PlayerGoes
  <2>1. CASE Decode
    <3>1. ppc = "decode" /\ dec' = Decoded(dec)
      BY <2>1 DEF Decode
    <3> QED BY <1>4, <3>1, KnowsDecoded
  <2>2. CASE PlayerSeek
    <3>1. ppc = "seek" /\ reqSeek \in Nat /\ (SeekInside \/ SeekToEnd)
      BY <2>2 DEF PlayerSeek, IInv, TypeOK, ServerTypes
    <3>2. Len(Song[dec.song]) \in Nat
      BY <1>4, <3>1, DecoderFields, SongsAre
    <3>3. \/ dec' = [dec EXCEPT !.done = TRUE]
          \/ reqSeek <= Len(Song[dec.song]) /\ dec' = AfterSeek(dec, reqSeek)
      BY <3>1, <3>2 DEF SeekInside, SeekToEnd
    <3> QED BY <1>4, <3>1, <3>3, KnowsChanged
  <2>3. CASE SeekTime
    <3>1. ppc = "seektime" /\ dec' = [dec EXCEPT !.fill = 0]
      BY <2>3 DEF SeekTime, PcmAfterSeek
    <3> QED BY <1>4, <3>1, KnowsChanged
  <2>4. CASE CheckParams
    <3>1. /\ ppc = "params"
          /\ \/ ppc' = "paramswait" /\ dec' = [dec EXCEPT !.changed = FALSE]
             \/ dec' = dec
      BY <2>4 DEF CheckParams
    <3> QED BY <1>4, <3>1, KnowsChanged
  <2>5. CASE DeleteDecoder
    <3>1. ppc' = "lastwait" /\ dec' = NoDecoder
      BY <2>5 DEF DeleteDecoder
    <3> QED BY <3>1, KnowsNew
  <2>6. CASE \/ CheckRoom \/ CheckHeld \/ StartPrecache \/ WaitRequest \/ TakeRequest
             \/ PlayerStop \/ PlayerStopped \/ PlayerSeekFails \/ SeekStop \/ SeekStopped
             \/ SeekReset \/ Flushed \/ FlushSleeps \/ WaitSleeps \/ ParamsWaited
             \/ CheckFinished
             \/ LastWaited \/ TimeZeroAfter
    <3>1. dec' = dec
      BY <2>6 DEF CheckRoom, CheckHeld, StartPrecache, WaitRequest, TakeRequest, PlayerStop,
         PlayerStopped, PlayerSeekFails, SeekStop, SeekStopped, SeekReset, Flushed,
         FlushSleeps, WaitSleeps,
         ParamsWaited, CheckFinished, LastWaited, TimeZeroAfter, locals
    <3>2. ppc' \in DevicePlaces => ppc \in DevicePlaces
      <4>1. CASE CheckRoom \/ CheckHeld \/ StartPrecache \/ WaitRequest \/ TakeRequest
        BY <4>1 DEF CheckRoom, CheckHeld, StartPrecache, WaitRequest, TakeRequest
      <4>2. CASE \/ PlayerStop \/ PlayerStopped \/ PlayerSeekFails \/ SeekStop \/ SeekStopped
                 \/ SeekReset \/ Flushed
        BY <4>2 DEF PlayerStop, PlayerStopped, PlayerSeekFails, SeekStop, SeekStopped,
           SeekReset, Flushed
      <4>3. CASE \/ FlushSleeps \/ WaitSleeps \/ ParamsWaited \/ CheckFinished
                 \/ LastWaited \/ TimeZeroAfter
        BY <4>3 DEF FlushSleeps, WaitSleeps, ParamsWaited, CheckFinished, LastWaited,
           TimeZeroAfter
      <4> QED BY <2>6, <4>1, <4>2, <4>3
    <3> QED BY <1>4, <3>1, <3>2
  <2> QED BY <2>1, <2>2, <2>3, <2>4, <2>5, <2>6
<1> QED BY <1>1, <1>2, <1>3, <1>5, <1>6, QuietStepKeepsParams

(* With nothing on its way, the device is closed, or opened with what the  *)
(* decoder knows.                                                          *)
LEMMA CloseKeepsParams ==
  ASSUME IInv, ParamsHold, CloseDevice
  PROVE  ParamsHold'
<1> USE DEF ParamsHold
<1>1. /\ ppc = "closing" /\ ppc' = "ended"
      /\ UNCHANGED <<buf, chunk, pending, stop, rpc, devSp, dec, precache>>
  BY DEF CloseDevice, PlayerGoes, flags, reader, locals, pre
<1>2. Quiet /\ pending = <<>>
  BY <1>1 DEF IInv, BufferHolds, BetweenSongs, Threads, DecoderHolds
<1>3. SoundIsRight'
  BY <1>1, RightIs DEF SoundIsRight
<1>4. ReaderSends' /\ CanBeSent'
  BY <1>1, <1>2 DEF ReaderSends, CanBeSent, Quiet
<1>5. OpensInSilence' /\ DeviceFollows'
  BY <1>1 DEF OpensInSilence, DeviceFollows, DevicePlaces, SoundPlaces, SeekPlaces, LoopPlaces
<1>6. DecodersKnow'
  BY <1>1 DEF DecodersKnow, Knows
<1> QED BY <1>3, <1>4, <1>5, <1>6

LEMMA OpeningKeepsParams ==
  ASSUME IInv, ParamsHold, PrecachedOpen \/ ParamsOpen
  PROVE  ParamsHold'
<1> USE DEF ParamsHold
<1>1. /\ UNCHANGED <<buf, chunk, stop, rpc, devClosed, precache>>
      /\ devSp' = dec.sp /\ opened' \in BOOLEAN
  BY DEF PrecachedOpen, ParamsOpen, AudioOpens, obVars, pre
<1>2. /\ chunk = <<>> /\ buf = <<>> /\ pending = <<>>
      /\ ppc = "preopen" => dec.song # 0 /\ dec.fill = dec.dpos
  <2>1. CASE PrecachedOpen
    <3>1. ppc = "preopen"
      BY <2>1 DEF PrecachedOpen
    <3>2. Silent /\ pending = <<>> /\ dec.song # 0 /\ time = 0 /\ InPlace
      BY <3>1 DEF IInv, BufferHolds, Threads, DecoderHolds, SoundHolds, SoundPlaces
    <3>3. Len(chunk) = 0 /\ Len(buf) = 0 /\ Len(pending) = 0
      BY <3>2, EmptySeq DEF Silent
    <3>4. dec.fill \in Nat /\ dec.dpos \in Nat
      BY DecoderFields DEF IInv, TypeOK, PlayerTypes
    <3>5. time + Len(chunk) + Len(buf) + Len(pending) + dec.fill = dec.dpos
      BY <3>2 DEF InPlace
    <3>6. dec.fill = dec.dpos
      BY <3>2, <3>3, <3>4, <3>5
    <3> QED BY <3>2, <3>6 DEF Silent
  <2>2. CASE ParamsOpen
    <3>1. ppc = "open"
      BY <2>2 DEF ParamsOpen
    <3> QED BY <3>1 DEF OpensInSilence, Silent, IInv, Threads, DecoderHolds
  <2> QED BY <2>1, <2>2
<1>3. dec \in Decoders /\ PlayerTypes /\ dec.fill \in Nat /\ dec.dpos \in Nat
  BY DecoderFields DEF IInv, TypeOK, PlayerTypes
<1>4. /\ RightSound' = RightFor(dec.sp) /\ <<>> \in Seq(RightFor(dec.sp))
      /\ Knows(dec) /\ Knows(precache) /\ ~precache.changed
  BY <1>1, RightIs, EmptySeq DEF DecodersKnow
<1>5. CASE PrecachedOpen /\ opened'
  <2>1. /\ ppc = "preopen" /\ ppc' = "preflush"
        /\ pending' = PcmUnits(dec) /\ dec' = [dec EXCEPT !.fill = 0]
    BY <1>5 DEF PrecachedOpen
  <2>2. dec.fill <= dec.dpos
    BY <1>2, <1>3, <2>1
  <2>3. pending' \in Seq(RightFor(dec.sp))
    BY <1>2, <1>3, <1>4, <2>1, <2>2, PcmUnitsRight
  <2>4. Knows(dec') /\ dec'.sp = dec.sp
    BY <1>3, <1>4, <2>1, KnowsChanged
  <2>5. SoundIsRight'
    BY <1>1, <1>2, <1>4, <2>3 DEF SoundIsRight
  <2>6. ReaderSends' /\ CanBeSent' /\ OpensInSilence' /\ DeviceFollows'
    BY <1>1, <1>2, <1>5, <2>1, <2>4
       DEF ReaderSends, CanBeSent, OpensInSilence, DeviceFollows, Usable
  <2>7. DecodersKnow'
    BY <1>1, <1>4, <2>4 DEF DecodersKnow, Knows
  <2> QED BY <2>5, <2>6, <2>7
<1>6. CASE ParamsOpen \/ ~opened'
  <2>1. /\ UNCHANGED <<pending, dec>>
        /\ (opened' /\ ppc' = "finished") \/ (~opened' /\ ppc' \in {"after", "delete"})
    BY <1>1, <1>6 DEF PrecachedOpen, ParamsOpen, locals
  <2>2. SoundIsRight'
    BY <1>1, <1>2, <1>4, <2>1 DEF SoundIsRight
  <2>3. ReaderSends' /\ CanBeSent' /\ OpensInSilence'
    BY <1>1, <1>2, <2>1 DEF ReaderSends, CanBeSent, OpensInSilence, Usable
  <2>4. DeviceFollows'
    BY <1>1, <2>1 DEF DeviceFollows, Usable, DevicePlaces, SoundPlaces, SeekPlaces, LoopPlaces
  <2>5. DecodersKnow'
    BY <1>1, <1>4, <2>1 DEF DecodersKnow, Knows
  <2> QED BY <2>2, <2>3, <2>4, <2>5
<1> QED BY <1>5, <1>6

(* What a decoder gives the buffer has the parameters of the device, and   *)
(* so has what of it enters the buffer.                                    *)
LEMMA GivingKeepsParams ==
  ASSUME IInv, ParamsHold, StartFlush
  PROVE  ParamsHold'
<1> USE DEF ParamsHold
<1>1. /\ ppc = "flush" /\ UNCHANGED <<buf, chunk, stop, rpc, devClosed, opened, devSp, precache>>
      /\ \/ ppc' = "params" /\ UNCHANGED <<pending, dec>>
         \/ /\ ppc' = "put" /\ ~dec.changed
            /\ pending' = PcmUnits(dec) /\ dec' = [dec EXCEPT !.fill = 0]
  BY DEF StartFlush, MayFlush, obVars, pre, device
<1>2. InPlace /\ dec.song # 0 /\ dec \in Decoders /\ PlayerTypes
  BY <1>1 DEF IInv, SoundHolds, SoundPlaces, LoopPlaces, Threads, DecoderHolds, TypeOK, PlayerTypes
<1>3. dec.fill <= dec.dpos
  <2>1. /\ time \in Nat /\ Len(chunk) \in Nat /\ Len(buf) \in Nat /\ Len(pending) \in Nat
        /\ dec.dpos \in Nat /\ dec.fill \in Nat
    BY <1>2, LenProperties, DecoderFields DEF IInv, TypeOK, OutBufTypes, PlayerTypes
  <2>2. time + Len(chunk) + Len(buf) + Len(pending) + dec.fill = dec.dpos
    BY <1>2 DEF InPlace
  <2> QED BY <2>1, <2>2
<1>4. Knows(dec) /\ Knows(precache) /\ ~precache.changed
  BY DEF DecodersKnow
<1>5. Knows(dec') /\ dec'.sp = dec.sp /\ dec'.changed = dec.changed
  BY <1>1, <1>2, <1>4, KnowsChanged
<1>6. pending' \in Seq(RightSound) /\ (pending' # <<>> => pending # <<>> \/ Usable)
  <2>1. CASE ppc' = "params"
    BY <1>1, <2>1 DEF SoundIsRight
  <2>2. CASE ppc' = "put"
    <3>1. /\ pending' = PcmUnits(dec) /\ Len(pending') = dec.fill /\ pending' \in Seq(Unit)
          /\ ~dec.changed
      BY <1>1, <1>2, <2>2, PcmUnitsAre
    <3>2. CASE dec.fill = 0
      <4>1. pending' = <<>>
        BY <3>1, <3>2, EmptySeq
      <4> QED BY <4>1, EmptySeq
    <3>3. CASE dec.fill # 0
      <4>1. dec.sp # "none"
        <5>1. dec.fill \in Nat
          BY <1>2, DecoderFields
        <5>2. dec.fill > 0
          BY <3>3, <5>1
        <5> QED BY <1>4, <5>2 DEF Knows
      <4>2. Usable /\ devSp = dec.sp
        BY <1>1, <3>1, <4>1 DEF DeviceFollows, DevicePlaces, SoundPlaces, LoopPlaces
      <4>3. pending' \in Seq(RightFor(dec.sp))
        BY <1>2, <1>3, <1>4, <3>1, PcmUnitsRight
      <4> QED BY <4>2, <4>3 DEF RightSound
    <3> QED BY <3>2, <3>3
  <2> QED BY <1>1, <2>1, <2>2
<1>7. SoundIsRight'
  BY <1>1, <1>6, RightIs DEF SoundIsRight
<1>8. ReaderSends' /\ CanBeSent' /\ OpensInSilence'
  BY <1>1, <1>6 DEF ReaderSends, CanBeSent, OpensInSilence, Usable
<1>9. DecodersKnow'
  BY <1>1, <1>4, <1>5 DEF DecodersKnow, Knows
<1>10. DeviceFollows'
  BY <1>1, <1>5 DEF DeviceFollows, Usable, DevicePlaces, SoundPlaces, LoopPlaces
<1> QED BY <1>7, <1>8, <1>9, <1>10

LEMMA WritingKeepsParams ==
  ASSUME IInv, ParamsHold, FlushWrites
  PROVE  ParamsHold'
<1> USE DEF ParamsHold
<1> DEFINE k == Fitting(pending)
<1>1. /\ pending # <<>> /\ ~Full /\ ppc \in {"put", "preflush"} /\ ppc' = ppc
      /\ buf' = buf \o SubSeq(pending, 1, k) /\ pending' = SubSeq(pending, k + 1, Len(pending))
      /\ UNCHANGED <<chunk, stop, devClosed, opened, devSp, dec, precache>>
      /\ rpc' = "send" => rpc = "send"
  BY DEF FlushWrites, PutSome, Signalled, flags, pre, device
<1>2. k \in 0..Len(pending)
  BY <1>1, FittingIs DEF IInv, TypeOK, PlayerTypes
<1> HIDE DEF k
<1>3. /\ SubSeq(pending, 1, k) \in Seq(RightSound)
      /\ SubSeq(pending, k + 1, Len(pending)) \in Seq(RightSound)
      /\ buf \in Seq(RightSound) /\ chunk \in Seq(RightSound)
  BY <1>2, SplitSeq DEF SoundIsRight
<1>4. buf' \in Seq(RightSound) /\ pending' \in Seq(RightSound) /\ chunk' \in Seq(RightSound)
  BY <1>1, <1>3, ConcatProperties
<1>5. RightSound' = RightSound
  BY <1>1, RightIs
<1>6. SoundIsRight'
  BY <1>4, <1>5 DEF SoundIsRight
<1>7. ReaderSends' /\ CanBeSent' /\ OpensInSilence'
  BY <1>1 DEF ReaderSends, CanBeSent, OpensInSilence, Usable
<1>8. DecodersKnow'
  BY <1>1 DEF DecodersKnow, Knows
<1>9. DeviceFollows'
  BY <1>1 DEF DeviceFollows, Usable, DevicePlaces, SoundPlaces, SeekPlaces, LoopPlaces
<1> QED BY <1>6, <1>7, <1>8, <1>9

LEMMA InitParams == Init => ParamsHold
<1> SUFFICES ASSUME Init PROVE ParamsHold
  OBVIOUS
<1>1. chunk = <<>> /\ buf = <<>> /\ pending = <<>> /\ rpc = "top" /\ ppc = "none"
  BY DEF Init, OutBufInit
<1>2. SoundIsRight
  BY <1>1, EmptySeq DEF SoundIsRight
<1>3. DecodersKnow
  BY KnowsNew DEF Init, DecodersKnow
<1>4. ReaderSends /\ CanBeSent /\ OpensInSilence /\ DeviceFollows
  BY <1>1 DEF ReaderSends, CanBeSent, OpensInSilence, DeviceFollows, DevicePlaces, SoundPlaces,
     SeekPlaces, LoopPlaces
<1> QED BY <1>2, <1>3, <1>4 DEF ParamsHold

LEMMA ParamsKept ==
  ASSUME IInv, ParamsHold, [Next]_vars
  PROVE  ParamsHold'
<1>1. CASE PlayerStep
  BY <1>1, ChoosingKeepsParams, LoopKeepsParams, CloseKeepsParams, OpeningKeepsParams,
     GivingKeepsParams, WritingKeepsParams DEF PlayerStep
<1>2. CASE Next /\ ~PlayerStep
  BY <1>2, OthersKeepParams
<1>3. CASE UNCHANGED vars
  <2>1. /\ UNCHANGED <<chunk, pending, opened, devSp, devClosed, rpc, buf, stop>>
        /\ UNCHANGED <<ppc, dec, precache>>
    BY <1>3 DEF vars, obVars, locals, pre, device
  <2>2. ppc' = "open" => chunk' = <<>> /\ buf' = <<>>
    BY <2>1 DEF ParamsHold, OpensInSilence, Silent
  <2>3. Knows(dec') /\ Knows(precache') /\ ~precache'.changed
    BY <2>1 DEF ParamsHold, DecodersKnow
  <2> QED BY <2>1, <2>2, <2>3, QuietStepKeepsParams
<1> QED BY <1>1, <1>2, <1>3

-----------------------------------------------------------------------------
(* The theorems                                                            *)

(* While a song is played, what the reader has is that song from the place *)
(* the time tells, put there since the buffer was last reset, however      *)
(* stops, seeks, pauses, failures of the device and precached decoders     *)
(* came before (player.cc:305-435, out_buf.cc:174-252), if no song is      *)
(* shorter than a decoder's buffer.                                        *)
THEOREM EngineSoundInPlace ==
  ASSUME LongSongs
  PROVE  Spec => []SoundInPlace
<1>1. IInv => SoundInPlace
  <2> SUFFICES ASSUME IInv, ppc \in LoopPlaces
               PROVE  \A i \in 1..Len(Held) :
                        Held[i] = [stream |-> stream, song |-> dec.song, pos |-> time + i - 1]
    BY DEF SoundInPlace
  <2>1. InPlace
    BY DEF IInv, SoundHolds, SoundPlaces
  <2>2. chunk \in Seq(Unit) /\ buf \in Seq(Unit) /\ time \in Nat
    BY DEF IInv, TypeOK, OutBufTypes
  <2>3. IsPiece(Held, stream, dec.song, time)
    BY <2>1, <2>2, PiecesJoin DEF InPlace, Held
  <2> QED BY <2>3 DEF IsPiece
<1> QED BY <1>1, IInvHolds, PTL

(* A song left without a request to leave it has been sent to the device,  *)
(* but for what the reader is sending and what is still in the decoder's   *)
(* buffer (player.cc:403-420), if no song is shorter than that buffer.     *)
THEOREM EnginePlayedOut ==
  ASSUME LongSongs
  PROVE  Spec => []PlayedOut
<1>1. IInv => PlayedOut
  <2> SUFFICES ASSUME IInv, ppc = "delete", ~stopped
               PROVE  buf = <<>> /\ time + Len(chunk) + dec.fill = dec.dpos
    BY DEF PlayedOut
  <2>1. buf = <<>> /\ pending = <<>>
    BY DEF IInv, BufferHolds, Threads, DecoderHolds
  <2>2. Len(buf) = 0 /\ Len(pending) = 0
    BY <2>1, EmptySeq
  <2>3. time \in Nat /\ Len(chunk) \in Nat /\ dec.dpos \in Nat /\ dec.fill \in Nat
    BY LenProperties, DecoderFields DEF IInv, TypeOK, OutBufTypes, PlayerTypes
  <2>4. time + Len(chunk) + Len(buf) + Len(pending) + dec.fill = dec.dpos
    BY DEF IInv, SoundHolds, InPlace
  <2>5. time + Len(chunk) + dec.fill = dec.dpos
    BY <2>2, <2>3, <2>4
  <2> QED BY <2>1, <2>5
<1> QED BY <1>1, IInvHolds, PTL

(* player() returns with the reader idle, and with sound in the buffer     *)
(* only if the buffer is stopped (player.cc:427), if no song is shorter    *)
(* than a decoder's buffer.                                                *)
THEOREM EngineNothingLeft ==
  ASSUME LongSongs
  PROVE  Spec => []NothingLeft
<1>1. IInv => NothingLeft
  BY DEF IInv, BufferHolds, BetweenSongs, Quiet, NothingLeft
<1> QED BY <1>1, IInvHolds, PTL

(* Each piece of sound is sent to a device opened with its parameters      *)
(* (player.cc:405-414, audio.cc:377-462), whatever songs, pauses, seeks    *)
(* and failures of the device came before, but for the songs whose         *)
(* parameters change, if no song is shorter than a decoder's buffer.       *)
THEOREM EngineRightParameters ==
  ASSUME LongSongs
  PROVE  Spec => []RightParameters
<1>1. ParamsHold => RightParameters
  <2> SUFFICES ASSUME ParamsHold, rpc = "send"
               PROVE  /\ opened
                      /\ \A i \in 1..Len(chunk) :
                           OneFormat(chunk[i].song)
                             => Song[chunk[i].song][chunk[i].pos + 1] = devSp
    BY DEF RightParameters
  <2>1. opened /\ chunk \in Seq(RightFor(devSp))
    BY DEF ParamsHold, ReaderSends, SoundIsRight, RightSound
  <2>2. \A i \in 1..Len(chunk) : chunk[i] \in RightFor(devSp)
    BY <2>1, ElementOfSeq
  <2> QED BY <2>1, <2>2 DEF RightFor
<1>2. IInv /\ ParamsHold /\ [Next]_vars => ParamsHold'
  BY ParamsKept
<1> QED BY <1>1, <1>2, InitParams, IInvHolds, PTL DEF Spec

(* The playing thread comes to a song with no skip on its mind, and gives  *)
(* up a stop only for the end of the song.                                 *)
LEMMA PlayerKeepsSkip ==
  ASSUME TypeOK, PlayerStep, ppc' \in SongPlaces, ~SkipPending'
  PROVE  ppc \in SongPlaces /\ ~SkipPending
<1> USE DEF SongPlaces, LoopPlaces, SkipPending, PlayerGoes
<1>1. CASE ClearSkips
  BY <1>1 DEF ClearSkips
<1>2. CASE TakeRequest
  <2>1. request \in {"nothing", "stop", "seek"}
    BY DEF TypeOK, ServerTypes
  <2> QED BY <1>2, <2>1 DEF TakeRequest, server
<1>3. CASE \/ PickSong \/ TimeZero \/ Advance \/ EndPlaying \/ CloseDevice \/ PlayerReset
           \/ JoinPrecache \/ PrecachedOpen \/ PrecachedReady \/ NewDecoder \/ StartPlaying
           \/ InstallCallback
  BY <1>3 DEF PickSong, TimeZero, Advance, EndPlaying, CloseDevice, PlayerReset, JoinPrecache,
     PrecachedOpen, PrecachedReady, NewDecoder, StartPlaying, InstallCallback, requests, server
<1>4. CASE \/ Decode \/ CheckRoom \/ CheckHeld \/ StartPrecache \/ WaitRequest \/ PlayerStop
           \/ PlayerStopped \/ PlayerSeek \/ PlayerSeekFails \/ SeekStop \/ SeekStopped
           \/ SeekReset \/ SeekTime
  BY <1>4 DEF Decode, CheckRoom, CheckHeld, StartPrecache, WaitRequest, PlayerStop,
     PlayerStopped, PlayerSeek, PlayerSeekFails, SeekStop, SeekStopped, SeekReset, SeekTime,
     requests, server
<1>5. CASE \/ StartFlush \/ FlushWrites \/ Flushed \/ CheckParams \/ FlushSleeps
           \/ WaitSleeps
           \/ ParamsWaited \/ ParamsOpen \/ CheckFinished \/ DeleteDecoder \/ LastWaited
           \/ TimeZeroAfter
  BY <1>5 DEF StartFlush, FlushWrites, Flushed, CheckParams, FlushSleeps, WaitSleeps,
     ParamsWaited,
     ParamsOpen, CheckFinished, DeleteDecoder, LastWaited, TimeZeroAfter, requests, server
<1> QED BY <1>1, <1>2, <1>3, <1>4, <1>5 DEF PlayerStep

LEMMA OthersKeepSkip ==
  ASSUME TypeOK, ServerHolds, Next, ~PlayerStep, ~PostSeek, ppc' \in SongPlaces, ~SkipPending'
  PROVE  ppc \in SongPlaces /\ ~SkipPending
<1>1. ppc \in SongPlaces
  BY OthersMovePlayer DEF SongPlaces, LoopPlaces
<1>2. ~SkipPending
  <2> USE DEF SkipPending
  <2>1. CASE PrecacheRuns \/ ReaderMoves
    BY <2>1 DEF PrecacheRuns, ReaderMoves, ReaderRuns, CallbackNotifies, CallbackReturns,
       ReaderCloses, ReaderReopens, requests, server
  <2>2. CASE CommandHandled
    <3>1. CASE CmdStop \/ CmdPause \/ CmdUnpause
      BY <3>1 DEF CmdStop, CmdPause, CmdUnpause, Command, requests
    <3>2. ASSUME NEW s \in Songs \cup {-1}, CmdPlay(s) PROVE ~SkipPending
      BY <3>2 DEF CmdPlay, Command
    <3>3. ASSUME NEW c \in Commands, CmdSkip(c) PROVE ~SkipPending
      BY <3>3 DEF CmdSkip
    <3>4. ASSUME NEW c \in Commands, NEW by \in -1..1, CmdSeek(c, by) PROVE ~SkipPending
      BY <3>4 DEF CmdSeek, Command, requests
    <3> QED BY <2>2, <3>1, <3>2, <3>3, <3>4 DEF CommandHandled
  <2>3. CASE ServerInCall
    <3>1. CASE PostStop
      BY <3>1 DEF PostStop
    <3>2. CASE JoinPlayer
      BY <3>2 DEF JoinPlayer, SongPlaces, LoopPlaces
    <3>3. CASE StartPlayer
      BY <3>3 DEF StartPlayer, SongPlaces, LoopPlaces
    <3>4. CASE SetState
      BY <3>4 DEF SetState, requests
    <3> QED BY <2>3, <3>1, <3>2, <3>3, <3>4 DEF ServerInCall
  <2> QED BY <2>1, <2>2, <2>3 DEF Next
<1> QED BY <1>1, <1>2

(* While a song is played on after the user asked for another one, the     *)
(* request to end it is pending, and only a seek takes its place           *)
(* (audio.cc:323-337, player.cc:452-477), whatever the songs are.          *)
THEOREM EngineSkipKept == Spec => SkipKept
<1> DEFINE Kept == ppc' \in SongPlaces /\ ~SkipPending'
                     => PostSeek \/ (ppc \in SongPlaces /\ ~SkipPending)
<1>1. ASSUME TypeOK, Threads, Next
      PROVE  Kept
  <2>1. SUFFICES ASSUME ppc' \in SongPlaces, ~SkipPending', ~PostSeek
                 PROVE  ppc \in SongPlaces /\ ~SkipPending
    OBVIOUS
  <2>2. CASE PlayerStep
    BY <1>1, <2>1, <2>2, PlayerKeepsSkip
  <2>3. CASE ~PlayerStep
    BY <1>1, <2>1, <2>3, OthersKeepSkip DEF Threads
  <2> QED BY <2>2, <2>3
<1> HIDE DEF Kept
<1>2. TypeOK /\ Threads /\ [Next]_vars => [Kept]_vars
  BY <1>1
<1>3. Spec => [][Kept]_vars
  BY <1>2, ThreadsHold, PTL DEF Spec
<1> QED BY <1>3 DEF SkipKept, Kept
================================================================================
