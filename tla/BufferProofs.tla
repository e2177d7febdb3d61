----------------------------- MODULE BufferProofs -----------------------------
(***************************************************************************)
(* What is proved of the output buffer, whatever the sizes of the buffer   *)
(* and of a chunk, of the data put and of the streams: its type invariant, *)
(* that no sound of before a stop or a seek is left after the reset, and   *)
(* that the buffer with its users implements the stream of SoundStream;    *)
(* and of the ring of bytes under it (FifoBuf), for every size: that it    *)
(* copies inside its array and implements the queue of Fifo.               *)
(***************************************************************************)
EXTENDS OutBufSystem, FifoBuf, SequenceLemmas

-----------------------------------------------------------------------------
(* What is put, and what is taken                                          *)

LEMMA LeastIsBounded ==
  ASSUME NEW a \in Nat, NEW b \in Nat
  PROVE  Least(a, b) \in 0..a /\ Least(a, b) \in 0..b
BY DEF Least

(* What is put is a sequence of k units.                                   *)
LEMMA PutUnits ==
  ASSUME TypeOK, NEW k \in 1..Batch, nextPos + k <= MaxPos,
         NEW u, u = [i \in 1..k |-> [stream |-> stream, pos |-> nextPos + i - 1]]
  PROVE  u \in Seq(Unit) /\ Len(u) = k
<1>1. \A i \in 1..k : [stream |-> stream, pos |-> nextPos + i - 1] \in Unit
  BY EnvAssumption DEF TypeOK, Unit
<1>2. u \in [1..k -> Unit] /\ k \in Nat
  BY <1>1, EnvAssumption
<1>3. u \in Seq(Unit)
  BY <1>2, SeqDef
<1> QED
  BY <1>2, <1>3, LenProperties

(* What out_buf_put() finds room for, and what is left of it.              *)
LEMMA PutFits ==
  ASSUME TypeOK, ~Full, NEW us \in Seq(Unit)
  PROVE  /\ Fitting(us) \in 0..Len(us)
         /\ Len(buf) + Fitting(us) <= BufSize
         /\ SubSeq(us, 1, Fitting(us)) \in Seq(Unit)
         /\ Len(SubSeq(us, 1, Fitting(us))) = Fitting(us)
<1>1. Len(us) \in Nat /\ Len(buf) \in Nat /\ BufSize \in Nat /\ Len(buf) < BufSize
  BY LenProperties, BufSizeAssumption DEF TypeOK, Full
<1>2. BufSize - Len(buf) \in Nat
  BY <1>1
<1>3. Fitting(us) \in 0..Len(us) /\ Fitting(us) \in 0..BufSize - Len(buf)
  BY <1>1, <1>2, LeastIsBounded DEF Fitting
<1> QED
  BY <1>1, <1>3, SplitSeq

(* What the reader takes, and what it leaves.                              *)
LEMMA TakeSplits ==
  ASSUME TypeOK
  PROVE  /\ Least(Chunk, Len(buf)) \in 0..Len(buf)
         /\ Least(Chunk, Len(buf)) <= Chunk
         /\ SubSeq(buf, 1, Least(Chunk, Len(buf))) \in Seq(Unit)
         /\ Len(SubSeq(buf, 1, Least(Chunk, Len(buf)))) = Least(Chunk, Len(buf))
         /\ Rest(Least(Chunk, Len(buf))) \in Seq(Unit)
         /\ Len(Rest(Least(Chunk, Len(buf)))) = Len(buf) - Least(Chunk, Len(buf))
<1>1. Len(buf) \in Nat /\ Chunk \in Nat /\ buf \in Seq(Unit)
  BY LenProperties, ChunkAssumption DEF TypeOK
<1>2. Least(Chunk, Len(buf)) \in 0..Len(buf) /\ Least(Chunk, Len(buf)) \in 0..Chunk
  BY <1>1, LeastIsBounded
<1> QED
  BY <1>1, <1>2, SplitSeq DEF Rest

-----------------------------------------------------------------------------
(* Type correctness                                                        *)

LEMMA InitTypeOK == Init => TypeOK
<1> SUFFICES ASSUME Init PROVE TypeOK
  OBVIOUS
<1>1. <<>> \in Seq(Unit) /\ Len(<<>>) = 0
  BY EmptySeq
<1>2. buf = <<>> /\ chunk = <<>> /\ pending = <<>> /\ played = 0
  BY DEF Init, OutBufInit
<1>3. /\ buf \in Seq(Unit) /\ chunk \in Seq(Unit) /\ pending \in Seq(Unit)
      /\ Len(buf) <= BufSize /\ Len(chunk) <= Chunk /\ played \in 0..Len(chunk)
  <2>1. Len(buf) = 0 /\ Len(chunk) = 0
    BY <1>1, <1>2
  <2> QED
    BY <1>1, <1>2, <2>1, BufSizeAssumption, ChunkAssumption
<1>4. /\ pause \in BOOLEAN /\ stop \in BOOLEAN /\ exit \in BOOLEAN
      /\ resetDev \in BOOLEAN /\ callback \in BOOLEAN /\ waiting \in BOOLEAN
      /\ devClosed \in BOOLEAN /\ hw \in BOOLEAN
  BY DEF Init, OutBufInit
<1>5. /\ time \in Nat /\ nextPos \in 0..MaxPos /\ stream \in 0..MaxStreams
      /\ pauses \in 0..MaxPauses /\ sleepers \subseteq {Producer}
  BY EnvAssumption DEF Init, OutBufInit
<1>6. rpc \in ReaderPlaces /\ ppc \in ProducerPlaces
  BY DEF Init, OutBufInit, ReaderPlaces, ProducerPlaces
<1> QED
  BY <1>3, <1>4, <1>5, <1>6 DEF TypeOK

(* The steps of the reading thread.                                        *)
LEMMA ReaderTypeOK ==
  ASSUME TypeOK, ReaderMoves
  PROVE  TypeOK'
<1> USE DEF TypeOK, flags, producer, ReaderPlaces, ProducerPlaces
<1>0. <<>> \in Seq(Unit) /\ Len(<<>>) = 0
  BY EmptySeq
<1>1. Len(buf) \in Nat /\ Len(chunk) \in Nat /\ BufSize \in Nat /\ Chunk \in Nat
  BY LenProperties, BufSizeAssumption, ChunkAssumption
<1>2. UNCHANGED <<producer, pauses>>
  BY DEF ReaderMoves
<1>3. CASE ReaderTop
  <2>1. buf' \in Seq(Unit) /\ Len(buf') <= BufSize
    BY <1>0, <1>1, <1>3 DEF ReaderTop, KeptAtTop
  <2> QED
    BY <1>2, <1>3, <2>1 DEF ReaderTop, DeviceReset
<1>4. CASE ReaderCallbackDone
  BY <1>2, <1>4 DEF ReaderCallbackDone
<1>5. CASE ReaderReady
  BY <1>2, <1>5 DEF ReaderReady, AsleepAfterBroadcast
<1>6. CASE ReaderClosed
  BY <1>2, <1>6 DEF ReaderClosed
<1>7. CASE ReaderPast
  BY <1>2, <1>7 DEF ReaderPast
<1>8. CASE ReaderOpened
  BY ZenonT(20), <1>2, <1>8 DEF ReaderOpened
<1>9. CASE ReaderExit
  BY <1>2, <1>9 DEF ReaderExit
<1>10. CASE ReaderAgain
  BY <1>2, <1>10 DEF ReaderAgain
<1>11. CASE ReaderTake
  <2>1. /\ buf' \in Seq(Unit) /\ Len(buf') <= BufSize
        /\ chunk' \in Seq(Unit) /\ Len(chunk') <= Chunk /\ Len(chunk') \in Nat
    <3> DEFINE m == Least(Chunk, Len(buf))
    <3>1. buf' = Rest(m) /\ chunk' = SubSeq(buf, 1, m)
      BY <1>11 DEF ReaderTake
    <3>2. /\ m \in 0..Len(buf) /\ m <= Chunk /\ chunk' \in Seq(Unit) /\ Len(chunk') = m
          /\ buf' \in Seq(Unit) /\ Len(buf') = Len(buf) - m
      BY <3>1, TakeSplits
    <3> HIDE DEF m
    <3> QED BY <1>1, <3>2, LenProperties
  <2> QED
    BY <1>2, <1>11, <2>1 DEF ReaderTake
<1>12. CASE ReaderSend
  BY <1>1, <1>2, <1>12 DEF ReaderSend
<1>13. CASE ReaderSent
  <2>1. time' \in Nat
    BY <1>1, <1>13 DEF ReaderSent, SentTime
  <2>2. chunk' \in Seq(Unit) /\ Len(chunk') = 0 /\ played' = 0
    BY <1>0, <1>13 DEF ReaderSent
  <2> QED
    BY <1>1, <1>2, <1>13, <2>1, <2>2 DEF ReaderSent
<1> QED
  BY <1>3, <1>4, <1>5, <1>6, <1>7, <1>8, <1>9, <1>10, <1>11, <1>12, <1>13
     DEF ReaderMoves, ReaderStep

(* The steps of the producer and of the controller.                        *)
LEMMA UsersTypeOK ==
  ASSUME TypeOK, Next, ~ReaderMoves
  PROVE  TypeOK'
<1> USE DEF TypeOK, flags, reader, obVars, producer, ReaderPlaces, ProducerPlaces
<1>0. <<>> \in Seq(Unit) /\ Len(<<>>) = 0
  BY EmptySeq
<1>1. Len(buf) \in Nat /\ Len(chunk) \in Nat /\ BufSize \in Nat /\ MaxPos \in Nat
  BY LenProperties, BufSizeAssumption, EnvAssumption
<1>2. MaxStreams \in Nat /\ MaxPauses \in Nat
  BY EnvAssumption
<1>3. ASSUME NEW k \in 1..Batch, PutCall(k) PROVE TypeOK'
  <2>1. pending' \in Seq(Unit)
    BY <1>3, PutUnits DEF PutCall
  <2>2. nextPos' \in 0..MaxPos
    BY <1>1, <1>3, EnvAssumption DEF PutCall
  <2>3. ppc' = "put" /\ UNCHANGED <<obVars, stream, pauses>>
    BY <1>3 DEF PutCall
  <2> QED
    BY <2>1, <2>2, <2>3
<1>4. CASE PutWaits
  BY <1>4 DEF PutWaits, PutSleep, Sleep
<1>5. CASE PutWrites
  <2>1. ~Full /\ pending \in Seq(Unit)
    BY <1>5 DEF PutWrites, PutSome
  <2>2. /\ buf' \in Seq(Unit)
        /\ Len(buf') = Len(buf) + Len(SubSeq(pending, 1, Fitting(pending)))
    BY <1>5, <2>1, PutFits, ConcatProperties DEF PutWrites, PutSome
  <2>3. Len(buf') <= BufSize
    BY <1>1, <2>1, <2>2, PutFits
  <2>4. pending' \in Seq(Unit)
    BY <1>5, <2>1, PutFits, SplitSeq DEF PutWrites
  <2> QED
    BY <1>5, <2>2, <2>3, <2>4 DEF PutWrites, PutSome, Signalled
<1>6. CASE StopBegins
  BY <1>6 DEF StopBegins, StopCall, Signalled, Sleep
<1>7. CASE StopEnds
  BY <1>7 DEF StopEnds, StopReturn
<1>8. CASE StreamReset
  <2>1. buf' \in Seq(Unit) /\ Len(buf') <= BufSize
    BY <1>0, <1>1, <1>8 DEF StreamReset, Reset, KeptByReset
  <2>2. stream' \in 0..MaxStreams
    BY <1>2, <1>8 DEF StreamReset
  <2> QED
    BY <1>8, <2>1, <2>2 DEF StreamReset, Reset
<1>9. ASSUME NEW v \in 0..MaxPos, TimeIsSet(v) PROVE TypeOK'
  BY <1>1, <1>9 DEF TimeIsSet, TimeSet
<1>10. CASE WaitBegins
  BY <1>10 DEF WaitBegins
<1>11. CASE WaitSleeps
  BY <1>11 DEF WaitSleeps, WaitSleep, Sleep
<1>12. CASE WaitEnds
  BY <1>12 DEF WaitEnds, WaitReturn
<1>13. CASE DeviceDone
  BY <1>13 DEF DeviceDone
<1>14. CASE InstallCallback
  BY <1>14 DEF InstallCallback, SetCallback
<1>15. CASE FreeBegins
  BY <1>15 DEF FreeBegins, ExitCall, Signalled
<1>16. CASE FreeEnds
  BY <1>0, <1>1, <1>16 DEF FreeEnds, ExitJoin
<1>17. CASE ControlPause
  BY <1>2, <1>17 DEF ControlPause, Pause
<1>18. CASE ControlUnpause
  BY <1>18 DEF ControlUnpause, Unpause, Signalled
<1>19. CASE Drain
  <2>1. hw' = FALSE
    BY <1>19 DEF Drain, DeviceDrains
  <2>2. UNCHANGED <<buf, flags, time, reader, sleepers, producer, pauses>>
    BY <1>19 DEF Drain, DeviceDrains
  <2>3. /\ buf' \in Seq(Unit) /\ chunk' \in Seq(Unit) /\ pending' \in Seq(Unit)
        /\ Len(buf') <= BufSize /\ Len(chunk') <= Chunk /\ played' \in 0..Len(chunk')
    BY <2>2
  <2>4. /\ pause' \in BOOLEAN /\ stop' \in BOOLEAN /\ exit' \in BOOLEAN
        /\ resetDev' \in BOOLEAN /\ callback' \in BOOLEAN /\ waiting' \in BOOLEAN
        /\ devClosed' \in BOOLEAN /\ hw' \in BOOLEAN
    BY <2>1, <2>2
  <2> QED
    BY <2>2, <2>3, <2>4
<1>20. CASE Done
  BY <1>20 DEF Done, vars
<1> QED
  BY <1>3, <1>4, <1>5, <1>6, <1>7, <1>8, <1>9, <1>10, <1>11, <1>12, <1>13,
     <1>14, <1>15, <1>16, <1>17, <1>18, <1>19, <1>20 DEF Next

(* Every variable keeps its type (out_buf.cc:6-36), the buffer its size    *)
(* and the chunk the reader takes its limit, whatever the sizes.           *)
THEOREM TypeCorrect == Spec => []TypeOK
<1>1. TypeOK /\ [Next]_vars => TypeOK'
  <2> SUFFICES ASSUME TypeOK, [Next]_vars PROVE TypeOK'
    OBVIOUS
  <2>1. CASE ReaderMoves
    BY <2>1, ReaderTypeOK
  <2>2. CASE Next /\ ~ReaderMoves
    BY <2>2, UsersTypeOK
  <2>3. CASE UNCHANGED vars
    BY <2>3 DEF vars, obVars, producer, TypeOK
  <2> QED
    BY <2>1, <2>2, <2>3
<1> QED
  BY InitTypeOK, <1>1, PTL DEF Spec

-----------------------------------------------------------------------------
(* The sound between the producer and the device                           *)

(* A step that moves no sound and leaves the time and the stream alone.    *)
LEMMA SoundUnmoved ==
  ASSUME HeldInOrder, UNCHANGED <<buf, chunk, pending, stream, nextPos, time>>,
         Timed' => Timed
  PROVE  HeldInOrder'
BY DEF HeldInOrder

LEMMA PendingUnmoved ==
  ASSUME PendingIsNext, UNCHANGED <<pending, stream, nextPos>>,
         ppc = "put" => ppc' = "put"
  PROVE  PendingIsNext'
BY DEF PendingIsNext

(* A buffer and a chunk that are empty are in any order.                   *)
LEMMA NothingInOrder ==
  ASSUME buf' = <<>>, chunk' = <<>>, Timed' => time' + Len(pending') = nextPos',
         time' \in Nat, pending' \in Seq(Unit)
  PROVE  HeldInOrder'
<1>1. Len(buf') = 0 /\ Len(chunk') = 0 /\ Len(pending') \in Nat
  BY EmptySeq, LenProperties
<1> QED
  BY <1>1 DEF HeldInOrder

LEMMA InitAccounted == Init => SoundAccounted
<1> SUFFICES ASSUME Init PROVE SoundAccounted
  OBVIOUS
<1>1. Len(<<>>) = 0
  BY EmptySeq
<1>2. buf = <<>> /\ chunk = <<>> /\ pending = <<>> /\ time = 0 /\ nextPos = 0
  BY DEF Init, OutBufInit
<1>3. HeldInOrder
  BY <1>1, <1>2 DEF HeldInOrder
<1>4. PendingIsNext
  BY <1>1, <1>2 DEF PendingIsNext
<1>5. ReaderHolds /\ StopHolds
  BY <1>2 DEF ReaderHolds, StopHolds, Init, OutBufInit
<1> QED
  BY <1>3, <1>4, <1>5 DEF SoundAccounted

(* The reader taking a chunk from the buffer.                              *)
LEMMA TakeAccounted ==
  ASSUME TypeOK, SoundAccounted, ReaderTake, UNCHANGED <<producer, pauses>>
  PROVE  SoundAccounted'
<1> DEFINE k == Least(Chunk, Len(buf))
<1> USE DEF flags, producer
<1>1. Len(chunk) = 0 /\ Len(buf) \in Nat /\ time \in Nat /\ Len(pending) \in Nat
  BY EmptySeq, LenProperties DEF ReaderTake, SoundAccounted, ReaderHolds, TypeOK
<1>2. /\ k \in 0..Len(buf) /\ Len(chunk') = k /\ Len(buf') = Len(buf) - k
      /\ \A i \in 1..k : chunk'[i] = buf[i]
      /\ \A i \in 1..Len(buf) - k : buf'[i] = buf[k + i]
  BY TakeSplits, SplitSeq DEF ReaderTake, Rest, TypeOK
<1>3. HeldInOrder /\ (Timed' => Timed) /\ UNCHANGED <<time, stream, pending, nextPos>>
  BY DEF SoundAccounted, Timed, ReaderTake
<1>4. HeldInOrder'
  <2>1. ASSUME NEW i \in 1..Len(chunk')
        PROVE  chunk'[i].stream = stream' /\ (Timed' => chunk'[i].pos = time' + i - 1)
    <3>1. i \in 1..Len(buf) /\ chunk'[i] = buf[i]
      BY <1>1, <1>2
    <3> QED
      BY <1>1, <1>3, <3>1 DEF HeldInOrder
  <2>2. ASSUME NEW i \in 1..Len(buf')
        PROVE  buf'[i].stream = stream'
               /\ (Timed' => buf'[i].pos = time' + Len(chunk') + i - 1)
    <3>1. k + i \in 1..Len(buf) /\ buf'[i] = buf[k + i]
      BY <1>1, <1>2
    <3> QED
      BY <1>1, <1>2, <1>3, <3>1 DEF HeldInOrder
  <2>3. Timed' => time' + Len(chunk') + Len(buf') + Len(pending') = nextPos'
    BY <1>1, <1>2, <1>3 DEF HeldInOrder
  <2> QED
    BY <2>1, <2>2, <2>3 DEF HeldInOrder
<1>5. PendingIsNext'
  BY PendingUnmoved DEF SoundAccounted
<1>6. ReaderHolds' /\ StopHolds'
  BY DEF ReaderTake, MayTake, SoundAccounted, ReaderHolds, StopHolds
<1> QED
  BY <1>4, <1>5, <1>6 DEF SoundAccounted

(* The other steps of the reading thread.                                  *)
LEMMA ReaderAccounted ==
  ASSUME TypeOK, SoundAccounted, ReaderMoves
  PROVE  SoundAccounted'
<1> USE DEF flags, producer
<1>1. UNCHANGED <<ppc, pending, stream, nextPos>>
  BY DEF ReaderMoves
<1>2. PendingIsNext'
  BY <1>1, PendingUnmoved DEF SoundAccounted
<1>3. CASE ReaderTop
  <2>1. HeldInOrder'
    <3>1. CASE stop
      <4>1. chunk' = <<>> /\ buf' = <<>> /\ ~Timed'
        BY <1>3, <3>1 DEF ReaderTop, KeptAtTop, SoundAccounted, ReaderHolds, Timed
      <4> QED
        BY <1>1, <1>3, <4>1, NothingInOrder DEF TypeOK, ReaderTop
    <3>2. CASE ~stop
      <4>1. UNCHANGED <<buf, chunk, time>> /\ (Timed' => Timed)
        BY <1>1, <1>3, <3>2 DEF ReaderTop, KeptAtTop, Timed
      <4> QED
        BY <1>1, <4>1, SoundUnmoved DEF SoundAccounted
    <3> QED
      BY <3>1, <3>2
  <2>2. ReaderHolds' /\ StopHolds'
    BY <1>1, <1>3 DEF ReaderTop, KeptAtTop, SoundAccounted, ReaderHolds, StopHolds
  <2> QED
    BY <1>2, <2>1, <2>2 DEF SoundAccounted
<1>4. CASE ReaderTake
  BY <1>4, TakeAccounted DEF ReaderMoves
<1>5. CASE ReaderSent
  <2> DEFINE taken == Len(chunk)
  <2>1. /\ taken \in Nat /\ Len(buf) \in Nat /\ time \in Nat /\ Len(chunk') = 0
        /\ Len(pending) \in Nat
    BY <1>5, EmptySeq, LenProperties DEF ReaderSent, TypeOK
  <2>2. /\ time' = time + taken /\ buf' = buf /\ stop' = stop
        /\ chunk' = <<>> /\ rpc' = "top" /\ HeldInOrder
    BY <1>5 DEF ReaderSent, SentTime, SoundAccounted
  <2>3. Timed' => Timed
    BY <1>1, <2>2 DEF Timed
  <2>4. HeldInOrder'
    BY <1>1, <2>1, <2>2, <2>3 DEF HeldInOrder
  <2>5. ReaderHolds' /\ StopHolds'
    BY <1>1, <1>5 DEF ReaderSent, SoundAccounted, ReaderHolds, StopHolds
  <2> QED
    BY <1>2, <2>4, <2>5 DEF SoundAccounted
<1>6. CASE ReaderReady
  <2>1. ReaderHolds' /\ StopHolds'
    BY <1>1, <1>6 DEF ReaderReady, AsleepAfterBroadcast, SoundAccounted, ReaderHolds,
                      StopHolds
  <2>2. UNCHANGED <<buf, chunk, time>> /\ (Timed' => Timed)
    BY <1>1, <1>6 DEF ReaderReady, Timed
  <2> QED
    BY <1>1, <1>2, <2>1, <2>2, SoundUnmoved DEF SoundAccounted
<1>7. CASE \/ ReaderCallbackDone \/ ReaderClosed \/ ReaderPast \/ ReaderOpened
           \/ ReaderExit \/ ReaderAgain \/ ReaderSend
  <2>1. UNCHANGED <<buf, chunk, time, stop, sleepers>>
    BY <1>7 DEF ReaderCallbackDone, ReaderClosed, ReaderPast, ReaderOpened,
                ReaderExit, ReaderAgain, ReaderSend
  <2>2. Timed' => Timed
    BY <1>1, <2>1 DEF Timed
  <2>3. ReaderHolds'
    <3> USE DEF SoundAccounted, ReaderHolds
    <3>1. CASE ReaderClosed
      BY <2>1, <3>1 DEF ReaderClosed
    <3>2. CASE ReaderPast
      BY <2>1, <3>2 DEF ReaderPast
    <3>3. CASE ReaderCallbackDone \/ ReaderOpened \/ ReaderExit \/ ReaderAgain
      <4>1. /\ rpc \notin {"wait", "woken", "send"} /\ rpc' \notin {"wait", "woken"}
            /\ waiting' = waiting
        BY <3>3 DEF ReaderCallbackDone, ReaderOpened, ReaderExit, ReaderAgain
      <4> QED
        BY <2>1, <4>1
    <3>4. CASE ReaderSend
      BY <2>1, <3>4 DEF ReaderSend
    <3> QED
      BY <1>7, <3>1, <3>2, <3>3, <3>4
  <2>4. StopHolds'
    BY <1>1, <2>1 DEF SoundAccounted, StopHolds
  <2> QED
    BY <1>1, <1>2, <2>1, <2>2, <2>3, <2>4, SoundUnmoved DEF SoundAccounted
<1> QED
  BY <1>3, <1>4, <1>5, <1>6, <1>7 DEF ReaderMoves, ReaderStep

(* The producer writing what fits into the buffer.                         *)
LEMMA WriteAccounted ==
  ASSUME TypeOK, SoundAccounted, PutWrites
  PROVE  SoundAccounted'
<1> DEFINE f == Fitting(pending)
           held == Len(buf)
<1> USE DEF flags
<1>1. /\ held \in Nat /\ Len(chunk) \in Nat /\ Len(pending) \in Nat /\ time \in Nat
      /\ nextPos \in Int /\ pending \in Seq(Unit) /\ buf \in Seq(Unit)
  BY LenProperties, EnvAssumption DEF TypeOK
<1>2. /\ ppc = "put" /\ ~stop /\ ~Full /\ UNCHANGED <<chunk, time, stop, stream, nextPos>>
      /\ buf' = buf \o SubSeq(pending, 1, f)
      /\ pending' = SubSeq(pending, f + 1, Len(pending))
      /\ ppc' \in {"run", "put"} /\ (ppc' = "run" => pending' = <<>>)
  BY DEF PutWrites, PutSome
<1>3. /\ f \in 0..Len(pending) /\ SubSeq(pending, 1, f) \in Seq(Unit)
      /\ Len(SubSeq(pending, 1, f)) = f
  BY <1>1, <1>2, PutFits
<1>4. /\ Len(pending') = Len(pending) - f
      /\ \A i \in 1..f : SubSeq(pending, 1, f)[i] = pending[i]
      /\ \A i \in 1..Len(pending) - f : pending'[i] = pending[f + i]
  BY <1>1, <1>2, <1>3, SplitSeq
<1>5. /\ Len(buf') = held + f
      /\ \A i \in 1..held + f : buf'[i] = IF i <= held THEN buf[i] ELSE SubSeq(pending, 1, f)[i - held]
  BY <1>1, <1>2, <1>3, ConcatProperties
<1>6. Timed /\ HeldInOrder /\ PendingIsNext
  BY <1>2 DEF Timed, SoundAccounted
<1>7. time + Len(chunk) + held + Len(pending) = nextPos
  BY <1>6 DEF HeldInOrder
<1>8. ASSUME NEW i \in 1..Len(buf')
      PROVE  buf'[i].stream = stream /\ buf'[i].pos = time + Len(chunk) + i - 1
  <2>1. CASE i <= held
    <3>1. i \in 1..held /\ buf'[i] = buf[i]
      BY <1>1, <1>3, <1>5, <2>1
    <3> QED
      BY <1>6, <3>1 DEF HeldInOrder
  <2>2. CASE i > held
    <3>1. i - held \in 1..f /\ i - held \in 1..Len(pending)
      BY <1>1, <1>3, <1>5, <2>2
    <3>2. buf'[i] = pending[i - held]
      BY <1>1, <1>3, <1>4, <1>5, <2>2, <3>1
    <3>3. /\ pending[i - held].stream = stream
          /\ pending[i - held].pos = nextPos - Len(pending) + (i - held) - 1
      BY <1>6, <3>1 DEF PendingIsNext
    <3> QED
      BY SMTT(20), <1>1, <1>7, <3>1, <3>2, <3>3
  <2> QED
    BY <1>1, <1>3, <1>5, <2>1, <2>2
<1>9. HeldInOrder'
  <2>1. \A i \in 1..Len(chunk') :
          chunk'[i].stream = stream' /\ (Timed' => chunk'[i].pos = time' + i - 1)
    BY <1>2, <1>6 DEF HeldInOrder
  <2>2. time' + Len(chunk') + Len(buf') + Len(pending') = nextPos'
    BY <1>1, <1>2, <1>3, <1>4, <1>5, <1>7
  <2> QED
    BY <1>2, <1>8, <2>1, <2>2 DEF HeldInOrder
<1>10. PendingIsNext'
  <2>1. ASSUME NEW i \in 1..Len(pending')
        PROVE  /\ pending'[i].stream = stream
               /\ pending'[i].pos = nextPos - Len(pending') + i - 1
    <3>1. f + i \in 1..Len(pending) /\ pending'[i] = pending[f + i]
      BY <1>1, <1>3, <1>4
    <3>2. /\ pending[f + i].stream = stream
          /\ pending[f + i].pos = nextPos - Len(pending) + (f + i) - 1
      BY <1>6, <3>1 DEF PendingIsNext
    <3> QED
      BY SMTT(20), <1>1, <1>3, <1>4, <3>1, <3>2
  <2> QED
    BY <1>2, <2>1 DEF PendingIsNext
<1>11. ReaderHolds'
  BY DEF PutWrites, PutSome, Signalled, SoundAccounted, ReaderHolds
<1>12. StopHolds'
  BY <1>2 DEF SoundAccounted, StopHolds
<1> QED
  BY <1>9, <1>10, <1>11, <1>12 DEF SoundAccounted

(* A call of out_buf_put().                                                *)
LEMMA PutAccounted ==
  ASSUME TypeOK, SoundAccounted, NEW k \in 1..Batch, PutCall(k)
  PROVE  SoundAccounted'
<1>1. /\ ppc = "run" /\ ppc' = "put" /\ nextPos' = nextPos + k
      /\ pending' = [i \in 1..k |-> [stream |-> stream, pos |-> nextPos + i - 1]]
      /\ UNCHANGED <<obVars, stream>>
  BY DEF PutCall
<1>2. pending' \in Seq(Unit) /\ Len(pending') = k
  BY <1>1, PutUnits DEF PutCall
<1>3. pending = <<>> /\ Len(pending) = 0
  BY <1>1, EmptySeq DEF SoundAccounted, PendingIsNext
<1>4. k \in Nat /\ Len(buf) \in Nat /\ Len(chunk) \in Nat /\ time \in Nat /\ nextPos \in Int
  BY LenProperties, EnvAssumption DEF TypeOK
<1>5. UNCHANGED <<buf, chunk, time, stop, waiting, rpc, sleepers>>
  BY <1>1 DEF obVars
<1>6. HeldInOrder /\ Timed' = Timed
  BY <1>1, <1>5 DEF SoundAccounted, Timed
<1>7. HeldInOrder'
  <2>1. Timed => time + Len(chunk) + Len(buf) = nextPos
    <3>1. Timed => time + Len(chunk) + Len(buf) + Len(pending) = nextPos
      BY <1>6 DEF HeldInOrder
    <3> QED
      BY <1>3, <1>4, <3>1
  <2>2. Len(buf') = Len(buf) /\ Len(chunk') = Len(chunk) /\ time' = time /\ nextPos' = nextPos + k
    BY <1>1, <1>5
  <2>3. Timed' => time' + Len(chunk') + Len(buf') + Len(pending') = nextPos'
    BY <1>2, <1>4, <1>6, <2>1, <2>2
  <2> QED
    BY <1>1, <1>5, <1>6, <2>3 DEF HeldInOrder
<1>8. PendingIsNext'
  <2>1. ASSUME NEW i \in 1..Len(pending')
        PROVE  pending'[i].stream = stream' /\ pending'[i].pos = nextPos' - Len(pending') + i - 1
    <3>1. i \in 1..k /\ pending'[i] = [stream |-> stream, pos |-> nextPos + i - 1]
      BY <1>1, <1>2
    <3> QED
      BY <1>1, <1>2, <1>4, <3>1
  <2> QED
    BY <1>1, <2>1 DEF PendingIsNext
<1>9. ReaderHolds' /\ StopHolds'
  BY <1>1, <1>5 DEF SoundAccounted, ReaderHolds, StopHolds
<1> QED
  BY <1>7, <1>8, <1>9 DEF SoundAccounted

(* The steps of the producer and of the controller.                        *)
LEMMA UsersAccounted ==
  ASSUME TypeOK, SoundAccounted, Next, ~ReaderMoves
  PROVE  SoundAccounted'
<1> USE DEF flags, reader, obVars, producer, ReaderHolds, StopHolds
<1>0. HeldInOrder /\ PendingIsNext /\ ReaderHolds /\ StopHolds
  BY DEF SoundAccounted
<1>1. ASSUME NEW k \in 1..Batch, PutCall(k) PROVE SoundAccounted'
  BY <1>1, PutAccounted
<1>2. CASE PutWrites
  BY <1>2, WriteAccounted
<1>3. CASE PutWaits \/ WaitSleeps
  <2>1. /\ UNCHANGED <<buf, chunk, pending, stream, nextPos, time, stop, ppc, rpc, waiting>>
        /\ sleepers \subseteq sleepers'
    BY <1>3 DEF PutWaits, PutSleep, WaitSleeps, WaitSleep, Sleep
  <2>2. Timed' = Timed
    BY <2>1 DEF Timed
  <2> QED
    BY <1>0, <2>1, <2>2, SoundUnmoved, PendingUnmoved DEF SoundAccounted
<1>4. CASE StopBegins
  <2>1. /\ UNCHANGED <<buf, chunk, pending, stream, nextPos, time, waiting>>
        /\ ppc = "run" /\ ppc' = "stopping" /\ stop' /\ Producer \in sleepers'
        /\ rpc' = Signalled
    BY <1>4 DEF StopBegins, StopCall, Sleep
  <2>2. ~Timed'
    BY <2>1 DEF Timed
  <2>3. ReaderHolds' /\ StopHolds'
    BY <1>0, <2>1 DEF Signalled
  <2> QED
    BY <1>0, <2>1, <2>2, <2>3, SoundUnmoved, PendingUnmoved DEF SoundAccounted
<1>5. CASE StopEnds
  <2>1. /\ UNCHANGED <<buf, chunk, pending, stream, nextPos, time, waiting, stop, rpc>>
        /\ ppc = "stopping" /\ ppc' = "stopped" /\ Producer \notin sleepers
    BY <1>5 DEF StopEnds, StopReturn, Woken
  <2>2. Timed' = Timed
    BY <2>1 DEF Timed
  <2>3. ReaderHolds' /\ StopHolds'
    BY <1>0, <2>1
  <2> QED
    BY <1>0, <2>1, <2>2, <2>3, SoundUnmoved, PendingUnmoved DEF SoundAccounted
<1>6. CASE StreamReset
  <2>1. /\ buf' = <<>> /\ ~stop' /\ ppc' = "reset" /\ ppc \in {"stopped", "quiet"}
        /\ UNCHANGED <<chunk, pending, nextPos, time, waiting, rpc>>
    BY <1>6 DEF StreamReset, Reset, KeptByReset
  <2>2. chunk' = <<>> /\ pending' = <<>> /\ ~Timed'
    BY <1>0, <2>1 DEF PendingIsNext, Timed
  <2>3. HeldInOrder'
    BY <2>1, <2>2, NothingInOrder DEF TypeOK
  <2>4. PendingIsNext'
    BY <2>2, EmptySeq DEF PendingIsNext
  <2>5. ReaderHolds' /\ StopHolds'
    BY <1>0, <2>1, <2>2
  <2> QED
    BY <2>3, <2>4, <2>5 DEF SoundAccounted
<1>7. ASSUME NEW v \in 0..MaxPos, TimeIsSet(v) PROVE SoundAccounted'
  <2>1. /\ ppc = "reset" /\ ppc' = "run" /\ time' = v /\ nextPos' = v
        /\ UNCHANGED <<buf, chunk, pending, stream, stop, waiting, rpc>>
    BY <1>7 DEF TimeIsSet, TimeSet
  <2>2. chunk' = <<>> /\ buf' = <<>> /\ pending' = <<>> /\ Len(pending') = 0
    BY <1>0, <2>1, EmptySeq DEF PendingIsNext
  <2>3. HeldInOrder'
    BY <2>1, <2>2, NothingInOrder, EmptySeq, EnvAssumption
  <2>4. PendingIsNext'
    BY <2>2 DEF PendingIsNext
  <2>5. ReaderHolds' /\ StopHolds'
    BY <1>0, <2>1
  <2> QED
    BY <2>3, <2>4, <2>5 DEF SoundAccounted
<1>8. CASE WaitBegins \/ WaitEnds \/ DeviceDone
  <2>1. /\ UNCHANGED <<buf, chunk, pending, stream, nextPos, time, stop, rpc, waiting, sleepers>>
        /\ \/ ppc = "run" /\ ppc' = "waiting" /\ buf = <<>>
           \/ ppc = "waiting" /\ ppc' = "quiet" /\ waiting
           \/ ppc = "quiet" /\ ppc' = "run"
    BY <1>8 DEF WaitBegins, WaitEnds, WaitReturn, ReaderIdle, DeviceDone
  <2>2. Timed' = Timed
    BY <2>1 DEF Timed
  <2>3. ReaderHolds' /\ StopHolds'
    BY <1>0, <2>1
  <2> QED
    BY <1>0, <2>1, <2>2, <2>3, SoundUnmoved, PendingUnmoved DEF SoundAccounted
<1>9. CASE InstallCallback \/ ControlPause \/ Drain \/ Done
  <2>1. UNCHANGED <<buf, chunk, pending, stream, nextPos, time, stop, ppc, rpc, waiting, sleepers>>
    BY <1>9 DEF InstallCallback, SetCallback, ControlPause, Pause, Drain, DeviceDrains,
                Done, vars
  <2>2. Timed' = Timed
    BY <2>1 DEF Timed
  <2> QED
    BY <1>0, <2>1, <2>2, SoundUnmoved, PendingUnmoved DEF SoundAccounted
<1>10. CASE ControlUnpause \/ FreeBegins
  <2>1. /\ UNCHANGED <<buf, chunk, pending, stream, nextPos, time, stop, waiting, sleepers>>
        /\ rpc' = Signalled
        /\ ppc' = ppc \/ (ppc = "quiet" /\ ppc' = "joining")
    BY <1>10 DEF ControlUnpause, Unpause, FreeBegins, ExitCall
  <2>2. Timed' => Timed
    BY <2>1 DEF Timed
  <2>3. ReaderHolds' /\ StopHolds'
    BY <1>0, <2>1 DEF Signalled
  <2> QED
    BY <1>0, <2>1, <2>2, <2>3, SoundUnmoved, PendingUnmoved DEF SoundAccounted
<1>11. CASE FreeEnds
  <2>1. /\ ppc = "joining" /\ ppc' = "done" /\ buf' = <<>>
        /\ UNCHANGED <<chunk, pending, stream, nextPos, time, stop, waiting, rpc>>
    BY <1>11 DEF FreeEnds, ExitJoin
  <2>2. UNCHANGED buf /\ Timed' = Timed
    BY <1>0, <2>1 DEF Timed
  <2>3. ReaderHolds' /\ StopHolds'
    BY <1>0, <2>1
  <2> QED
    BY <1>0, <2>1, <2>2, <2>3, SoundUnmoved, PendingUnmoved DEF SoundAccounted
<1> QED
  BY <1>1, <1>2, <1>3, <1>4, <1>5, <1>6, <1>7, <1>8, <1>9, <1>10, <1>11 DEF Next

(* The inductive invariant holds for ever.                                 *)
THEOREM SoundIsAccounted == Spec => []SoundAccounted
<1>1. TypeOK /\ SoundAccounted /\ [Next]_vars => SoundAccounted'
  <2> SUFFICES ASSUME TypeOK, SoundAccounted, [Next]_vars PROVE SoundAccounted'
    OBVIOUS
  <2>1. CASE ReaderMoves
    BY <2>1, ReaderAccounted
  <2>2. CASE Next /\ ~ReaderMoves
    BY <2>2, UsersAccounted
  <2>3. CASE UNCHANGED vars
    BY <2>3 DEF vars, obVars, producer, SoundAccounted, HeldInOrder, Timed,
                PendingIsNext, ReaderHolds, StopHolds
  <2> QED
    BY <2>1, <2>2, <2>3
<1> QED
  BY InitAccounted, <1>1, TypeCorrect, PTL DEF Spec

-----------------------------------------------------------------------------
(* What is held is the chunk and the buffer, one after the other.          *)
LEMMA HeldParts ==
  ASSUME TypeOK
  PROVE  /\ Len(Held) = Len(chunk) + Len(buf)
         /\ \A i \in 1..Len(Held) :
              \/ i \in 1..Len(chunk) /\ Held[i] = chunk[i]
              \/ i - Len(chunk) \in 1..Len(buf) /\ Held[i] = buf[i - Len(chunk)]
<1>1. Len(chunk) \in Nat /\ Len(buf) \in Nat
  BY LenProperties DEF TypeOK
<1>2. /\ Len(Held) = Len(chunk) + Len(buf)
      /\ \A i \in 1..Len(chunk) + Len(buf) :
           Held[i] = IF i <= Len(chunk) THEN chunk[i] ELSE buf[i - Len(chunk)]
  BY ConcatProperties DEF Held, TypeOK
<1> QED
  BY <1>1, <1>2

(* After a stop or a seek, and the reset that follows, nothing of before   *)
(* is in the buffer or in the reader's hands (out_buf.cc:135-136, 284-312).*)
THEOREM NoStaleSoundIsHeld == Spec => []NoStaleSound
<1>1. TypeOK /\ SoundAccounted => NoStaleSound
  BY HeldParts DEF SoundAccounted, HeldInOrder, NoStaleSound
<1> QED
  BY <1>1, TypeCorrect, SoundIsAccounted, PTL

(* out_buf::time is the place of the sound the reader sends next, whatever *)
(* was put, stopped, paused or set in between (out_buf.cc:212-217).        *)
THEOREM TimeIsRight == Spec => []TimeTracksSound
<1>1. TypeOK /\ SoundAccounted => TimeTracksSound
  <2> SUFFICES ASSUME TypeOK, SoundAccounted, Timed
               PROVE  /\ time + Len(Held) + Len(pending) = nextPos
                      /\ \A i \in 1..Len(Held) : Held[i].pos = time + i - 1
    BY DEF TimeTracksSound, Timed
  <2>1. /\ Len(chunk) \in Nat /\ Len(buf) \in Nat /\ time \in Nat
        /\ Len(pending) \in Nat
    BY LenProperties DEF TypeOK
  <2>2. time + Len(Held) + Len(pending) = nextPos
    <3>1. time + Len(chunk) + Len(buf) + Len(pending) = nextPos
      BY DEF SoundAccounted, HeldInOrder
    <3>2. Len(Held) = Len(chunk) + Len(buf)
      BY HeldParts
    <3> QED
      BY <2>1, <3>1, <3>2
  <2>3. ASSUME NEW i \in 1..Len(Held) PROVE Held[i].pos = time + i - 1
    <3>1. CASE i \in 1..Len(chunk) /\ Held[i] = chunk[i]
      BY <3>1 DEF SoundAccounted, HeldInOrder
    <3>2. CASE i - Len(chunk) \in 1..Len(buf) /\ Held[i] = buf[i - Len(chunk)]
      <4>1. buf[i - Len(chunk)].pos = time + Len(chunk) + (i - Len(chunk)) - 1
        BY <3>2 DEF SoundAccounted, HeldInOrder
      <4> QED
        BY <2>1, <3>2, <4>1
    <3> QED
      BY <3>1, <3>2, HeldParts
  <2> QED
    BY <2>2, <2>3
<1> QED
  BY <1>1, TypeCorrect, SoundIsAccounted, PTL

-----------------------------------------------------------------------------
(* The stream of SoundStream: the promised sound                           *)

LEMMA InFlightIs ==
  ASSUME TypeOK
  PROVE  /\ InFlight \in Seq(Unit) /\ Len(InFlight) = Len(chunk) - played
         /\ chunk = <<>> => InFlight = <<>>
<1>1. chunk \in Seq(Unit) /\ Len(chunk) \in Nat /\ played \in 0..Len(chunk)
  BY LenProperties DEF TypeOK
<1>2. InFlight \in Seq(Unit) /\ Len(InFlight) = Len(chunk) - played
  BY <1>1, SplitSeq DEF InFlight
<1>3. chunk = <<>> => Len(InFlight) = 0
  BY <1>1, <1>2, EmptySeq
<1> QED BY <1>2, <1>3, EmptySeq

LEMMA PromisedIs ==
  ASSUME TypeOK
  PROVE  /\ stop => Promised = InFlight
         /\ ~stop => Promised = InFlight \o buf
         /\ ~stop /\ chunk = <<>> => Promised = buf
<1>1. InFlight \in Seq(Unit) /\ buf \in Seq(Unit) /\ (chunk = <<>> => InFlight = <<>>)
  BY InFlightIs DEF TypeOK
<1> QED BY <1>1, ConcatEmptySeq DEF Promised

(* A step that leaves the sound alone, but for what a stopped buffer holds. *)
LEMMA PromisedUnmoved ==
  ASSUME UNCHANGED <<chunk, played, stop>>, stop \/ buf' = buf
  PROVE  UNCHANGED <<Promised, stop>>
BY DEF Promised, InFlight

-----------------------------------------------------------------------------
(* The steps                                                               *)

LEMMA InitIsStream == Init => Stream!Init
<1> SUFFICES ASSUME Init PROVE Stream!Init
  OBVIOUS
<1>1. TypeOK /\ ~stop /\ stop = FALSE /\ chunk = <<>> /\ buf = <<>>
  BY InitTypeOK DEF Init, OutBufInit
<1> QED BY <1>1, PromisedIs DEF Stream!Init

(* The reader takes a chunk: it was the first of the buffer's sound.       *)
LEMMA TakeStutters ==
  ASSUME TypeOK, TypeOK', SoundAccounted, ReaderTake
  PROVE  UNCHANGED <<Promised, stop>>
<1> DEFINE k == Least(Chunk, Len(buf))
<1>1. /\ rpc = "tail" /\ ~stop /\ stop' = stop /\ played' = 0
      /\ chunk' = SubSeq(buf, 1, k) /\ buf' = SubSeq(buf, k + 1, Len(buf))
  BY DEF ReaderTake, MayTake, Rest, flags
<1>2. chunk = <<>>
  BY <1>1 DEF SoundAccounted, ReaderHolds
<1>3. Promised = buf
  BY <1>1, <1>2, PromisedIs
<1>4. k \in 0..Len(buf) /\ buf \in Seq(Unit) /\ Len(buf) \in Nat
  BY TakeSplits, LenProperties DEF TypeOK
<1> HIDE DEF k
<1>5. chunk' \o buf' = buf
  <2>1. SubSeq(buf, 1, k) \o SubSeq(buf, k + 1, Len(buf)) = SubSeq(buf, 1, Len(buf))
    <3>1. /\ 1 \in 1..Len(buf) + 1 /\ k \in 1 - 1..Len(buf)
          /\ Len(buf) \in k..Len(buf)
      BY <1>4
    <3> QED BY <1>4, <3>1, ConcatAdjacentSubSeq
  <2> QED BY <1>1, <1>4, <2>1, SubSeqFull
<1>6. InFlight' = chunk'
  <2>1. chunk' \in Seq(Unit)
    BY DEF TypeOK
  <2>2. SubSeq(chunk', 1, Len(chunk')) = chunk'
    BY <2>1, SubSeqFull
  <2>3. InFlight' = SubSeq(chunk', 0 + 1, Len(chunk'))
    BY <1>1 DEF InFlight
  <2> QED BY <2>2, <2>3
<1>7. Promised' = chunk' \o buf'
  BY <1>1, <1>6 DEF Promised
<1> QED BY <1>1, <1>3, <1>5, <1>7

(* The device accepts a unit: the first of what was promised.              *)
LEMMA SendIsDeliver ==
  ASSUME TypeOK, SoundAccounted, ReaderSend
  PROVE  Stream!Deliver
<1>1. /\ played < Len(chunk) /\ played' = played + 1
      /\ UNCHANGED <<chunk, buf, stop>>
  BY DEF ReaderSend, flags
<1>2. chunk \in Seq(Unit) /\ buf \in Seq(Unit) /\ Len(chunk) \in Nat /\ played \in 0..Len(chunk)
  BY LenProperties DEF TypeOK
<1>3. InFlight \in Seq(Unit) /\ InFlight # <<>>
  BY <1>1, <1>2, InFlightIs, EmptySeq
<1>4. InFlight' = Tail(InFlight)
  <2>1. /\ played + 1 \in 1..Len(chunk) /\ Len(chunk) \in played + 1..Len(chunk)
        /\ (played + 1) + 1 = played' + 1
    BY <1>1, <1>2
  <2>2. Tail(SubSeq(chunk, played + 1, Len(chunk))) = SubSeq(chunk, (played + 1) + 1, Len(chunk))
    BY <1>2, <2>1, HeadTailOfSubSeq
  <2> QED BY <1>1, <2>1, <2>2 DEF InFlight
<1> DEFINE rest == IF stop THEN <<>> ELSE buf
<1>5. rest \in Seq(Unit) /\ rest' = rest
  BY <1>1, <1>2, EmptySeq
<1>6. Promised = InFlight \o rest /\ Promised' = Tail(InFlight) \o rest
  BY <1>4, <1>5 DEF Promised
<1> HIDE DEF rest
<1>7. Promised # <<>> /\ Promised' = Tail(Promised)
  BY <1>3, <1>5, <1>6, TailOfConcat
<1> QED BY <1>1, <1>7 DEF Stream!Deliver

(* The whole chunk is sent: nothing of it was on its way any more.         *)
LEMMA SentStutters ==
  ASSUME TypeOK, TypeOK', ReaderSent
  PROVE  UNCHANGED <<Promised, stop>>
<1>1. /\ played = Len(chunk) /\ chunk' = <<>> /\ UNCHANGED <<buf, stop>>
  BY DEF ReaderSent, flags
<1>2. chunk \in Seq(Unit) /\ Len(chunk) \in Nat
  BY LenProperties DEF TypeOK
<1>3. InFlight = <<>>
  BY <1>1, <1>2, SubSeqEmpty DEF InFlight
<1>4. (TypeOK => (chunk = <<>> => InFlight = <<>>))'
  BY InFlightIs, PTL
<1>5. InFlight' = <<>>
  BY <1>1, <1>4
<1> QED BY <1>1, <1>3, <1>5 DEF Promised

(* out_buf_put() writes: what fits is accepted after what is there.        *)
LEMMA WriteIsAccept ==
  ASSUME TypeOK, TypeOK', PutWrites
  PROVE  Stream!Accept \/ UNCHANGED <<Promised, stop>>
<1> DEFINE us == SubSeq(pending, 1, Fitting(pending))
<1>1. /\ ~stop /\ ~Full /\ UNCHANGED <<chunk, played, stop>> /\ buf' = buf \o us
  BY DEF PutWrites, PutSome, flags
<1>2. /\ InFlight \in Seq(Unit) /\ buf \in Seq(Unit) /\ pending \in Seq(Unit)
      /\ Len(InFlight) = Len(chunk) - played
      /\ Len(buf) \in Nat /\ Len(chunk) \in Nat /\ Len(chunk) <= Chunk
      /\ played \in 0..Len(chunk)
  BY InFlightIs, LenProperties DEF TypeOK
<1>3. us \in Seq(Unit) /\ Len(us) \in Nat /\ Len(buf) + Len(us) <= BufSize
  BY <1>1, <1>2, PutFits, LenProperties
<1> HIDE DEF us
<1>4. InFlight' = InFlight
  BY <1>1 DEF InFlight
<1>5. Promised = InFlight \o buf /\ Promised' = InFlight \o (buf \o us)
  BY <1>1, <1>4 DEF Promised
<1>6. Promised' = Promised \o us
  <2>1. InFlight \in Seq(Unit) /\ buf \in Seq(Unit) /\ us \in Seq(Unit)
    BY <1>2, <1>3
  <2>2. (InFlight \o buf) \o us = InFlight \o (buf \o us)
    BY <2>1, ConcatAssociative
  <2> QED BY <1>5, <2>2
<1>7. Promised \in Seq(Unit) /\ Len(Promised) = Len(InFlight) + Len(buf)
  BY <1>2, <1>5, ConcatProperties
<1>8. Promised' \in Seq(Unit) /\ Len(Promised') = Len(Promised) + Len(us)
  BY <1>3, <1>6, <1>7, ConcatProperties
<1>9. CASE us = <<>>
  BY <1>1, <1>6, <1>7, <1>9, ConcatEmptySeq
<1>10. CASE us # <<>>
  <2>1. Len(us) >= 1
    BY <1>3, <1>10, EmptySeq
  <2>2. Len(Promised') \in Len(Promised) + 1..BufSize + Chunk
    BY <1>2, <1>3, <1>7, <1>8, <2>1, BufSizeAssumption, ChunkAssumption
  <2>3. SubSeq(Promised', 1, Len(Promised)) = Promised
    BY <1>3, <1>6, <1>7, FrontOfConcat
  <2> QED BY <1>1, <1>8, <2>2, <2>3 DEF Stream!Accept
<1> QED BY <1>9, <1>10

(* out_buf_stop(): what the device is being sent stays promised.           *)
LEMMA StopBeginsIsStop ==
  ASSUME TypeOK, SoundAccounted, StopBegins
  PROVE  Stream!Stop
<1>1. ppc = "run" /\ stop' = TRUE /\ UNCHANGED <<chunk, played, buf>>
  BY DEF StopBegins, StopCall
<1>2. ~stop
  BY <1>1 DEF SoundAccounted, StopHolds
<1>3. /\ InFlight \in Seq(Unit) /\ buf \in Seq(Unit)
      /\ Len(InFlight) = Len(chunk) - played
      /\ Len(chunk) \in Nat /\ Len(chunk) <= Chunk /\ played \in 0..Len(chunk)
  BY InFlightIs, LenProperties DEF TypeOK
<1>4. Promised = InFlight \o buf
  BY <1>2 DEF Promised
<1>5. Promised' = InFlight
  <2>1. InFlight' = InFlight
    BY <1>1 DEF InFlight
  <2>2. Promised' = InFlight \o <<>>
    BY <1>1, <2>1 DEF Promised
  <2> QED BY <1>3, <2>2, ConcatEmptySeq
<1>6. Len(InFlight) \in 0..Chunk /\ Len(InFlight) <= Len(Promised)
  <2>1. Len(buf) \in Nat /\ Len(Promised) = Len(InFlight) + Len(buf)
    BY <1>3, <1>4, ConcatProperties, LenProperties
  <2> QED BY <1>3, <2>1, ChunkAssumption
<1>7. Promised' = SubSeq(Promised, 1, Len(InFlight))
  BY <1>3, <1>4, <1>5, FrontOfConcat
<1> QED BY <1>1, <1>6, <1>7 DEF Stream!Stop

(* out_buf_reset() finds nothing on its way to the device.                 *)
LEMMA ResetIsReset ==
  ASSUME TypeOK, SoundAccounted, StreamReset
  PROVE  Stream!Reset
<1>1. /\ ppc \in {"stopped", "quiet"} /\ buf' = <<>> /\ stop' = FALSE
      /\ UNCHANGED <<chunk, played>>
  BY DEF StreamReset, Reset, KeptByReset, reader
<1>2. chunk = <<>> /\ (stop \/ buf = <<>>)
  BY <1>1 DEF SoundAccounted, StopHolds
<1>3. InFlight = <<>>
  BY <1>2, InFlightIs
<1>4. InFlight' = <<>>
  BY <1>1, <1>3 DEF InFlight
<1>5. Promised = <<>> /\ Promised' = <<>>
  <2>1. <<>> \o <<>> = <<>>
    BY EmptySeq, ConcatEmptySeq
  <2>2. Promised = <<>>
    BY <1>2, <1>3, <2>1 DEF Promised
  <2>3. Promised' = <<>> \o <<>>
    BY <1>1, <1>4 DEF Promised
  <2> QED BY <2>1, <2>2, <2>3
<1> QED BY <1>1, <1>5 DEF Stream!Reset

LEMMA ReaderIsStream ==
  ASSUME TypeOK, TypeOK', SoundAccounted, ReaderMoves
  PROVE  [Stream!Next]_(Stream!vars)
<1> USE DEF Stream!vars
<1>1. CASE ReaderTop
  <2>1. UNCHANGED <<chunk, played, stop>> /\ (stop \/ buf' = buf)
    BY <1>1 DEF ReaderTop, KeptAtTop
  <2> QED BY <2>1, PromisedUnmoved
<1>2. CASE \/ ReaderCallbackDone \/ ReaderReady \/ ReaderClosed \/ ReaderPast
           \/ ReaderOpened \/ ReaderExit \/ ReaderAgain
  <2>1. UNCHANGED <<chunk, played, stop, buf>>
    BY <1>2 DEF ReaderCallbackDone, ReaderReady, ReaderClosed, ReaderPast,
                ReaderOpened, ReaderExit, ReaderAgain, flags
  <2> QED BY <2>1, PromisedUnmoved
<1>3. CASE ReaderTake
  BY <1>3, TakeStutters
<1>4. CASE ReaderSend
  BY <1>4, SendIsDeliver DEF Stream!Next
<1>5. CASE ReaderSent
  BY <1>5, SentStutters
<1> QED BY <1>1, <1>2, <1>3, <1>4, <1>5 DEF ReaderMoves, ReaderStep

LEMMA UsersAreStream ==
  ASSUME TypeOK, TypeOK', SoundAccounted, Next, ~ReaderMoves
  PROVE  [Stream!Next]_(Stream!vars)
<1> USE DEF Stream!vars
<1>1. CASE PutWrites
  BY <1>1, WriteIsAccept DEF Stream!Next
<1>2. CASE StopBegins
  BY <1>2, StopBeginsIsStop DEF Stream!Next
<1>3. CASE StreamReset
  BY <1>3, ResetIsReset DEF Stream!Next
<1>4. CASE FreeEnds
  <2>1. UNCHANGED <<chunk, played, stop>> /\ buf' = <<>> /\ ppc = "joining"
    BY <1>4 DEF FreeEnds, ExitJoin, flags, reader
  <2>2. buf' = buf
    BY <2>1 DEF SoundAccounted, StopHolds
  <2> QED BY <2>1, <2>2, PromisedUnmoved
<1>5. CASE \/ PutWaits \/ StopEnds \/ WaitBegins \/ WaitSleeps \/ WaitEnds \/ DeviceDone
           \/ \E k \in 1..Batch : PutCall(k)
           \/ \E v \in 0..MaxPos : TimeIsSet(v)
  <2>1. UNCHANGED <<chunk, played, stop, buf>>
    BY <1>5 DEF PutWaits, PutSleep, StopEnds, StopReturn, WaitBegins, WaitSleeps,
                WaitSleep, WaitEnds, WaitReturn, DeviceDone, PutCall, TimeIsSet,
                TimeSet, flags, reader, obVars
  <2> QED BY <2>1, PromisedUnmoved
<1>6. CASE \/ InstallCallback \/ FreeBegins \/ ControlPause \/ ControlUnpause \/ Drain \/ Done
  <2>1. UNCHANGED <<chunk, played, stop, buf>>
    BY <1>6 DEF InstallCallback, SetCallback, FreeBegins, ExitCall, ControlPause,
                Pause, ControlUnpause, Unpause, Drain, DeviceDrains, Done, flags,
                reader, obVars, vars
  <2> QED BY <2>1, PromisedUnmoved
<1> QED BY <1>1, <1>2, <1>3, <1>4, <1>5, <1>6 DEF Next

(* The sound put into the buffer reaches the device in order, none of it   *)
(* missing or twice; a stop gives up all but what the device is being      *)
(* handed, and the buffer is reset with nothing on its way: for buffers,   *)
(* chunks and data of any size (out_buf.cc:112-230, 249-312).              *)
THEOREM BufferIsStream == Spec => IsSoundStream
<1>1. Init => Stream!Init
  BY InitIsStream
<1>2. TypeOK /\ TypeOK' /\ SoundAccounted /\ [Next]_vars => [Stream!Next]_(Stream!vars)
  <2> SUFFICES ASSUME TypeOK, TypeOK', SoundAccounted, [Next]_vars
               PROVE  [Stream!Next]_(Stream!vars)
    OBVIOUS
  <2>1. CASE UNCHANGED vars
    <3>1. UNCHANGED <<chunk, played, stop, buf>>
      BY <2>1 DEF vars, obVars
    <3> QED BY <3>1, PromisedUnmoved DEF Stream!vars
  <2>2. CASE Next
    BY <2>2, ReaderIsStream, UsersAreStream
  <2> QED BY <2>1, <2>2
<1> QED
  BY <1>1, <1>2, TypeCorrect, SoundIsAccounted, PTL DEF Spec, IsSoundStream, Stream!Spec

-----------------------------------------------------------------------------
(* The ring buffer.                                                        *)

LEMMA Wraps ==
  ASSUME NEW a \in Nat, a < 2 * Size
  PROVE  a % Size \in Index /\ a % Size = IF a < Size THEN a ELSE a - Size
<1>1. Size \in Nat \ {0}
  BY SizeAssumption
<1>2. CASE a < Size
  <2>1. a % Size = a
    BY <1>1, <1>2, SMT
  <2> QED BY <2>1, <1>1, <1>2 DEF Index
<1>3. CASE Size <= a
  <2>1. a % Size = a - Size
    BY <1>1, <1>3, SMT
  <2> QED BY <2>1, <1>1, <1>3 DEF Index
<1> QED BY <1>1, <1>2, <1>3

(* Where a run of f bytes from index p on ends.                            *)
LEMMA FreePlace ==
  ASSUME NEW f \in 0..Size, NEW p \in Index
  PROVE  /\ (p + f) % Size \in Index
         /\ (p + f) % Size = IF p + f < Size THEN p + f ELSE (p + f) - Size
<1> DEFINE a == p + f
<1>1. a \in Nat /\ a < 2 * Size
  BY SizeAssumption DEF Index
<1> HIDE DEF a
<1>2. a % Size \in Index /\ a % Size = IF a < Size THEN a ELSE a - Size
  BY <1>1, Wraps
<1> QED BY <1>2 DEF a

LEMMA SmallerIs ==
  ASSUME NEW a \in Int, NEW b \in Int
  PROVE  /\ Smaller(a, b) \in {a, b} /\ Smaller(a, b) <= a /\ Smaller(a, b) <= b
         /\ Smaller(a, b) \in Int
BY DEF Smaller

LEMMA PieceOfRest ==
  ASSUME NEW S, NEW s \in Seq(S), NEW k \in 0..Len(s),
         NEW a \in Nat \ {0}, NEW b \in 0..(Len(s) - k), a <= b + 1
  PROVE  SubSeq(SubSeq(s, k + 1, Len(s)), a, b) = SubSeq(s, k + a, k + b)
<1> DEFINE r == SubSeq(s, k + 1, Len(s))
           x == SubSeq(r, a, b)
           y == SubSeq(s, k + a, k + b)
<1>1. Len(s) \in Nat
  BY LenProperties
<1>2. r \in Seq(S) /\ Len(r) = Len(s) - k /\ \A i \in 1..(Len(s) - k) : r[i] = s[k + i]
  <2>1. /\ r \in Seq(S) /\ Len(r) = Len(s) - (k + 1) + 1
        /\ \A i \in 1..(Len(s) - (k + 1) + 1) : r[i] = s[(k + 1) + i - 1]
    BY <1>1, Piece
  <2> QED BY <2>1, <1>1
<1> HIDE DEF r
<1>3. x \in Seq(S) /\ Len(x) = b - a + 1 /\ \A i \in 1..(b - a + 1) : x[i] = r[a + i - 1]
  BY <1>1, <1>2, Piece
<1>4. /\ y \in Seq(S) /\ Len(y) = b - a + 1
      /\ \A i \in 1..(b - a + 1) : y[i] = s[k + a + i - 1]
  <2>1. /\ y \in Seq(S) /\ Len(y) = (k + b) - (k + a) + 1
        /\ \A i \in 1..((k + b) - (k + a) + 1) : y[i] = s[(k + a) + i - 1]
    BY <1>1, Piece
  <2> QED BY <2>1, <1>1
<1> HIDE DEF x, y
<1>5. \A i \in 1..Len(x) : x[i] = y[i]
  <2> SUFFICES ASSUME NEW i \in 1..(b - a + 1) PROVE x[i] = y[i]
    BY <1>3
  <2>1. a + i - 1 \in 1..(Len(s) - k) /\ k + (a + i - 1) = k + a + i - 1
    BY <1>1
  <2>2. x[i] = r[a + i - 1] /\ r[a + i - 1] = s[k + (a + i - 1)] /\ y[i] = s[k + a + i - 1]
    BY <1>2, <1>3, <1>4, <2>1
  <2> QED BY <2>1, <2>2
<1>6. x = y
  BY <1>3, <1>4, <1>5, SeqEqual
<1> QED BY <1>6 DEF x, y, r

-----------------------------------------------------------------------------
(* What is in the ring                                                     *)

ContentOf(b, f, p) == [j \in 1..f |-> b[(p + j - 1) % Size]]

LEMMA ContentIs ==
  ASSUME NEW b \in [Index -> Byte], NEW f \in 0..Size, NEW p \in Index
  PROVE  /\ ContentOf(b, f, p) \in Seq(Byte) /\ Len(ContentOf(b, f, p)) = f
         /\ \A j \in 1..f : /\ (p + j - 1) % Size \in Index
                            /\ ContentOf(b, f, p)[j] = b[(p + j - 1) % Size]
<1>1. Size \in Nat \ {0} /\ f \in Nat /\ p \in Nat /\ p < Size
  BY SizeAssumption DEF Index
<1>2. ASSUME NEW j \in 1..f PROVE (p + j - 1) % Size \in Index
  <2>1. p + j - 1 \in Nat /\ p + j - 1 < 2 * Size
    BY <1>1
  <2> QED BY <2>1, Wraps
<1>3. \A j \in 1..f : b[(p + j - 1) % Size] \in Byte
  BY <1>2
<1>4. ContentOf(b, f, p) \in [1..f -> Byte]
  BY <1>3 DEF ContentOf
<1>5. ContentOf(b, f, p) \in Seq(Byte) /\ Len(ContentOf(b, f, p)) = f
  BY <1>1, <1>4, SeqDef
<1> QED BY <1>2, <1>5 DEF ContentOf

(* The oldest k bytes, and the others.                                     *)
LEMMA ContentParts ==
  ASSUME NEW b \in [Index -> Byte], NEW f \in 0..Size, NEW p \in Index, NEW k \in 0..f
  PROVE  /\ Advance(p, k) \in Index
         /\ ContentOf(b, k, p) = SubSeq(ContentOf(b, f, p), 1, k)
         /\ ContentOf(b, f - k, Advance(p, k)) = SubSeq(ContentOf(b, f, p), k + 1, f)
<1> DEFINE c == ContentOf(b, f, p)
           q == Advance(p, k)
           x == ContentOf(b, k, p)
           y == ContentOf(b, f - k, q)
           u == SubSeq(c, 1, k)
           v == SubSeq(c, k + 1, f)
<1>1. Size \in Nat \ {0} /\ f \in Nat /\ p \in Nat /\ p < Size /\ k \in Nat /\ k <= f /\ f <= Size
  BY SizeAssumption DEF Index
<1>2. q \in Index /\ q = IF p + k < Size THEN p + k ELSE p + k - Size
  BY <1>1, Wraps DEF Advance
<1>3. c \in Seq(Byte) /\ Len(c) = f /\ \A j \in 1..f : c[j] = b[(p + j - 1) % Size]
  BY ContentIs
<1>4. x \in Seq(Byte) /\ Len(x) = k /\ \A j \in 1..k : x[j] = b[(p + j - 1) % Size]
  BY <1>1, ContentIs
<1> HIDE DEF q
<1>5. /\ y \in Seq(Byte) /\ Len(y) = f - k
      /\ \A j \in 1..(f - k) : y[j] = b[(q + j - 1) % Size]
  <2>1. f - k \in 0..Size
    BY <1>1
  <2> QED BY <2>1, <1>2, ContentIs
<1> HIDE DEF c, x, y
<1>6. u \in Seq(Byte) /\ Len(u) = k /\ \A i \in 1..k : u[i] = c[i]
  <2>1. u \in Seq(Byte) /\ Len(u) = k - 1 + 1 /\ \A i \in 1..(k - 1 + 1) : u[i] = c[1 + i - 1]
    BY <1>1, <1>3, Piece
  <2> QED BY <2>1, <1>1
<1>7. v \in Seq(Byte) /\ Len(v) = f - k /\ \A i \in 1..(f - k) : v[i] = c[k + i]
  <2>1. /\ v \in Seq(Byte) /\ Len(v) = f - (k + 1) + 1
        /\ \A i \in 1..(f - (k + 1) + 1) : v[i] = c[(k + 1) + i - 1]
    BY <1>1, <1>3, Piece
  <2>2. f - (k + 1) + 1 = f - k
    BY <1>1
  <2>3. ASSUME NEW i \in 1..(f - k) PROVE v[i] = c[k + i]
    <3>1. v[i] = c[(k + 1) + i - 1] /\ (k + 1) + i - 1 = k + i
      BY <1>1, <2>1, <2>2
    <3> QED BY <3>1
  <2> QED BY <2>1, <2>2, <2>3
<1> HIDE DEF u, v
<1>8. x = u
  <2>1. ASSUME NEW i \in 1..k PROVE x[i] = u[i]
    <3>1. i \in 1..f
      BY <1>1
    <3>2. x[i] = b[(p + i - 1) % Size]
      BY <1>4
    <3>3. c[i] = b[(p + i - 1) % Size]
      BY <1>3, <3>1
    <3>4. u[i] = c[i]
      BY <1>6
    <3> QED BY <3>2, <3>3, <3>4
  <2> QED BY <2>1, <1>4, <1>6, SeqEqual
<1>9. y = v
  <2>1. ASSUME NEW i \in 1..(f - k) PROVE y[i] = v[i]
    <3>1. (q + i - 1) % Size = (p + (k + i) - 1) % Size
      <4>1. CASE p + k < Size
        BY <4>1, <1>1, <1>2
      <4>2. CASE Size <= p + k
        <5>1. q + i - 1 \in Nat /\ q + i - 1 < Size /\ p + (k + i) - 1 = q + i - 1 + Size
          BY <4>2, <1>1, <1>2
        <5>2. (q + i - 1) % Size = q + i - 1
          BY <5>1, <1>1, Wraps
        <5>3. (p + (k + i) - 1) % Size = p + (k + i) - 1 - Size
          BY <5>1, <1>1, Wraps
        <5> QED BY <5>1, <5>2, <5>3, <1>1
      <4> QED BY <4>1, <4>2, <1>1, <1>2
    <3>2. k + i \in 1..f
      BY <1>1
    <3> QED BY <3>1, <3>2, <1>3, <1>5, <1>7
  <2>2. \A i \in 1..Len(y) : y[i] = v[i]
    BY <2>1, <1>5
  <2> QED BY <2>2, <1>5, <1>7, SeqEqual
<1> QED BY <1>2, <1>8, <1>9 DEF c, q, x, y, u, v

(* One memcpy of put() appends what it copies.                             *)
FreeAt(f, p) == (p + f) % Size
Written(b, i, k, d, m) ==
  [j \in Index |-> IF i <= j /\ j < i + k THEN d[m + 1 + j - i] ELSE b[j]]

(* k bytes of d, after the first m, fit behind the f that start at index p.*)
Fits(b, f, p, d, m, k) ==
  /\ b \in [Index -> Byte] /\ f \in 0..Size /\ p \in Index
  /\ d \in Seq(Byte) /\ m \in Nat /\ k \in Nat
  /\ f + k <= Size /\ FreeAt(f, p) + k <= Size /\ m + k <= Len(d)

Appended(b, f, p, d, m, k, e) ==
  /\ e \in [Index -> Byte]
  /\ ContentOf(e, f + k, p) = ContentOf(b, f, p) \o SubSeq(d, m + 1, m + k)

LEMMA CopyAppends ==
  ASSUME NEW b, NEW f, NEW p, NEW d, NEW m, NEW k, Fits(b, f, p, d, m, k)
  PROVE  Appended(b, f, p, d, m, k, Written(b, FreeAt(f, p), k, d, m))
<1>1. /\ b \in [Index -> Byte] /\ f \in 0..Size /\ p \in Index
      /\ d \in Seq(Byte) /\ m \in Nat /\ k \in Nat
      /\ f + k <= Size /\ FreeAt(f, p) + k <= Size /\ m + k <= Len(d)
  BY DEF Fits
<1> DEFINE i == FreeAt(f, p)
           e == Written(b, i, k, d, m)
           x == ContentOf(e, f + k, p)
           c == ContentOf(b, f, p)
           u == SubSeq(d, m + 1, m + k)
<1>2. /\ Size \in Nat \ {0} /\ f \in Nat /\ p \in Nat /\ p < Size /\ f <= Size
      /\ Len(d) \in Nat
  BY <1>1, SizeAssumption, LenProperties DEF Index
<1>3. i \in Index /\ i = IF p + f < Size THEN p + f ELSE (p + f) - Size
  BY <1>1, FreePlace DEF FreeAt
<1>4. i + k <= Size
  BY <1>1
<1> HIDE DEF i
<1>5. i \in Nat /\ i < Size
  BY <1>2, <1>3 DEF Index
<1>6. e \in [Index -> Byte]
  <2>1. ASSUME NEW j \in Index, i <= j, j < i + k PROVE d[m + 1 + j - i] \in Byte
    <3>1. m + 1 + j - i \in 1..Len(d)
      BY <1>1, <1>2, <1>5, <2>1 DEF Index
    <3> QED BY <3>1, <1>1, ElementOfSeq
  <2> QED BY <2>1, <1>1 DEF Written
<1>7. f + k \in 0..Size
  BY <1>1, <1>2
<1>8. x \in Seq(Byte) /\ Len(x) = f + k /\ \A j \in 1..(f + k) : x[j] = e[(p + j - 1) % Size]
  BY <1>1, <1>6, <1>7, ContentIs
<1>9. c \in Seq(Byte) /\ Len(c) = f /\ \A j \in 1..f : c[j] = b[(p + j - 1) % Size]
  BY <1>1, ContentIs
<1>10. u \in Seq(Byte) /\ Len(u) = k /\ \A j \in 1..k : u[j] = d[m + j]
  <2>1. /\ u \in Seq(Byte) /\ Len(u) = (m + k) - (m + 1) + 1
        /\ \A j \in 1..((m + k) - (m + 1) + 1) : u[j] = d[(m + 1) + j - 1]
    BY <1>1, <1>2, Piece
  <2> QED BY <2>1, <1>1, <1>2
<1> HIDE DEF x, c, u
<1>11. /\ c \o u \in Seq(Byte) /\ Len(c \o u) = f + k
      /\ \A j \in 1..(f + k) : (c \o u)[j] = IF j <= f THEN c[j] ELSE u[j - f]
  BY <1>1, <1>9, <1>10, ConcatProperties
<1>12. ASSUME NEW j \in 1..(f + k) PROVE x[j] = (c \o u)[j]
  <2> DEFINE a == p + j - 1
             t == a % Size
  <2>1. a \in Nat /\ a < 2 * Size /\ j \in Nat
    BY <1>1, <1>2
  <2>2. t \in Index /\ t = IF a < Size THEN a ELSE a - Size
    BY <2>1, Wraps
  <2>3. x[j] = IF i <= t /\ t < i + k THEN d[m + 1 + t - i] ELSE b[t]
    <3>1. x[j] = e[t]
      BY <1>8
    <3> HIDE DEF t
    <3> QED BY <3>1, <2>2 DEF Written
  <2>4. CASE j <= f
    <3>1. ~(i <= t /\ t < i + k)
      <4> HIDE DEF t
      <4> QED BY <2>4, <1>1, <1>2, <1>3, <1>4, <1>5, <2>1, <2>2
    <3>2. c[j] = b[t]
      BY <1>9, <2>1, <2>4
    <3> QED BY <3>1, <3>2, <2>3, <2>4, <1>11
  <2>5. CASE f < j
    <3>1. t = i + (j - f) - 1 /\ j - f \in 1..k
      <4> HIDE DEF t
      <4> QED BY <2>5, <1>1, <1>2, <1>3, <1>4, <1>5, <2>1, <2>2
    <3>2. i <= t /\ t < i + k /\ m + 1 + t - i = m + (j - f)
      <4> HIDE DEF t
      <4>1. t - i = (j - f) - 1 /\ j - f \in Int /\ 1 <= j - f /\ j - f <= k /\ t \in Int
        BY <3>1, <1>1, <1>2, <1>5, <2>1
      <4> QED BY <4>1, <1>1, <1>2, <1>5
    <3>3. x[j] = d[m + (j - f)]
      BY <3>2, <2>3
    <3>4. u[j - f] = d[m + (j - f)]
      BY <3>1, <1>10
    <3>5. (c \o u)[j] = u[j - f]
      <4>1. ~(j <= f)
        BY <2>5, <2>1, <1>2
      <4>2. (c \o u)[j] = IF j <= f THEN c[j] ELSE u[j - f]
        BY <1>11
      <4> QED BY <4>1, <4>2
    <3> QED BY <3>3, <3>4, <3>5
  <2>6. j <= f \/ f < j
    BY <2>1, <1>2
  <2> QED BY <2>4, <2>5, <2>6
<1>13. x = c \o u
  BY <1>8, <1>11, <1>12, SeqEqual
<1> QED BY <1>6, <1>13 DEF x, c, u, e, i, Appended

-----------------------------------------------------------------------------
(* Copies stay in bounds                                                   *)

(* put() has the bytes it was told it has.                                 *)
RingInv == RingTypeOK /\ (busy /\ op = "put" => Len(data) = N)

LEMMA PutRunFits ==
  ASSUME RingTypeOK, PutMore
  PROVE  /\ FreeIndex \in Index /\ PutRun \in 1..(Size - FreeIndex)
         /\ PutRun <= Size - fill /\ n + PutRun <= N
<1> DEFINE i == FreeIndex
           room == (IF i >= pos THEN Size ELSE pos) - i
<1>1. /\ Size \in Nat \ {0} /\ fill \in Nat /\ fill < Size /\ pos \in Nat /\ pos < Size
      /\ N \in Nat /\ n \in Nat /\ n < N
  BY SizeAssumption DEF RingTypeOK, PutMore, Index
<1>2. i \in Index /\ i = IF pos + fill < Size THEN pos + fill ELSE (pos + fill) - Size
  BY FreePlace DEF FreeIndex, RingTypeOK
<1>3. i \in Nat /\ i < Size
  <2> HIDE DEF i
  <2> QED BY <1>1, <1>2
<1>4. PutRun = Smaller(N - n, room)
  BY DEF PutRun
<1> HIDE DEF i
<1>5. room \in Nat \ {0} /\ room <= Size - i /\ room <= Size - fill
  BY <1>1, <1>2, <1>3
<1> HIDE DEF room
<1>6. PutRun \in {N - n, room} /\ PutRun <= N - n /\ PutRun <= room
  BY <1>1, <1>4, <1>5, SmallerIs
<1> QED BY <1>1, <1>2, <1>3, <1>5, <1>6 DEF i

LEMMA GetRunFits ==
  ASSUME NEW f \in 0..Size, NEW p \in Index, N \in Nat, n \in 0..N, GetMore(f)
  PROVE  /\ GetRun(f, p) \in 1..(Size - p) /\ GetRun(f, p) <= f /\ n + GetRun(f, p) <= N
<1> DEFINE held == IF p + f <= Size THEN f ELSE Size - p
<1>1. /\ Size \in Nat \ {0} /\ f \in Nat /\ 0 < f /\ p \in Nat /\ p < Size
      /\ N \in Nat /\ n \in Nat /\ n < N
  BY SizeAssumption DEF GetMore, Index
<1>2. held \in Nat \ {0} /\ held <= Size - p /\ held <= f
  BY <1>1
<1>3. GetRun(f, p) = Smaller(held, N - n)
  BY DEF GetRun
<1> HIDE DEF held
<1>4. GetRun(f, p) \in {held, N - n} /\ GetRun(f, p) <= held /\ GetRun(f, p) <= N - n
  BY <1>1, <1>2, <1>3, SmallerIs
<1> QED BY <1>1, <1>2, <1>4

LEMMA BlocksAreSequences ==
  ASSUME NEW d \in Blocks
  PROVE  d \in Seq(Byte) /\ Len(d) \in Nat
<1>1. PICK k \in 0..MaxRequest : d \in [1..k -> Byte]
  BY DEF Blocks
<1>2. k \in Nat
  BY <1>1, MaxRequestAssumption
<1>3. d \in Seq(Byte)
  BY <1>1, <1>2, SeqDef
<1> QED BY <1>3, LenProperties

(* What a step of put() does.                                              *)
LEMMA PutCopyDoes ==
  ASSUME RingInv, PutCopy
  PROVE  /\ PutRun \in Nat \ {0} /\ fill' = fill + PutRun /\ n' = n + PutRun
         /\ PutRun <= Size - fill /\ n + PutRun <= N /\ fill' \in 0..Size /\ n' \in 0..N
         /\ bytes' \in [Index -> Byte]
         /\ ContentOf(bytes', fill', pos) = ContentOf(bytes, fill, pos) \o SubSeq(data, n + 1, n + PutRun)
<1> DEFINE k == PutRun
           i == FreeIndex
<1>1. /\ fill \in 0..Size /\ pos \in Index /\ bytes \in [Index -> Byte] /\ data \in Seq(Byte)
      /\ N \in Nat /\ n \in 0..N /\ Len(data) = N /\ Size \in Nat \ {0}
  BY SizeAssumption DEF RingInv, RingTypeOK, PutCopy
<1>2. i \in Index /\ k \in 1..(Size - i) /\ k <= Size - fill /\ n + k <= N
  BY PutRunFits DEF RingInv, PutCopy
<1>3. i = FreeAt(fill, pos)
  BY DEF FreeIndex, FreeAt
<1>4. /\ fill' = fill + k /\ n' = n + k
      /\ bytes' = Written(bytes, i, k, data, n)
  BY DEF PutCopy, Written
<1> HIDE DEF k, i
<1>5. /\ k \in Nat \ {0} /\ fill + k <= Size /\ i + k <= Size /\ n + k <= Len(data) /\ n \in Nat
      /\ fill \in Nat /\ i \in Nat
  <2>1. i \in Nat
    BY <1>1, <1>2 DEF Index
  <2> QED BY <2>1, <1>1, <1>2
<1>6. /\ bytes' \in [Index -> Byte]
      /\ ContentOf(bytes', fill + k, pos) = ContentOf(bytes, fill, pos) \o SubSeq(data, n + 1, n + k)
  <2>1. k \in Nat /\ FreeAt(fill, pos) + k <= Size
    BY <1>3, <1>5
  <2>2. bytes' = Written(bytes, FreeAt(fill, pos), k, data, n)
    BY <1>3, <1>4
  <2>3. /\ fill \in 0..Size /\ pos \in Index /\ bytes \in [Index -> Byte]
        /\ data \in Seq(Byte) /\ n \in Nat
        /\ fill + k <= Size /\ n + k <= Len(data)
    BY <1>1, <1>5
  <2>4. Fits(bytes, fill, pos, data, n, k)
    BY <2>1, <2>3 DEF Fits
  <2>5. Appended(bytes, fill, pos, data, n, k, bytes')
    BY <2>2, <2>4, CopyAppends
  <2> QED BY <2>5 DEF Appended
<1>7. fill' \in 0..Size /\ n' \in 0..N
  BY <1>1, <1>2, <1>4, <1>5
<1> QED BY <1>2, <1>4, <1>5, <1>6, <1>7 DEF k

(* What is copied out of f bytes held from index p on.                     *)
LEMMA RunIs ==
  ASSUME RingTypeOK, NEW f \in 0..Size, NEW p \in Index, NEW k \in 0..f
  PROVE  Run(p, k) = SubSeq(ContentOf(bytes, f, p), 1, k) /\ Run(p, k) \in Seq(Byte)
<1>1. bytes \in [Index -> Byte] /\ k \in 0..Size
  BY SizeAssumption DEF RingTypeOK
<1>2. Run(p, k) = ContentOf(bytes, k, p)
  BY DEF Run, ContentOf
<1>3. ContentOf(bytes, k, p) \in Seq(Byte)
  BY <1>1, ContentIs
<1> QED BY <1>1, <1>2, <1>3, ContentParts

LEMMA InitTyped == RingInit => RingInv
<1> SUFFICES ASSUME RingInit PROVE RingInv
  OBVIOUS
<1>1. Size \in Nat \ {0} /\ <<>> \in Seq(Byte)
  BY SizeAssumption, EmptySeq
<1>2. data \in Seq(Byte) /\ bytes \in [Index -> Byte]
  BY <1>1 DEF RingInit
<1>3. fill \in 0..Size /\ pos \in Index /\ lfill \in 0..Size /\ lpos \in Index
  BY <1>1 DEF RingInit, Index
<1>4. N \in Nat /\ n \in 0..N /\ busy = FALSE /\ op = "clear"
  BY DEF RingInit
<1> QED BY <1>2, <1>3, <1>4 DEF RingInv, RingTypeOK

LEMMA StepTyped == RingInv /\ [RingNext]_ringVars => RingInv'
<1> SUFFICES ASSUME RingInv, [RingNext]_ringVars PROVE RingInv'
  OBVIOUS
<1> USE DEF RingInv, RingTypeOK, ring, local
<1>0. Size \in Nat \ {0} /\ <<>> \in Seq(Byte)
  BY SizeAssumption, EmptySeq
<1>1. ASSUME NEW d \in Blocks, StartPut(d) PROVE RingInv'
  BY <1>1, BlocksAreSequences DEF StartPut
<1>2. CASE PutCopy
  <2>1. fill' \in 0..Size /\ n' \in 0..N /\ bytes' \in [Index -> Byte]
    BY <1>2, PutCopyDoes
  <2> QED BY <1>2, <2>1 DEF PutCopy
<1>3. CASE PutReturn
  BY <1>3 DEF PutReturn
<1>4. ASSUME NEW m \in 0..MaxRequest, StartGet(m) PROVE RingInv'
  BY <1>4, <1>0, MaxRequestAssumption DEF StartGet
<1>5. ASSUME NEW m \in 0..MaxRequest, StartPeek(m) PROVE RingInv'
  BY <1>5, <1>0, MaxRequestAssumption DEF StartPeek
<1>6. CASE GetCopy
  <2> DEFINE k == GetRun(fill, pos)
  <2>1. k \in 1..(Size - pos) /\ k <= fill /\ n + k <= N
    BY <1>6, GetRunFits DEF GetCopy
  <2>2. data' = data \o Run(pos, k) /\ n' = n + k /\ fill' = fill - k /\ pos' = Advance(pos, k)
    BY <1>6 DEF GetCopy
  <2> HIDE DEF k
  <2>3. k \in 0..fill /\ fill' \in 0..Size /\ n' \in 0..N
    BY <1>0, <2>1, <2>2
  <2>4. pos' \in Index
    BY <2>2, <2>3, ContentParts
  <2>5. data' \in Seq(Byte)
    BY <2>2, <2>3, RunIs, ConcatProperties
  <2> QED BY <1>6, <2>3, <2>4, <2>5 DEF GetCopy
<1>7. CASE GetReturn
  BY <1>7 DEF GetReturn
<1>8. CASE PeekCopy
  <2> DEFINE k == GetRun(lfill, lpos)
  <2>1. k \in 1..(Size - lpos) /\ k <= lfill /\ n + k <= N
    BY <1>8, GetRunFits DEF PeekCopy
  <2>2. /\ data' = data \o Run(lpos, k) /\ n' = n + k /\ lfill' = lfill - k
        /\ lpos' = Advance(lpos, k)
    BY <1>8 DEF PeekCopy
  <2> HIDE DEF k
  <2>3. k \in 0..lfill /\ lfill' \in 0..Size /\ n' \in 0..N
    BY <1>0, <2>1, <2>2
  <2>4. lpos' \in Index
    BY <2>2, <2>3, ContentParts
  <2>5. data' \in Seq(Byte)
    BY <2>2, <2>3, RunIs, ConcatProperties
  <2> QED BY <1>8, <2>3, <2>4, <2>5 DEF PeekCopy
<1>9. CASE PeekReturn
  BY <1>9 DEF PeekReturn
<1>10. CASE Clear
  BY <1>10, <1>0 DEF Clear, Index
<1>11. CASE UNCHANGED ringVars
  BY <1>11 DEF ringVars
<1> QED BY <1>1, <1>2, <1>3, <1>4, <1>5, <1>6, <1>7, <1>8, <1>9, <1>10, <1>11 DEF RingNext

(* The numbers of the ring and of a call stay in their ranges, and the     *)
(* bytes are bytes, whatever is asked of it and in whatever order.         *)
THEOREM RingTypeCorrect == RingSpec => []RingInv
BY InitTyped, StepTyped, PTL DEF RingSpec

(* No memcpy of put(), get() and peek() leaves the ring, the bytes it      *)
(* holds or the caller's buffer, and none copies nothing, for rings of any *)
(* size and requests of any length (fifo_buf.cc:20-28, 37-49, 61-73).      *)
THEOREM CopiesStayInBounds == RingSpec => []CopyInBounds
<1>1. RingInv => CopyInBounds
  <2> SUFFICES ASSUME RingTypeOK PROVE CopyInBounds
    BY DEF RingInv
  <2>1. busy /\ op = "get" /\ GetMore(fill) =>
          /\ GetRun(fill, pos) \in 1..(Size - pos)
          /\ GetRun(fill, pos) <= fill
          /\ n + GetRun(fill, pos) <= N
    BY GetRunFits DEF RingTypeOK
  <2>2. busy /\ op = "peek" /\ GetMore(lfill) =>
          /\ GetRun(lfill, lpos) \in 1..(Size - lpos)
          /\ GetRun(lfill, lpos) <= lfill
          /\ n + GetRun(lfill, lpos) <= N
    BY GetRunFits DEF RingTypeOK
  <2> QED BY <2>1, <2>2, PutRunFits DEF CopyInBounds
<1> QED BY <1>1, RingTypeCorrect, PTL

-----------------------------------------------------------------------------
(* The ring buffer is a queue                                              *)

Ring == ContentOf(bytes, fill, pos)

LEMMA RingIs ==
  ASSUME RingTypeOK
  PROVE  /\ Ring \in Seq(Byte) /\ Len(Ring) = fill
         /\ Content(fill, pos) = Ring /\ Content(lfill, lpos) = ContentOf(bytes, lfill, lpos)
         /\ ContentOf(bytes, lfill, lpos) \in Seq(Byte) /\ Len(ContentOf(bytes, lfill, lpos)) = lfill
<1>1. Ring \in Seq(Byte) /\ Len(Ring) = fill
  BY ContentIs DEF Ring, RingTypeOK
<1>2. /\ ContentOf(bytes, lfill, lpos) \in Seq(Byte) /\ Len(ContentOf(bytes, lfill, lpos)) = lfill
  BY ContentIs DEF RingTypeOK
<1>3. Content(fill, pos) = Ring /\ Content(lfill, lpos) = ContentOf(bytes, lfill, lpos)
  BY DEF Content, ContentOf, Ring
<1> QED BY <1>1, <1>2, <1>3

LEMMA NothingOf ==
  ASSUME NEW S, NEW s, NEW m \in Int
  PROVE  SubSeq(s, m + 1, m + 0) = <<>> /\ SubSeq(s, 1, 0) = <<>>
BY SubSeqEmpty

(* What users see between calls.                                           *)
LEMMA IdleView ==
  RingTypeOK /\ ~busy => QueueView = Ring /\ LastView = [op |-> op, n |-> n, data |-> data]
<1> SUFFICES ASSUME RingTypeOK, ~busy
             PROVE  QueueView = Ring /\ LastView = [op |-> op, n |-> n, data |-> data]
  OBVIOUS
<1>1. ToMove = 0 /\ n + 0 = n
  BY DEF ToMove, RingTypeOK
<1> QED BY <1>1, RingIs DEF QueueView, LastView

LEMMA InitIsQueue == RingInit => Queue!Init
<1> SUFFICES ASSUME RingInit PROVE QueueView = <<>> /\ LastView = [op |-> "clear", n |-> 0, data |-> <<>>]
  BY DEF Queue!Init
<1>1. RingTypeOK /\ ~busy
  BY InitTyped DEF RingInv, RingInit
<1>2. Ring = <<>>
  <2>1. Ring \in Seq(Byte) /\ Len(Ring) = 0
    BY <1>1, RingIs DEF RingInit
  <2> QED BY <2>1, EmptySeq
<1>3. op = "clear" /\ n = 0 /\ data = <<>>
  BY DEF RingInit
<1> QED BY <1>1, <1>2, <1>3, IdleView

LEMMA ClearIsQueue ==
  ASSUME RingInv, Clear, RingInv'
  PROVE  Queue!Clear
<1>1. /\ ~busy' /\ fill' = 0 /\ op' = "clear" /\ data' = <<>> /\ n' = 0 /\ bytes' = bytes
  BY DEF Clear
<1>2. RingTypeOK' /\ RingTypeOK
  BY DEF RingInv
<1>3. QueueView' = Ring' /\ LastView' = [op |-> "clear", n |-> 0, data |-> <<>>]
  <2>1. QueueView' = Ring' /\ LastView' = [op |-> op', n |-> n', data |-> data']
    <3>1. (RingTypeOK /\ ~busy => QueueView = Ring /\ LastView = [op |-> op, n |-> n, data |-> data])'
      BY IdleView, PTL
    <3> QED BY <3>1, <1>1, <1>2
  <2> QED BY <2>1, <1>1
<1>4. Ring' = <<>>
  <2>1. Ring' = [j \in 1..0 |-> bytes'[(pos' + j - 1) % Size]]
    BY <1>1 DEF Ring, ContentOf
  <2> QED BY <2>1, EmptySeq
<1> QED BY <1>3, <1>4 DEF Queue!Clear

(* What a running call makes of the queue, and of what it returns.         *)
PutLeft == Smaller(N - n, Size - fill)
GetLeft == Smaller(N - n, fill)
PeekLeft == Smaller(N - n, lfill)
PeekRing == ContentOf(bytes, lfill, lpos)

LEMMA PutView ==
  RingTypeOK /\ busy /\ op = "put" =>
    /\ QueueView = Ring \o SubSeq(data, n + 1, n + PutLeft)
    /\ LastView = [op |-> "put", n |-> n + PutLeft, data |-> data]
<1> SUFFICES ASSUME RingTypeOK, busy, op = "put"
             PROVE  /\ QueueView = Ring \o SubSeq(data, n + 1, n + PutLeft)
                    /\ LastView = [op |-> "put", n |-> n + PutLeft, data |-> data]
  OBVIOUS
<1>1. ToMove = PutLeft
  BY DEF ToMove, PutLeft
<1> QED BY <1>1, RingIs DEF QueueView, LastView

LEMMA GetView ==
  RingTypeOK /\ busy /\ op = "get" =>
    /\ QueueView = SubSeq(Ring, GetLeft + 1, fill)
    /\ LastView = [op |-> "get", n |-> n + GetLeft, data |-> data \o SubSeq(Ring, 1, GetLeft)]
<1> SUFFICES ASSUME RingTypeOK, busy, op = "get"
             PROVE  /\ QueueView = SubSeq(Ring, GetLeft + 1, fill)
                    /\ LastView = [op |-> "get", n |-> n + GetLeft,
                                    data |-> data \o SubSeq(Ring, 1, GetLeft)]
  OBVIOUS
<1>1. ToMove = GetLeft
  BY DEF ToMove, GetLeft
<1> QED BY <1>1, RingIs DEF QueueView, LastView

LEMMA PeekView ==
  RingTypeOK /\ busy /\ op = "peek" =>
    /\ QueueView = Ring
    /\ LastView = [op |-> "peek", n |-> n + PeekLeft, data |-> data \o SubSeq(PeekRing, 1, PeekLeft)]
<1> SUFFICES ASSUME RingTypeOK, busy, op = "peek"
             PROVE  /\ QueueView = Ring
                    /\ LastView = [op |-> "peek", n |-> n + PeekLeft,
                                    data |-> data \o SubSeq(PeekRing, 1, PeekLeft)]
  OBVIOUS
<1>1. ToMove = PeekLeft
  BY DEF ToMove, PeekLeft
<1> QED BY <1>1, RingIs DEF QueueView, LastView, PeekRing

LEMMA PutCallIsQueue ==
  ASSUME RingInv, RingInv', NEW d \in Blocks, StartPut(d)
  PROVE  Queue!Put(d)
<1> DEFINE k == Smaller(Len(d), Size - fill)
<1>1. RingTypeOK /\ RingTypeOK' /\ ~busy
  BY DEF RingInv, StartPut
<1>2. QueueView = Ring /\ Len(Ring) = fill
  BY <1>1, IdleView, RingIs
<1>3. /\ busy' = TRUE /\ op' = "put" /\ data' = d /\ N' = Len(d) /\ n' = 0
      /\ fill' = fill /\ Ring' = Ring
  BY DEF StartPut, ring, Ring
<1>4. (RingTypeOK /\ busy /\ op = "put" =>
        /\ QueueView = Ring \o SubSeq(data, n + 1, n + PutLeft)
        /\ LastView = [op |-> "put", n |-> n + PutLeft, data |-> data])'
  BY PutView, PTL
<1>5. PutLeft' = k /\ 0 + k = k /\ 0 + 1 = 1
  <2>1. Len(d) \in Nat /\ fill \in Nat /\ Size \in Nat
    BY <1>1, BlocksAreSequences, SizeAssumption DEF RingTypeOK
  <2>2. PutLeft' = Smaller(Len(d) - 0, Size - fill)
    BY <1>3 DEF PutLeft
  <2> QED BY <2>1, <2>2 DEF Smaller
<1> HIDE DEF k
<1>6. QueueView' = Ring \o SubSeq(d, 1, k) /\ LastView' = [op |-> "put", n |-> k, data |-> d]
  BY <1>1, <1>3, <1>4, <1>5
<1>7. k = Queue!Least(Len(d), Size - Len(QueueView))
  BY <1>2 DEF k, Smaller, Queue!Least
<1> QED BY <1>2, <1>6, <1>7 DEF Queue!Put

LEMMA PutCopyStutters ==
  ASSUME RingInv, RingInv', PutCopy
  PROVE  UNCHANGED <<QueueView, LastView>>
<1> DEFINE k == PutRun
           m == PutLeft
<1>1. RingTypeOK /\ RingTypeOK' /\ busy /\ op = "put" /\ Len(data) = N
  BY DEF RingInv, PutCopy
<1>2. busy' = TRUE /\ op' = "put" /\ data' = data /\ N' = N /\ pos' = pos
  BY <1>1 DEF PutCopy
<1>3. /\ k \in Nat \ {0} /\ fill' = fill + k /\ n' = n + k /\ k <= Size - fill /\ n + k <= N
      /\ Ring' = Ring \o SubSeq(data, n + 1, n + k)
  BY <1>2, PutCopyDoes DEF Ring
<1>4. /\ Size \in Nat /\ fill \in Nat /\ fill <= Size /\ n \in Nat /\ N \in Nat /\ n <= N
      /\ data \in Seq(Byte)
  BY <1>1, SizeAssumption DEF RingTypeOK
<1> HIDE DEF k
<1>5. m \in Nat /\ n + m <= N /\ k <= m /\ PutLeft' = m - k
  BY <1>2, <1>3, <1>4 DEF PutLeft, Smaller
<1> HIDE DEF m
<1>6. /\ QueueView = Ring \o SubSeq(data, n + 1, n + m)
      /\ LastView = [op |-> "put", n |-> n + m, data |-> data]
  BY <1>1, PutView DEF m
<1>7. (RingTypeOK /\ busy /\ op = "put" =>
        /\ QueueView = Ring \o SubSeq(data, n + 1, n + PutLeft)
        /\ LastView = [op |-> "put", n |-> n + PutLeft, data |-> data])'
  BY PutView, PTL
<1>8. /\ QueueView' = Ring' \o SubSeq(data, n' + 1, n' + (m - k))
      /\ LastView' = [op |-> "put", n |-> n' + (m - k), data |-> data]
  BY <1>1, <1>2, <1>5, <1>7
<1>9. n' + (m - k) = n + m /\ n' + 1 = (n + k) + 1
  BY <1>3, <1>4, <1>5
<1>10. LastView' = LastView
  BY <1>6, <1>8, <1>9
<1>11. QueueView' = QueueView
  <2> DEFINE u == SubSeq(data, n + 1, n + k)
             v == SubSeq(data, (n + k) + 1, n + m)
             w == SubSeq(data, n + 1, n + m)
  <2>1. Ring \in Seq(Byte)
    BY <1>1, RingIs
  <2>2. u \in Seq(Byte) /\ v \in Seq(Byte)
    <3>1. Len(data) \in Nat /\ n + k \in 0..Len(data) /\ n + m \in 0..Len(data)
          /\ n + 1 \in Nat \ {0} /\ (n + k) + 1 \in Nat \ {0}
          /\ n + 1 <= (n + k) + 1 /\ (n + k) + 1 <= (n + m) + 1
      BY <1>1, <1>3, <1>4, <1>5
    <3> QED BY <3>1, <1>4, Piece
  <2>3. u \o v = w
    <3>1. n + 1 \in 1..Len(data) + 1 /\ n + k \in (n + 1) - 1..Len(data) /\ n + m \in n + k..Len(data)
      BY <1>1, <1>3, <1>4, <1>5
    <3> QED BY <3>1, <1>4, ConcatAdjacentSubSeq
  <2>4. QueueView' = (Ring \o u) \o v /\ QueueView = Ring \o w
    BY <1>3, <1>6, <1>8, <1>9
  <2> HIDE DEF u, v, w
  <2>5. (Ring \o u) \o v = Ring \o (u \o v)
    BY <2>1, <2>2, ConcatAssociative
  <2> QED BY <2>3, <2>4, <2>5
<1> QED BY <1>10, <1>11

LEMMA PutReturnStutters ==
  ASSUME RingInv, RingInv', PutReturn
  PROVE  UNCHANGED <<QueueView, LastView>>
<1>1. RingTypeOK /\ RingTypeOK' /\ busy /\ op = "put" /\ ~PutMore
  BY DEF RingInv, PutReturn
<1>2. /\ ~busy' /\ op' = "put" /\ data' = data /\ n' = n /\ Ring' = Ring
  BY <1>1 DEF PutReturn, ring, Ring
<1>3. PutLeft = 0 /\ n \in Int
  BY <1>1, SizeAssumption DEF PutMore, PutLeft, Smaller, RingTypeOK
<1>4. (RingTypeOK /\ ~busy => QueueView = Ring /\ LastView = [op |-> op, n |-> n, data |-> data])'
  BY IdleView, PTL
<1>5. QueueView' = Ring /\ LastView' = [op |-> "put", n |-> n, data |-> data]
  BY <1>1, <1>2, <1>4
<1>6. QueueView = Ring \o SubSeq(data, n + 1, n + 0)
      /\ LastView = [op |-> "put", n |-> n + 0, data |-> data]
  BY <1>1, <1>3, PutView
<1>7. Ring \o SubSeq(data, n + 1, n + 0) = Ring
  BY <1>1, <1>3, NothingOf, RingIs, ConcatEmptySeq
<1> QED BY <1>3, <1>5, <1>6, <1>7

(* Taking k bytes and then m - k is taking m.                              *)
TakenInTwo(c, d, k, m) ==
  /\ (d \o SubSeq(c, 1, k)) \o SubSeq(SubSeq(c, k + 1, Len(c)), 1, m - k) = d \o SubSeq(c, 1, m)
  /\ SubSeq(SubSeq(c, k + 1, Len(c)), (m - k) + 1, Len(c) - k) = SubSeq(c, m + 1, Len(c))

LEMMA TakenTwice ==
  ASSUME NEW c \in Seq(Byte), NEW d \in Seq(Byte), NEW k \in Nat, NEW m \in Nat,
         k <= m, m <= Len(c)
  PROVE  TakenInTwo(c, d, k, m)
<1> DEFINE l == Len(c)
           u == SubSeq(c, 1, k)
           v == SubSeq(c, k + 1, m)
           w == SubSeq(c, 1, m)
           r == SubSeq(c, k + 1, Len(c))
<1>1. l \in Nat /\ m <= l /\ k \in 0..l
  BY LenProperties
<1>2. SubSeq(r, 1, m - k) = v
  <2>1. m - k \in 0..(Len(c) - k) /\ 1 \in Nat \ {0} /\ 1 <= (m - k) + 1 /\ k + (m - k) = m
    BY <1>1
  <2>2. SubSeq(r, 1, m - k) = SubSeq(c, k + 1, k + (m - k))
    BY <1>1, <2>1, PieceOfRest
  <2> QED BY <2>1, <2>2
<1>3. SubSeq(r, (m - k) + 1, l - k) = SubSeq(c, m + 1, l)
  <2>1. /\ l - k \in 0..(Len(c) - k) /\ (m - k) + 1 \in Nat \ {0} /\ (m - k) + 1 <= (l - k) + 1
        /\ k + ((m - k) + 1) = m + 1 /\ k + (l - k) = l
    BY <1>1
  <2>2. SubSeq(r, (m - k) + 1, l - k) = SubSeq(c, k + ((m - k) + 1), k + (l - k))
    BY <1>1, <2>1, PieceOfRest
  <2> QED BY <2>1, <2>2
<1>4. u \in Seq(Byte) /\ v \in Seq(Byte)
  <2>1. /\ k \in 0..Len(c) /\ m \in 0..Len(c) /\ 1 \in Nat \ {0} /\ k + 1 \in Nat \ {0}
        /\ 1 <= k + 1 /\ k + 1 <= m + 1
    BY <1>1
  <2> QED BY <2>1, Piece
<1>5. u \o v = w
  <2>1. 1 \in 1..Len(c) + 1 /\ k \in 1 - 1..Len(c) /\ m \in k..Len(c)
    BY <1>1
  <2> QED BY <2>1, ConcatAdjacentSubSeq
<1> HIDE DEF u, v, w, r
<1>6. (d \o u) \o v = d \o (u \o v)
  BY <1>4, ConcatAssociative
<1>7. (d \o u) \o SubSeq(r, 1, m - k) = d \o w
  BY <1>2, <1>5, <1>6
<1> QED BY <1>3, <1>7 DEF TakenInTwo, u, w, r, l

LEMMA GetCallIsQueue ==
  ASSUME RingInv, RingInv', NEW m \in 0..MaxRequest, StartGet(m)
  PROVE  Queue!Get(m)
<1> DEFINE k == Smaller(m, fill)
<1>1. RingTypeOK /\ RingTypeOK' /\ ~busy
  BY DEF RingInv, StartGet
<1>2. QueueView = Ring /\ Ring \in Seq(Byte) /\ Len(Ring) = fill
  BY <1>1, IdleView, RingIs
<1>3. /\ busy' = TRUE /\ op' = "get" /\ data' = <<>> /\ N' = m /\ n' = 0
      /\ fill' = fill /\ Ring' = Ring
  BY DEF StartGet, ring, Ring
<1>4. (RingTypeOK /\ busy /\ op = "get" =>
        /\ QueueView = SubSeq(Ring, GetLeft + 1, fill)
        /\ LastView = [op |-> "get", n |-> n + GetLeft, data |-> data \o SubSeq(Ring, 1, GetLeft)])'
  BY GetView, PTL
<1>5. GetLeft' = k /\ 0 + k = k /\ k \in 0..fill /\ fill \in Nat
  <2>1. m \in Nat /\ fill \in Nat
    BY <1>1, MaxRequestAssumption, SizeAssumption DEF RingTypeOK
  <2>2. GetLeft' = Smaller(m - 0, fill)
    BY <1>3 DEF GetLeft
  <2> QED BY <2>1, <2>2 DEF Smaller
<1> HIDE DEF k
<1>6. /\ QueueView' = SubSeq(Ring, k + 1, fill)
      /\ LastView' = [op |-> "get", n |-> k, data |-> <<>> \o SubSeq(Ring, 1, k)]
  BY <1>1, <1>3, <1>4, <1>5
<1>7. <<>> \o SubSeq(Ring, 1, k) = SubSeq(Ring, 1, k)
  <2>1. k \in 0..Len(Ring) /\ 1 \in Nat \ {0} /\ 1 <= k + 1
    BY <1>2, <1>5
  <2>2. SubSeq(Ring, 1, k) \in Seq(Byte)
    BY <1>2, <2>1, Piece
  <2> QED BY <2>2, ConcatEmptySeq
<1>8. k = Queue!Least(m, Len(QueueView))
  BY <1>2 DEF k, Smaller, Queue!Least
<1> QED BY <1>2, <1>6, <1>7, <1>8 DEF Queue!Get

LEMMA PeekCallIsQueue ==
  ASSUME RingInv, RingInv', NEW m \in 0..MaxRequest, StartPeek(m)
  PROVE  Queue!Peek(m)
<1> DEFINE k == Smaller(m, fill)
<1>1. RingTypeOK /\ RingTypeOK' /\ ~busy
  BY DEF RingInv, StartPeek
<1>2. QueueView = Ring /\ Ring \in Seq(Byte) /\ Len(Ring) = fill
  BY <1>1, IdleView, RingIs
<1>3. /\ busy' = TRUE /\ op' = "peek" /\ data' = <<>> /\ N' = m /\ n' = 0
      /\ lfill' = fill /\ Ring' = Ring /\ PeekRing' = Ring
  BY DEF StartPeek, ring, Ring, PeekRing
<1>4. (RingTypeOK /\ busy /\ op = "peek" =>
        /\ QueueView = Ring
        /\ LastView = [op |-> "peek", n |-> n + PeekLeft,
                       data |-> data \o SubSeq(PeekRing, 1, PeekLeft)])'
  BY PeekView, PTL
<1>5. PeekLeft' = k /\ 0 + k = k /\ k \in 0..fill /\ fill \in Nat
  <2>1. m \in Nat /\ fill \in Nat
    BY <1>1, MaxRequestAssumption, SizeAssumption DEF RingTypeOK
  <2>2. PeekLeft' = Smaller(m - 0, fill)
    BY <1>3 DEF PeekLeft
  <2> QED BY <2>1, <2>2 DEF Smaller
<1> HIDE DEF k
<1>6. /\ QueueView' = Ring
      /\ LastView' = [op |-> "peek", n |-> k, data |-> <<>> \o SubSeq(Ring, 1, k)]
  BY <1>1, <1>3, <1>4, <1>5
<1>7. <<>> \o SubSeq(Ring, 1, k) = SubSeq(Ring, 1, k)
  <2>1. k \in 0..Len(Ring) /\ 1 \in Nat \ {0} /\ 1 <= k + 1
    BY <1>2, <1>5
  <2>2. SubSeq(Ring, 1, k) \in Seq(Byte)
    BY <1>2, <2>1, Piece
  <2> QED BY <2>2, ConcatEmptySeq
<1>8. k = Queue!Least(m, Len(QueueView))
  BY <1>2 DEF k, Smaller, Queue!Least
<1> QED BY <1>2, <1>6, <1>7, <1>8 DEF Queue!Peek

LEMMA GetCopyStutters ==
  ASSUME RingInv, RingInv', GetCopy
  PROVE  UNCHANGED <<QueueView, LastView>>
<1> DEFINE k == GetRun(fill, pos)
           m == GetLeft
<1>1. RingTypeOK /\ RingTypeOK' /\ busy /\ op = "get" /\ GetMore(fill)
  BY DEF RingInv, GetCopy
<1>2. /\ busy' = TRUE /\ op' = "get" /\ N' = N /\ bytes' = bytes
      /\ data' = data \o Run(pos, k) /\ n' = n + k /\ fill' = fill - k /\ pos' = Advance(pos, k)
  BY <1>1 DEF GetCopy
<1>3. k \in 1..(Size - pos) /\ k <= fill /\ n + k <= N
  BY <1>1, GetRunFits DEF RingTypeOK
<1> HIDE DEF k
<1>4. /\ Size \in Nat /\ fill \in Nat /\ n \in Nat /\ N \in Nat /\ data \in Seq(Byte)
      /\ k \in Nat /\ k \in 0..fill
      /\ fill \in 0..Size /\ pos \in Index /\ bytes \in [Index -> Byte]
  BY <1>1, <1>3, SizeAssumption DEF RingTypeOK, Index
<1>5. m \in Nat /\ k <= m /\ m <= fill /\ GetLeft' = m - k
  BY <1>2, <1>3, <1>4 DEF GetLeft, Smaller
<1> HIDE DEF m
<1>6. Ring \in Seq(Byte) /\ Len(Ring) = fill
  BY <1>1, RingIs
<1>7. data' = data \o SubSeq(Ring, 1, k) /\ Ring' = SubSeq(Ring, k + 1, fill)
  <2>1. Run(pos, k) = SubSeq(Ring, 1, k)
    BY <1>1, <1>4, RunIs DEF Ring
  <2>2. ContentOf(bytes, fill - k, Advance(pos, k)) = SubSeq(Ring, k + 1, fill)
    BY <1>4, ContentParts DEF Ring
  <2> QED BY <1>2, <2>1, <2>2 DEF Ring
<1>8. /\ QueueView = SubSeq(Ring, m + 1, fill)
      /\ LastView = [op |-> "get", n |-> n + m, data |-> data \o SubSeq(Ring, 1, m)]
  BY <1>1, GetView DEF m
<1>9. (RingTypeOK /\ busy /\ op = "get" =>
        /\ QueueView = SubSeq(Ring, GetLeft + 1, fill)
        /\ LastView = [op |-> "get", n |-> n + GetLeft, data |-> data \o SubSeq(Ring, 1, GetLeft)])'
  BY GetView, PTL
<1>10. /\ QueueView' = SubSeq(SubSeq(Ring, k + 1, fill), (m - k) + 1, fill - k)
       /\ LastView' = [op |-> "get", n |-> n' + (m - k),
                       data |-> (data \o SubSeq(Ring, 1, k)) \o SubSeq(SubSeq(Ring, k + 1, fill), 1, m - k)]
  BY <1>1, <1>2, <1>5, <1>7, <1>9
<1>11. n' + (m - k) = n + m
  BY <1>2, <1>4, <1>5
<1>12. /\ (data \o SubSeq(Ring, 1, k)) \o SubSeq(SubSeq(Ring, k + 1, fill), 1, m - k)
            = data \o SubSeq(Ring, 1, m)
       /\ SubSeq(SubSeq(Ring, k + 1, fill), (m - k) + 1, fill - k) = SubSeq(Ring, m + 1, fill)
  <2>1. Ring \in Seq(Byte) /\ data \in Seq(Byte) /\ k \in Nat /\ m \in Nat /\ k <= m /\ m <= Len(Ring)
    BY <1>4, <1>5, <1>6
  <2>2. TakenInTwo(Ring, data, k, m)
    BY <2>1, TakenTwice
  <2> QED BY <2>2, <1>6 DEF TakenInTwo
<1> QED BY <1>8, <1>10, <1>11, <1>12

LEMMA PeekCopyStutters ==
  ASSUME RingInv, RingInv', PeekCopy
  PROVE  UNCHANGED <<QueueView, LastView>>
<1> DEFINE k == GetRun(lfill, lpos)
           m == PeekLeft
<1>1. RingTypeOK /\ RingTypeOK' /\ busy /\ op = "peek" /\ GetMore(lfill)
  BY DEF RingInv, PeekCopy
<1>2. /\ busy' = TRUE /\ op' = "peek" /\ N' = N /\ bytes' = bytes /\ fill' = fill /\ pos' = pos
      /\ data' = data \o Run(lpos, k) /\ n' = n + k /\ lfill' = lfill - k /\ lpos' = Advance(lpos, k)
  BY <1>1 DEF PeekCopy, ring
<1>3. k \in 1..(Size - lpos) /\ k <= lfill /\ n + k <= N
  BY <1>1, GetRunFits DEF RingTypeOK
<1> HIDE DEF k
<1>4. /\ Size \in Nat /\ lfill \in Nat /\ n \in Nat /\ N \in Nat /\ data \in Seq(Byte)
      /\ k \in Nat /\ k \in 0..lfill
      /\ lfill \in 0..Size /\ lpos \in Index /\ bytes \in [Index -> Byte]
  BY <1>1, <1>3, SizeAssumption DEF RingTypeOK, Index
<1>5. m \in Nat /\ k <= m /\ m <= lfill /\ PeekLeft' = m - k
  BY <1>2, <1>3, <1>4 DEF PeekLeft, Smaller
<1> HIDE DEF m
<1>6. PeekRing \in Seq(Byte) /\ Len(PeekRing) = lfill
  BY <1>1, RingIs DEF PeekRing
<1>7. data' = data \o SubSeq(PeekRing, 1, k) /\ PeekRing' = SubSeq(PeekRing, k + 1, lfill)
  <2>1. Run(lpos, k) = SubSeq(PeekRing, 1, k)
    BY <1>1, <1>4, RunIs DEF PeekRing
  <2>2. ContentOf(bytes, lfill - k, Advance(lpos, k)) = SubSeq(PeekRing, k + 1, lfill)
    BY <1>4, ContentParts DEF PeekRing
  <2> QED BY <1>2, <2>1, <2>2 DEF PeekRing
<1>8. /\ QueueView = Ring /\ Ring' = Ring
      /\ LastView = [op |-> "peek", n |-> n + m, data |-> data \o SubSeq(PeekRing, 1, m)]
  BY <1>1, <1>2, PeekView DEF m, Ring
<1>9. (RingTypeOK /\ busy /\ op = "peek" =>
        /\ QueueView = Ring
        /\ LastView = [op |-> "peek", n |-> n + PeekLeft,
                       data |-> data \o SubSeq(PeekRing, 1, PeekLeft)])'
  BY PeekView, PTL
<1>10. /\ QueueView' = Ring'
       /\ LastView' = [op |-> "peek", n |-> n' + (m - k),
                       data |-> (data \o SubSeq(PeekRing, 1, k))
                                  \o SubSeq(SubSeq(PeekRing, k + 1, lfill), 1, m - k)]
  BY <1>1, <1>2, <1>5, <1>7, <1>9
<1>11. n' + (m - k) = n + m
  BY <1>2, <1>4, <1>5
<1>12. (data \o SubSeq(PeekRing, 1, k)) \o SubSeq(SubSeq(PeekRing, k + 1, lfill), 1, m - k)
         = data \o SubSeq(PeekRing, 1, m)
  <2>1. PeekRing \in Seq(Byte) /\ data \in Seq(Byte) /\ k \in Nat /\ m \in Nat /\ k <= m /\ m <= Len(PeekRing)
    BY <1>4, <1>5, <1>6
  <2>2. TakenInTwo(PeekRing, data, k, m)
    BY <2>1, TakenTwice
  <2> QED BY <2>2, <1>6 DEF TakenInTwo
<1> QED BY <1>8, <1>10, <1>11, <1>12

LEMMA GetReturnStutters ==
  ASSUME RingInv, RingInv', GetReturn
  PROVE  UNCHANGED <<QueueView, LastView>>
<1>1. RingTypeOK /\ RingTypeOK' /\ busy /\ op = "get" /\ ~GetMore(fill)
  BY DEF RingInv, GetReturn
<1>2. /\ ~busy' /\ op' = "get" /\ data' = data /\ n' = n /\ Ring' = Ring
  BY <1>1 DEF GetReturn, ring, Ring
<1>3. GetLeft = 0 /\ n \in Int /\ n + 0 = n /\ data \in Seq(Byte)
  BY <1>1, SizeAssumption DEF GetMore, GetLeft, Smaller, RingTypeOK
<1>4. (RingTypeOK /\ ~busy => QueueView = Ring /\ LastView = [op |-> op, n |-> n, data |-> data])'
  BY IdleView, PTL
<1>5. QueueView' = Ring /\ LastView' = [op |-> "get", n |-> n, data |-> data]
  BY <1>1, <1>2, <1>4
<1>6. /\ QueueView = SubSeq(Ring, 0 + 1, fill)
      /\ LastView = [op |-> "get", n |-> n + 0, data |-> data \o SubSeq(Ring, 1, 0)]
  BY <1>1, <1>3, GetView
<1>7. SubSeq(Ring, 0 + 1, fill) = Ring
  <2>1. 0 + 1 = 1 /\ Ring \in Seq(Byte) /\ Len(Ring) = fill
    BY <1>1, RingIs
  <2> QED BY <2>1, SubSeqFull
<1>8. data \o SubSeq(Ring, 1, 0) = data
  BY <1>3, NothingOf, ConcatEmptySeq
<1> QED BY <1>3, <1>5, <1>6, <1>7, <1>8

LEMMA PeekReturnStutters ==
  ASSUME RingInv, RingInv', PeekReturn
  PROVE  UNCHANGED <<QueueView, LastView>>
<1>1. RingTypeOK /\ RingTypeOK' /\ busy /\ op = "peek" /\ ~GetMore(lfill)
  BY DEF RingInv, PeekReturn
<1>2. /\ ~busy' /\ op' = "peek" /\ data' = data /\ n' = n /\ Ring' = Ring
  BY <1>1 DEF PeekReturn, ring, Ring
<1>3. PeekLeft = 0 /\ n \in Int /\ n + 0 = n /\ data \in Seq(Byte)
  BY <1>1, SizeAssumption DEF GetMore, PeekLeft, Smaller, RingTypeOK
<1>4. (RingTypeOK /\ ~busy => QueueView = Ring /\ LastView = [op |-> op, n |-> n, data |-> data])'
  BY IdleView, PTL
<1>5. QueueView' = Ring /\ LastView' = [op |-> "peek", n |-> n, data |-> data]
  BY <1>1, <1>2, <1>4
<1>6. /\ QueueView = Ring
      /\ LastView = [op |-> "peek", n |-> n + 0, data |-> data \o SubSeq(PeekRing, 1, 0)]
  BY <1>1, <1>3, PeekView
<1>7. data \o SubSeq(PeekRing, 1, 0) = data
  BY <1>3, NothingOf, ConcatEmptySeq
<1> QED BY <1>3, <1>5, <1>6, <1>7

LEMMA StepIsQueue ==
  ASSUME RingInv, RingInv', [RingNext]_ringVars
  PROVE  [Queue!Next]_(Queue!vars)
<1>1. CASE \E d \in Blocks : StartPut(d)
  BY <1>1, PutCallIsQueue DEF Queue!Next, Blocks, Queue!Blocks
<1>2. CASE \E m \in 0..MaxRequest : StartGet(m) \/ StartPeek(m)
  BY <1>2, GetCallIsQueue, PeekCallIsQueue DEF Queue!Next
<1>3. CASE PutCopy \/ PutReturn \/ GetCopy \/ GetReturn \/ PeekCopy \/ PeekReturn
  BY <1>3, PutCopyStutters, PutReturnStutters, GetCopyStutters, GetReturnStutters,
     PeekCopyStutters, PeekReturnStutters DEF Queue!vars
<1>4. CASE Clear
  BY <1>4, ClearIsQueue DEF Queue!Next
<1>5. CASE UNCHANGED ringVars
  <2>1. QueueView' = QueueView /\ LastView' = LastView
    BY <1>5 DEF ringVars, QueueView, LastView, ToMove, Content
  <2> QED BY <2>1 DEF Queue!vars
<1> QED BY <1>1, <1>2, <1>3, <1>4, <1>5 DEF RingNext

(* The ring buffer is a first-in first-out queue: for rings of any size,   *)
(* bytes of any kind and requests of any length, put() keeps as many bytes *)
(* as fit, in their order, and get() and peek() return the oldest ones     *)
(* (fifo_buf.cc:16-76).                                                    *)
THEOREM RingIsFifo == RingSpec => IsFifo
<1>1. RingInit => Queue!Init
  BY InitIsQueue
<1>2. RingInv /\ RingInv' /\ [RingNext]_ringVars => [Queue!Next]_(Queue!vars)
  BY StepIsQueue
<1> QED BY <1>1, <1>2, RingTypeCorrect, PTL DEF RingSpec, IsFifo, Queue!Spec
=============================================================================
