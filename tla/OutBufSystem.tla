---------------------------- MODULE OutBufSystem ----------------------------
(***************************************************************************)
(* The output buffer with the threads that use it, as the program uses it: *)
(* a producer, that puts sound in pieces, stops, resets and sets the time  *)
(* in the order player() of server/output/player.cc and play_thread() of   *)
(* server/audio.cc do, waits for the reader before it touches the device,  *)
(* and frees the buffer with nothing left to play; and a controller, the   *)
(* server's thread, that pauses and unpauses when it likes.                *)
(*                                                                         *)
(* A unit of sound carries the stream it belongs to (a stream ends with    *)
(* out_buf_reset) and its place in it.                                     *)
(***************************************************************************)
EXTENDS OutBuf

CONSTANTS Batch,        \* bound: the units of one out_buf_put()
          MaxPos,       \* bound: the places of a stream
          MaxStreams,   \* bound: the streams
          MaxPauses,    \* bound: the calls of out_buf_pause()
          UseCallback   \* a free_callback may be set

ASSUME EnvAssumption == /\ Batch \in Nat \ {0} /\ MaxPos \in Nat
                        /\ MaxStreams \in Nat /\ MaxPauses \in Nat
                        /\ UseCallback \in BOOLEAN

VARIABLES ppc,       \* where the producer is
          pending,   \* what is left of the data given to out_buf_put()
          stream,    \* the stream being put
          nextPos,   \* the place of the next unit to put
          pauses     \* how often the controller has paused

producer == <<ppc, pending, stream, nextPos>>
vars == <<obVars, producer, pauses>>

Producer == "producer"

Unit == [stream : 0..MaxStreams, pos : 0..MaxPos]

Init == /\ OutBufInit
        /\ ppc = "run" /\ pending = <<>> /\ stream = 0 /\ nextPos = 0
        /\ pauses = 0

(* out_buf_put() of the k next units.                                      *)
PutCall(k) ==
  /\ ppc = "run" /\ nextPos + k <= MaxPos
  /\ pending' = [i \in 1..k |-> [stream |-> stream, pos |-> nextPos + i - 1]]
  /\ nextPos' = nextPos + k
  /\ ppc' = "put"
  /\ UNCHANGED <<obVars, stream, pauses>>

PutWaits == /\ ppc = "put" /\ Producer \notin sleepers /\ PutSleep(Producer)
            /\ UNCHANGED <<producer, pauses>>

PutWrites ==
  /\ ppc = "put" /\ Producer \notin sleepers
  /\ PutSome(pending)
  /\ pending' = SubSeq(pending, Fitting(pending) + 1, Len(pending))
  /\ ppc' = IF pending' = <<>> THEN "run" ELSE "put"
  /\ UNCHANGED <<stream, nextPos, pauses>>

(* The player stops the buffer, resets it and sets the time of what it     *)
(* will put next, each before it puts anything again.                      *)
StopBegins == /\ ppc = "run" /\ stream < MaxStreams
              /\ StopCall(Producer)
              /\ ppc' = "stopping"
              /\ UNCHANGED <<pending, stream, nextPos, pauses>>

StopEnds == /\ ppc = "stopping" /\ StopReturn(Producer)
            /\ ppc' = "stopped"
            /\ UNCHANGED <<pending, stream, nextPos, pauses>>

(* out_buf_reset(), also called with the buffer played out, where a new    *)
(* song starts.                                                            *)
StreamReset == /\ ppc \in {"stopped", "quiet"} /\ stream < MaxStreams
               /\ Reset
               /\ stream' = stream + 1
               /\ ppc' = "reset"
               /\ UNCHANGED <<pending, nextPos, pauses>>

TimeIsSet(v) == /\ ppc = "reset" /\ TimeSet(v)
                /\ nextPos' = v
                /\ ppc' = "run"
                /\ UNCHANGED <<pending, stream, pauses>>

(* The end of a song: the player has found the buffer empty and waits for  *)
(* the reader before the device is opened or closed.                       *)
WaitBegins == /\ ppc = "run" /\ MutexFree /\ buf = <<>>
              /\ ppc' = "waiting"
              /\ UNCHANGED <<obVars, pending, stream, nextPos, pauses>>

WaitSleeps == /\ ppc = "waiting" /\ Producer \notin sleepers
              /\ WaitSleep(Producer)
              /\ UNCHANGED <<producer, pauses>>

(* The producer has the device to itself until it is done with it.         *)
WaitEnds == /\ ppc = "waiting" /\ Producer \notin sleepers
            /\ WaitReturn
            /\ ppc' = "quiet"
            /\ UNCHANGED <<pending, stream, nextPos, pauses>>

DeviceDone == /\ ppc = "quiet" /\ ppc' = "run"
              /\ UNCHANGED <<obVars, pending, stream, nextPos, pauses>>

InstallCallback == /\ UseCallback /\ ppc = "run" /\ ~callback /\ SetCallback
                   /\ UNCHANGED <<producer, pauses>>

(* out_buf_free(): "can be used only if nothing is played".                *)
FreeBegins == /\ ppc = "quiet" /\ ExitCall
              /\ ppc' = "joining"
              /\ UNCHANGED <<pending, stream, nextPos, pauses>>

FreeEnds == /\ ppc = "joining" /\ ExitJoin
            /\ ppc' = "done"
            /\ UNCHANGED <<pending, stream, nextPos, pauses>>

(* The controller frees the buffer itself, so it is not pausing it then.   *)
ControlPause == /\ pauses < MaxPauses /\ ~exit /\ Pause
                /\ pauses' = pauses + 1
                /\ UNCHANGED producer

ControlUnpause == /\ pause /\ ~exit /\ Unpause
                  /\ UNCHANGED <<producer, pauses>>

ReaderMoves == ReaderStep /\ UNCHANGED <<producer, pauses>>

Drain == DeviceDrains /\ UNCHANGED <<producer, pauses>>

Done == ppc = "done" /\ UNCHANGED vars

ProducerInCall == \/ PutWaits \/ PutWrites \/ StopEnds \/ StreamReset \/ WaitSleeps
                  \/ WaitEnds \/ FreeEnds \/ \E v \in 0..MaxPos : TimeIsSet(v)

Next == \/ \E k \in 1..Batch : PutCall(k)
        \/ PutWaits \/ PutWrites
        \/ StopBegins \/ StopEnds \/ StreamReset
        \/ \E v \in 0..MaxPos : TimeIsSet(v)
        \/ WaitBegins \/ WaitSleeps \/ WaitEnds \/ DeviceDone
        \/ InstallCallback \/ FreeBegins \/ FreeEnds
        \/ ControlPause \/ ControlUnpause
        \/ ReaderMoves \/ Drain
        \/ Done

Spec == Init /\ [][Next]_vars

(* The threads are scheduled: the reader goes on whenever it can, and so   *)
(* does the producer inside a call; audio_open() succeeds in the end.      *)
(* Nothing makes the producer call, or the controller unpause.             *)
OpenSucceeds == rpc = "opening" /\ ReaderOpened /\ ~devClosed' /\ UNCHANGED <<producer, pauses>>

FairSpec == /\ Spec
            /\ WF_vars(ReaderMoves)
            /\ SF_vars(OpenSucceeds)
            /\ SF_vars(ProducerInCall)

-----------------------------------------------------------------------------
ProducerPlaces == {"run", "put", "stopping", "stopped", "reset", "waiting",
                   "quiet", "joining", "done"}

TypeOK ==
  /\ buf \in Seq(Unit) /\ chunk \in Seq(Unit) /\ pending \in Seq(Unit)
  /\ Len(buf) <= BufSize /\ Len(chunk) <= Chunk /\ played \in 0..Len(chunk)
  /\ pause \in BOOLEAN /\ stop \in BOOLEAN /\ exit \in BOOLEAN
  /\ resetDev \in BOOLEAN /\ callback \in BOOLEAN /\ waiting \in BOOLEAN
  /\ devClosed \in BOOLEAN /\ hw \in BOOLEAN
  /\ time \in Nat /\ nextPos \in 0..MaxPos /\ stream \in 0..MaxStreams
  /\ rpc \in ReaderPlaces /\ ppc \in ProducerPlaces
  /\ sleepers \subseteq {Producer}
  /\ pauses \in 0..MaxPauses

(* After a seek or a stop, and the reset that follows, no sound of before  *)
(* is in the buffer or in the reader's hands (out_buf.cc:135-136, 284-312).*)
NoStaleSound == \A i \in 1..Len(Held) : Held[i].stream = stream

(* out_buf::time is the place of the sound the reader is sending or will   *)
(* send next, whatever was put, stopped, paused or set in between          *)
(* (out_buf.cc:212-217, 314-319).                                          *)
TimeTracksSound ==
  ~stop /\ ppc # "reset" =>
    /\ time + Len(Held) + Len(pending) = nextPos
    /\ \A i \in 1..Len(Held) : Held[i].pos = time + i - 1

(* Why these hold, as an invariant every step keeps.  The sound held by    *)
(* the reader, that in the buffer and that still to be put follow each     *)
(* other in the current stream, from the place the time tells on.          *)
Timed == ~stop /\ ppc # "reset"

HeldInOrder ==
  /\ \A i \in 1..Len(chunk) :
       chunk[i].stream = stream /\ (Timed => chunk[i].pos = time + i - 1)
  /\ \A i \in 1..Len(buf) :
       buf[i].stream = stream /\ (Timed => buf[i].pos = time + Len(chunk) + i - 1)
  /\ Timed => time + Len(chunk) + Len(buf) + Len(pending) = nextPos

PendingIsNext ==
  /\ ppc # "put" => pending = <<>>
  /\ \A i \in 1..Len(pending) : /\ pending[i].stream = stream
                                /\ pending[i].pos = nextPos - Len(pending) + i - 1

(* The reader holds sound only where it sends it, and tells it waits only  *)
(* where it does.                                                          *)
ReaderHolds == /\ rpc # "send" => chunk = <<>>
               /\ waiting <=> rpc \in {"wait", "woken"}

(* From the broadcast that ends out_buf_stop() on, the reader takes        *)
(* nothing; where the producer has played out or reset the buffer, there   *)
(* is nothing.                                                             *)
StopHolds == /\ stop <=> ppc \in {"stopping", "stopped"}
             /\ ppc = "stopped" => chunk = <<>>
             /\ ppc = "stopping" /\ Producer \notin sleepers => chunk = <<>>
             /\ ppc \in {"waiting", "quiet", "reset", "joining", "done"} => buf = <<>>
             /\ ppc \in {"quiet", "reset", "joining", "done"} => chunk = <<>>

SoundAccounted == HeldInOrder /\ PendingIsNext /\ ReaderHolds /\ StopHolds

(* Every out_buf_put() ends, unless the buffer is paused under it.         *)
PutReturns == ppc = "put" ~> (ppc # "put" \/ pause)

(* out_buf_stop() gets its broadcast, paused or not.                       *)
StopReturns == ppc = "stopping" ~> ppc = "stopped"

(* out_buf_wait() sees the reader waiting.                                 *)
WaitReturns == ppc = "waiting" ~> ppc # "waiting"

(* The reader leaves when the buffer is freed.                             *)
FreeReturns == ppc = "joining" ~> ppc = "done"

(* Every call that sleeps on a condition of the buffer returns.            *)
CallsReturn == PutReturns /\ StopReturns /\ WaitReturns /\ FreeReturns

(* The sound promised to be played: what is being sent, and what is held   *)
(* unless the buffer is stopped.                                           *)
Promised == InFlight \o (IF stop THEN <<>> ELSE buf)

Stream == INSTANCE SoundStream WITH queue <- Promised, stopped <- stop,
                                    Capacity <- BufSize + Chunk

(* The output buffer hands the device the sound put into it in order,      *)
(* whole, up to a stop, and is reset only with nothing on its way.         *)
IsSoundStream == Stream!Spec
=============================================================================
