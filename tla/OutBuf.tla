------------------------------- MODULE OutBuf -------------------------------
(***************************************************************************)
(* The output buffer of src/server/output/out_buf.cc: the buffer between   *)
(* the thread that decodes and the sound device, its reading thread, and   *)
(* the functions other threads call on it.                                 *)
(*                                                                         *)
(* A critical section of out_buf::mutex is one action.  The reading thread *)
(* keeps the mutex while it uses the device and across turns of its loop:  *)
(* rpc names the place it is at, and the other threads' actions need       *)
(* MutexFree.  Sound is a sequence of units; that the bytes of the ring    *)
(* behave as a sequence is FifoBuf's IsFifo.                               *)
(***************************************************************************)
EXTENDS Integers, Sequences, FiniteSets

CONSTANTS BufSize,      \* units of sound the buffer holds
          Chunk,        \* units the reader takes at once (AUDIO_MAX_PLAY)
          OpenMayFail   \* audio_open() can fail

ASSUME BufSizeAssumption == BufSize \in Nat \ {0}
ASSUME ChunkAssumption == Chunk \in Nat \ {0}
ASSUME OpenAssumption == OpenMayFail \in BOOLEAN

VARIABLES
  buf,        \* out_buf::buf, the sound held, oldest first
  pause, stop, exit, resetDev,   \* the flags of out_buf (reset_dev)
  time,       \* out_buf::time, in units
  callback,   \* out_buf::free_callback is set
  waiting,    \* out_buf::read_thread_waiting
  rpc,        \* where the reading thread is
  devClosed,  \* its local audio_dev_closed
  chunk,      \* its local play_buf
  played,     \* its local play_buf_pos
  sleepers,   \* the threads asleep on ready_cond
  hw          \* the device holds sound it has not made heard yet

flags == <<pause, stop, exit, resetDev, callback>>
reader == <<rpc, waiting, devClosed, chunk, played>>
obVars == <<buf, pause, stop, exit, resetDev, time, callback, waiting, rpc,
            devClosed, chunk, played, sleepers, hw>>

Least(a, b) == IF a < b THEN a ELSE b

OutBufInit ==
  /\ buf = <<>> /\ pause = FALSE /\ stop = FALSE /\ exit = FALSE
  /\ resetDev = FALSE /\ time = 0 /\ callback = FALSE /\ waiting = FALSE
  /\ rpc = "top" /\ devClosed = FALSE /\ chunk = <<>> /\ played = 0
  /\ sleepers = {} /\ hw = FALSE

-----------------------------------------------------------------------------
(* The reading thread                                                      *)

ReaderPlaces == {"top", "callback", "ready", "closing", "wait", "woken",
                 "past", "opening", "tail", "send", "exited"}

(* The reader does not hold out_buf::mutex.                                *)
MutexFree == rpc \in {"callback", "wait", "woken", "send", "exited"}

(* The reset of the device that was asked for, at the head of the loop.    *)
DeviceReset == resetDev /\ ~devClosed

(* Head of the loop: the sound of a stopped buffer is given up.            *)
KeptAtTopUnlessReset == IF stop \/ resetDev THEN <<>> ELSE buf
KeptAtTop == IF stop THEN <<>> ELSE buf

ReaderTop ==
  /\ rpc = "top"
  /\ resetDev' = (resetDev /\ devClosed)
  /\ hw' = (hw /\ ~DeviceReset)
  /\ buf' = KeptAtTop
  /\ rpc' = IF callback THEN "callback" ELSE "ready"
  /\ UNCHANGED <<pause, stop, exit, callback, time, waiting, devClosed, chunk,
                 played, sleepers>>

(* free_callback() has run, with the mutex released.                       *)
ReaderCallbackDone ==
  /\ rpc = "callback" /\ rpc' = "ready"
  /\ UNCHANGED <<buf, flags, time, waiting, devClosed, chunk, played, sleepers, hw>>

NothingToPlay == (buf = <<>> \/ pause \/ stop) /\ ~exit

(* A broadcast of ready_cond wakes every thread that sleeps on it.         *)
AsleepWhenEmpty == IF buf = <<>> THEN sleepers ELSE {}
AsleepAfterBroadcast == {}

(* Broadcast ready_cond; then sleep on play_cond, close the device first   *)
(* when paused, or go on.                                                  *)
ReaderReady ==
  /\ rpc = "ready"
  /\ sleepers' = AsleepAfterBroadcast
  /\ rpc' = IF ~NothingToPlay THEN "past"
            ELSE IF pause /\ ~devClosed THEN "closing" ELSE "wait"
  /\ waiting' = (rpc' = "wait")
  /\ UNCHANGED <<buf, flags, time, devClosed, chunk, played, hw>>

ReaderClosed ==
  /\ rpc = "closing"
  /\ devClosed' = TRUE /\ hw' = FALSE /\ waiting' = TRUE /\ rpc' = "wait"
  /\ UNCHANGED <<buf, flags, time, chunk, played, sleepers>>

ReaderPast ==
  /\ rpc \in {"woken", "past"}
  /\ waiting' = FALSE
  /\ rpc' = IF devClosed /\ ~pause THEN "opening" ELSE "tail"
  /\ UNCHANGED <<buf, flags, time, devClosed, chunk, played, sleepers, hw>>

(* audio_open(NULL); after a failure the reader sleeps a second and goes on. *)
ReaderOpened ==
  /\ rpc = "opening"
  /\ devClosed' \in (IF OpenMayFail THEN BOOLEAN ELSE {FALSE})
  /\ rpc' = "tail"
  /\ UNCHANGED <<buf, flags, time, waiting, chunk, played, sleepers, hw>>

(* What the reader may take from the buffer now.                           *)
MayTake == ~pause /\ ~stop /\ ~devClosed

ReaderExit ==
  /\ rpc = "tail" /\ buf = <<>> /\ exit
  /\ rpc' = "exited"
  /\ UNCHANGED <<buf, flags, time, waiting, devClosed, chunk, played, sleepers, hw>>

ReaderAgain ==
  /\ rpc = "tail"
  /\ IF buf = <<>> THEN ~exit ELSE ~MayTake
  /\ rpc' = "top"
  /\ UNCHANGED <<buf, flags, time, waiting, devClosed, chunk, played, sleepers, hw>>

Rest(k) == SubSeq(buf, k + 1, Len(buf))

ReaderTake ==
  /\ rpc = "tail" /\ buf # <<>> /\ MayTake
  /\ LET k == Least(Chunk, Len(buf)) IN
       chunk' = SubSeq(buf, 1, k) /\ buf' = Rest(k)
  /\ played' = 0
  /\ rpc' = "send"
  /\ UNCHANGED <<flags, time, waiting, devClosed, sleepers, hw>>

(* audio_send_pcm(), with the mutex released; it may send less than asked. *)
ReaderSend ==
  /\ rpc = "send" /\ played < Len(chunk)
  /\ played' = played + 1 /\ hw' = TRUE
  /\ UNCHANGED <<buf, flags, time, waiting, rpc, devClosed, chunk, sleepers>>

SentTimeOfChunk == time + Chunk
SentTime == time + Len(chunk)

ReaderSent ==
  /\ rpc = "send" /\ played = Len(chunk)
  /\ time' = SentTime
  /\ chunk' = <<>> /\ played' = 0
  /\ rpc' = "top"
  /\ UNCHANGED <<buf, flags, waiting, devClosed, sleepers, hw>>

(* The device makes heard what it was sent.                                *)
DeviceDrains == hw /\ hw' = FALSE /\ UNCHANGED <<buf, flags, time, reader, sleepers>>

ReaderStep == \/ ReaderTop \/ ReaderCallbackDone \/ ReaderReady \/ ReaderClosed
              \/ ReaderPast \/ ReaderOpened \/ ReaderExit \/ ReaderAgain
              \/ ReaderTake \/ ReaderSend \/ ReaderSent

-----------------------------------------------------------------------------
(* The functions other threads call                                        *)

(* Where the reader is once play_cond is signalled.                        *)
NotSignalled == rpc
Signalled == IF rpc = "wait" THEN "woken" ELSE rpc

(* Waiting on ready_cond: the thread sleeps, and goes on once a broadcast  *)
(* has woken it and the mutex is free.                                     *)
Sleep(t) == sleepers' = sleepers \cup {t}
Woken(t) == MutexFree /\ t \notin sleepers

Full == Len(buf) >= BufSize

(* out_buf_put(): one turn of its loop sleeps while the buffer is full, or *)
(* writes as much of us as there is room for.  (Its refusal of a stopped   *)
(* buffer is out of reach: the thread that puts is the one that stops, and *)
(* it resets the buffer before it puts again.)                             *)
PutSleep(t) == /\ MutexFree /\ Full /\ ~stop
               /\ Sleep(t)
               /\ UNCHANGED <<buf, flags, time, reader, hw>>

Fitting(us) == Least(Len(us), BufSize - Len(buf))

PutSome(us) == /\ MutexFree /\ ~stop /\ ~Full
               /\ buf' = buf \o SubSeq(us, 1, Fitting(us))
               /\ rpc' = Signalled
               /\ UNCHANGED <<flags, time, waiting, devClosed, chunk, played,
                              sleepers, hw>>

Pause == /\ MutexFree
         /\ pause' = TRUE /\ resetDev' = TRUE
         /\ UNCHANGED <<buf, stop, exit, callback, time, reader, sleepers, hw>>

Unpause == /\ MutexFree
           /\ pause' = FALSE /\ rpc' = Signalled
           /\ UNCHANGED <<buf, stop, exit, resetDev, callback, time, waiting,
                          devClosed, chunk, played, sleepers, hw>>

(* out_buf_stop(): it waits for one broadcast of ready_cond.               *)
StopCall(t) == /\ MutexFree
               /\ stop' = TRUE /\ pause' = FALSE /\ resetDev' = TRUE
               /\ rpc' = Signalled
               /\ Sleep(t)
               /\ UNCHANGED <<buf, exit, callback, time, waiting, devClosed,
                              chunk, played, hw>>

StopReturn(t) == Woken(t) /\ UNCHANGED obVars

KeptOnReset == buf
KeptByReset == <<>>

Reset == /\ MutexFree
         /\ buf' = KeptByReset /\ stop' = FALSE /\ pause' = FALSE /\ resetDev' = FALSE
         /\ UNCHANGED <<exit, callback, time, reader, sleepers, hw>>

TimeSet(v) == /\ MutexFree /\ time' = v
              /\ UNCHANGED <<buf, flags, reader, sleepers, hw>>

SetCallback == /\ MutexFree /\ callback' = TRUE
               /\ UNCHANGED <<buf, pause, stop, exit, resetDev, time, reader,
                              sleepers, hw>>

(* out_buf_wait(): the condition its loop waits for.                       *)
BufferEmpty == buf = <<>>
ReaderIdle == waiting

WaitSleep(t) == /\ MutexFree /\ ~ReaderIdle
                /\ Sleep(t)
                /\ UNCHANGED <<buf, flags, time, reader, hw>>

WaitReturn == MutexFree /\ ReaderIdle /\ UNCHANGED obVars

(* out_buf_free(): ask the reader to exit, join it, clear the buffer and   *)
(* tell whoever still sleeps.                                              *)
ExitCall == /\ MutexFree
            /\ exit' = TRUE /\ rpc' = Signalled
            /\ UNCHANGED <<buf, pause, stop, resetDev, callback, time, waiting,
                           devClosed, chunk, played, sleepers, hw>>

ExitJoin == /\ rpc = "exited"
            /\ buf' = <<>> /\ sleepers' = {}
            /\ UNCHANGED <<flags, time, reader, hw>>

-----------------------------------------------------------------------------
(* The sound on its way to the device: being sent, then held.              *)
InFlight == SubSeq(chunk, played + 1, Len(chunk))
Held == chunk \o buf
=============================================================================
