----------------------------- MODULE AudioEngine -----------------------------
(***************************************************************************)
(* The playing engine: the thread that plays (play_thread() of             *)
(* server/audio.cc, which runs player() of server/output/player.cc), the   *)
(* thread that precaches the next song, the reader of the output buffer    *)
(* (OutBuf) with its callback, and the server's thread, which turns the    *)
(* clients' commands into requests to the playing thread.                  *)
(*                                                                         *)
(* Sound is counted in units of what the device takes: Song[s] gives the   *)
(* sound parameters of each unit of song s.  What a decoder gives may be   *)
(* smaller before it is converted (audio.cc:470): Growth[sp] units then    *)
(* need the room of one.  The playlist is the songs in their order, played *)
(* once; ServerPlist models the real one.                                  *)
(***************************************************************************)
EXTENDS OutBuf

CONSTANTS Params,       \* the sound parameters (SoundParams)
          Song,         \* the songs, each the sequence of its units' parameters
          Bad,          \* the songs no decoder opens
          PcmSize,      \* units a decoder's buffer holds (PCM_BUF_SIZE)
          Growth,       \* units the device's conversion makes of one unit
          SeekMayFail,  \* Codec::seek() can fail inside a song
          Slow,         \* the parameters of less than 88200 bytes a second
          Commands,     \* the commands clients send
          MaxCmds       \* bound: how many of them, before a last stop

Songs == 1..Len(Song)

ASSUME SongAssumption == Song \in Seq(Seq(Params)) /\ Bad \subseteq Songs
ASSUME CommandsAssumption == MaxCmds \in Nat

(* A decoder that has decoded nothing has no sound parameters (player.cc:  *)
(* 209: channels of -1); sound has 1 or 2 channels (audio.h:71).           *)
ASSUME ParamsAssumption == "none" \notin Params

(* OutputBuffer: "Minimum value is 128KB" (data/config.example:123), more  *)
(* than PCM_BUF_SIZE; but what is converted may need more than that.       *)
ASSUME PcmAssumption == PcmSize \in 1..BufSize /\ Growth \in [Params -> Nat \ {0}]

VARIABLES
  cur, invalid,                     \* playlist.current(), 0 when stopped; the invalid songs
  state,                            \* audio.cc state
  stopPlaying, playNext, playPrev,  \* requests to play_thread()
  request, reqSeek,                 \* requests to player(): request, req_seek
  running,                          \* play_thread_running
  ppc,                              \* where the playing thread is
  file, nextFile,                   \* its locals file and next, 0 for none
  dec,                              \* the decoder it uses
  stopped, seekPos,                 \* its locals stopped and pos
  pending,                          \* what is left of the data given to out_buf_put()
  stream,                           \* how often the buffer has been reset
  precache, precaching,             \* precache.decoder, precache.running
  cpc,                              \* where the precaching thread is
  opened, devSp,                    \* audio_opened and the parameters last asked of audio_open()
  notified,                         \* buf_free_cb() has broadcast request_cond
  spc, then,                        \* where the server's thread is, and what it plays next
  cmds                              \* the commands handled

plist == <<cur, invalid>>
requests == <<stopPlaying, playNext, playPrev, request, reqSeek>>
locals == <<file, nextFile, dec, stopped, seekPos, pending, stream>>
pre == <<precache, precaching, cpc>>
device == <<opened, devSp, notified>>
server == <<running, spc, then, cmds>>
vars == <<obVars, plist, state, requests, ppc, locals, pre, device, server>>

NoDecoder == [song |-> 0, dpos |-> 0, fill |-> 0, done |-> TRUE, sp |-> "none",
              changed |-> FALSE]

Init == /\ OutBufInit
        /\ cur = 0 /\ invalid = {} /\ state = "stop"
        /\ stopPlaying = FALSE /\ playNext = FALSE /\ playPrev = FALSE
        /\ request = "nothing" /\ reqSeek = 0
        /\ running = FALSE /\ ppc = "none"
        /\ file = 0 /\ nextFile = 0 /\ dec = NoDecoder
        /\ stopped = FALSE /\ seekPos = -1 /\ pending = <<>> /\ stream = 0
        /\ precache = NoDecoder /\ precaching = FALSE /\ cpc = "none"
        /\ opened = FALSE /\ devSp = "none" /\ notified = FALSE
        /\ spc = "idle" /\ then = 0 /\ cmds = 0

Player == "player"

-----------------------------------------------------------------------------
(* The playlist, as far as the engine asks it                              *)

Valid == Songs \ invalid
After(s) == {t \in Valid : t > s}
Before(s) == {t \in Valid : t < s}
First(S) == CHOOSE s \in S : \A t \in S : s <= t
Last(S) == CHOOSE s \in S : \A t \in S : s >= t

NextSong(force) == IF After(cur) # {} THEN First(After(cur))
                   ELSE IF force /\ Valid # {} THEN First(Valid) ELSE 0
PrevSong == IF Before(cur) # {} THEN Last(Before(cur))
            ELSE IF Valid # {} THEN Last(Valid) ELSE 0

(* The server's thread holds plist_mtx across a pause and an unpause.      *)
PlistFree == spc \notin {"pausing", "unpausing"}

(* audio_fail_file()                                                       *)
FailFile(s) == PlistFree /\ invalid' = invalid \cup {s}

-----------------------------------------------------------------------------
(* Decoders                                                                *)

Opened(s) == [song |-> s, dpos |-> 0, fill |-> 0, done |-> FALSE, sp |-> "none",
              changed |-> FALSE]

(* The units that n units' room before the conversion makes, after it.     *)
Grown(n, sp) == IF sp = "none" THEN n ELSE n * Growth[sp]

PcmFull(d) == d.fill >= Grown(PcmSize, d.sp)

(* DecoderState::decode(): one unit more, or the end of the song.          *)
Decoded(d) ==
  IF d.done \/ PcmFull(d) THEN d
  ELSE IF d.dpos < Len(Song[d.song])
       THEN LET sp == Song[d.song][d.dpos + 1]
            IN [d EXCEPT !.dpos = @ + 1, !.fill = @ + 1, !.sp = sp,
                         !.changed = @ \/ sp # d.sp]
       ELSE [d EXCEPT !.done = TRUE]

(* A song that ends before it gave any sound is marked as broken.          *)
Broken(d) == ~d.done /\ d.sp = "none" /\ Song[d.song] = <<>>

(* What the precaching thread leaves: a decoder with its buffer full or    *)
(* its song at the end, a decoder opened anew when the sound parameters    *)
(* change on the way, none when the song does not open.                    *)
PrecacheRoom(s) == Grown(PcmSize, Song[s][1])
PrecacheFill(s) == IF Song[s] = <<>> THEN 0 ELSE Least(PrecacheRoom(s), Len(Song[s]))

Precached(s) ==
  IF s \in Bad THEN NoDecoder
  ELSE IF \E i \in 2..PrecacheFill(s) : Song[s][i] # Song[s][1] THEN Opened(s)
  ELSE [Opened(s) EXCEPT !.dpos = PrecacheFill(s), !.fill = PrecacheFill(s),
                         !.done = Song[s] = <<>> \/ Len(Song[s]) < PrecacheRoom(s),
                         !.sp = IF Song[s] = <<>> THEN "none" ELSE Song[s][1]]

(* precache_thread(), whose data no other thread touches while it runs.    *)
PrecacheRuns ==
  /\ cpc = "run"
  /\ precache' = Precached(precache.song)
  /\ IF precache.song \in Bad \/ Song[precache.song] = <<>>
     THEN FailFile(precache.song) ELSE invalid' = invalid
  /\ cpc' = "done"
  /\ UNCHANGED <<obVars, cur, state, requests, ppc, locals, precaching, device, server>>

-----------------------------------------------------------------------------
(* The playing thread: choosing a song                                     *)

PlayerGoes(from, to) == ppc = from /\ ppc' = to

PickSong ==
  /\ ppc = "pick" /\ PlistFree
  /\ ppc' = IF cur = 0 THEN "ending" ELSE "clear"
  /\ file' = IF cur \in Valid THEN cur ELSE 0
  /\ nextFile' = NextSong(FALSE)
  /\ UNCHANGED <<obVars, plist, state, requests, dec, stopped, seekPos, pending,
                 stream, pre, device, server>>

ClearNextOnly ==
  /\ ppc = "clear" /\ ppc' = IF file = 0 THEN "advance" ELSE "timezero"
  /\ playNext' = FALSE /\ playPrev' = playPrev
  /\ UNCHANGED <<obVars, plist, state, stopPlaying, request, reqSeek, locals, pre,
                 device, server>>

ClearSkips ==
  /\ ppc = "clear" /\ ppc' = IF file = 0 THEN "advance" ELSE "timezero"
  /\ playNext' = FALSE /\ playPrev' = FALSE
  /\ UNCHANGED <<obVars, plist, state, stopPlaying, request, reqSeek, locals, pre,
                 device, server>>

TimeZero ==
  /\ PlayerGoes("timezero", "reset") /\ TimeSet(0)
  /\ UNCHANGED <<plist, state, requests, locals, pre, device, server>>

Advance ==
  /\ ppc = "advance" /\ PlistFree
  /\ cur' = CASE stopPlaying -> 0
              [] ~stopPlaying /\ playPrev -> PrevSong
              [] ~stopPlaying /\ ~playPrev -> NextSong(playNext)
  /\ ppc' = IF cur' = 0 THEN "ending" ELSE "pick"
  /\ UNCHANGED <<obVars, invalid, state, requests, locals, pre, device, server>>

EndPlaying == /\ PlayerGoes("ending", "closing") /\ state' = "stop"
              /\ UNCHANGED <<obVars, plist, requests, locals, pre, device, server>>

CloseDevice == /\ PlayerGoes("closing", "ended") /\ opened' = FALSE /\ hw' = FALSE
               /\ UNCHANGED <<buf, flags, time, reader, sleepers, plist, state, requests, locals, pre, devSp,
                              notified, server>>

-----------------------------------------------------------------------------
(* The playing thread: player() up to its loop                             *)

PlayerReset ==
  /\ PlayerGoes("reset", "join") /\ Reset
  /\ stream' = stream + 1 /\ stopped' = FALSE /\ dec' = NoDecoder
  /\ UNCHANGED <<plist, state, requests, file, nextFile, seekPos, pending, pre,
                 device, server>>

(* precache.finish(), then the precached decoder if it is the one wanted.  *)
UsePrecached == precache.song = file

JoinPrecache ==
  /\ ppc = "join" /\ cpc \in {"none", "done"}
  /\ cpc' = "none" /\ precaching' = FALSE /\ precache' = NoDecoder
  /\ IF UsePrecached THEN ppc' = "preopen" /\ dec' = precache
                     ELSE ppc' = "new" /\ dec' = dec
  /\ UNCHANGED <<obVars, plist, state, requests, file, nextFile, stopped, seekPos,
                 pending, stream, device, server>>

(* audio_open(): nothing to do if the device is opened with these          *)
(* parameters, unless they are slow; else it is closed and opened, which   *)
(* can fail.                                                               *)
OpenAlready(sp) == opened /\ devSp = sp /\ sp \notin Slow
AudioOpens(sp) == /\ devSp' = sp
                  /\ opened' \in (IF OpenMayFail /\ ~OpenAlready(sp)
                                  THEN BOOLEAN ELSE {TRUE})

PcmUnits(d) == [i \in 1..d.fill |-> [stream |-> stream, song |-> d.song,
                                     pos |-> d.dpos - d.fill + i - 1]]

PrecachedOpen ==
  /\ ppc = "preopen" /\ AudioOpens(dec.sp)
  /\ IF opened' THEN /\ ppc' = "preflush"
                     /\ pending' = PcmUnits(dec) /\ dec' = [dec EXCEPT !.fill = 0]
                ELSE /\ ppc' = "after"
                     /\ UNCHANGED <<pending, dec>>
  /\ UNCHANGED <<obVars, plist, state, requests, file, nextFile, stopped, seekPos,
                 stream, pre, notified, server>>

(* if (d->done && !d->buf_fill) return, with the buffer already flushed.   *)
NothingDecoded(d) == d.done /\ d.fill = 0

PrecachedReady ==
  /\ ppc = "preflush" /\ pending = <<>>
  /\ ppc' = IF NothingDecoded(dec) THEN "after" ELSE "start"
  /\ UNCHANGED <<obVars, plist, state, requests, locals, pre, device, server>>

NewDecoder ==
  /\ ppc = "new"
  /\ IF file \in Bad THEN ppc' = "after" /\ FailFile(file) /\ dec' = dec
                     ELSE ppc' = "start" /\ invalid' = invalid /\ dec' = Opened(file)
  /\ UNCHANGED <<obVars, cur, state, requests, file, nextFile, stopped, seekPos,
                 pending, stream, pre, device, server>>

StartPlaying ==
  /\ PlayerGoes("start", "callback") /\ state' = "play"
  /\ UNCHANGED <<obVars, plist, requests, locals, pre, device, server>>

InstallCallback ==
  /\ PlayerGoes("callback", "decode") /\ SetCallback
  /\ UNCHANGED <<plist, state, requests, locals, pre, device, server>>

-----------------------------------------------------------------------------
(* The playing thread: the loop of player()                                *)

Free == BufSize - Len(buf)

(* What is decoded fits the free room, as it is before its conversion.     *)
FitsBuffer == dec.fill <= Grown(Free, dec.sp)

Decode ==
  /\ ppc = "decode"
  /\ dec' = Decoded(dec)
  /\ IF Broken(dec) THEN FailFile(dec.song) ELSE invalid' = invalid
  /\ ppc' = "room"
  /\ UNCHANGED <<obVars, cur, state, requests, file, nextFile, stopped, seekPos,
                 pending, stream, pre, device, server>>

(* No room for what is decoded, or all is decoded and some is held: wait.  *)
CheckRoom ==
  /\ ppc = "room" /\ MutexFree
  /\ ppc' = IF ~FitsBuffer THEN "precache" ELSE IF dec.done THEN "held" ELSE "request"
  /\ UNCHANGED <<obVars, plist, state, requests, locals, pre, device, server>>

CheckHeld ==
  /\ ppc = "held" /\ MutexFree
  /\ ppc' = IF buf # <<>> THEN "precache" ELSE "request"
  /\ UNCHANGED <<obVars, plist, state, requests, locals, pre, device, server>>

StartPrecache ==
  /\ PlayerGoes("precache", "lock")
  /\ IF nextFile # 0 /\ ~precaching /\ precache.song = 0
     THEN /\ precaching' = TRUE /\ cpc' = "run"
          /\ precache' = [NoDecoder EXCEPT !.song = nextFile]
     ELSE UNCHANGED pre
  /\ UNCHANGED <<obVars, plist, state, requests, locals, device, server>>

(* The thread sleeps on request_cond whatever has been requested or played *)
(* since it looked.                                                        *)
WaitRequest ==
  /\ ppc = "lock" /\ ppc' = "asleep"
  /\ UNCHANGED <<obVars, plist, state, requests, locals, pre, device, server>>

(* Where the playing thread is once request_cond is signalled.             *)
Awake == IF ppc = "asleep" THEN "request" ELSE ppc

TakeRequest ==
  /\ ppc = "request"
  /\ request' = "nothing"
  /\ ppc' = CASE request = "stop" -> "stop"
              [] request = "seek" -> "seek"
              [] request = "nothing" -> "flush"
  /\ UNCHANGED <<obVars, plist, state, stopPlaying, playNext, playPrev, reqSeek,
                 locals, pre, device, server>>

PlayerStop ==
  /\ PlayerGoes("stop", "stopping") /\ StopCall(Player)
  /\ stopped' = TRUE
  /\ UNCHANGED <<plist, state, requests, file, nextFile, dec, seekPos, pending,
                 stream, pre, device, server>>

PlayerStopped ==
  /\ PlayerGoes("stopping", "delete") /\ StopReturn(Player)
  /\ UNCHANGED <<plist, state, requests, locals, pre, device, server>>

(* A seek inside the song moves the codec; one past its end ends the song; *)
(* a seek that fails is forgotten.                                         *)
AfterSeek(d, p) == [d EXCEPT !.dpos = p]

SeekInside == /\ reqSeek < Len(Song[dec.song])
              /\ seekPos' = reqSeek
              /\ dec' = AfterSeek(dec, reqSeek)
              /\ UNCHANGED stopped

SeekToEnd == /\ reqSeek >= Len(Song[dec.song]) /\ Song[dec.song] # <<>>
             /\ seekPos' = Len(Song[dec.song])
             /\ dec' = [dec EXCEPT !.done = TRUE]
             /\ stopped' = TRUE

PlayerSeek ==
  /\ PlayerGoes("seek", "seekstop")
  /\ SeekInside \/ SeekToEnd
  /\ UNCHANGED <<obVars, plist, state, requests, file, nextFile, pending, stream,
                 pre, device, server>>

PlayerSeekFails ==
  /\ PlayerGoes("seek", "flush")
  /\ IF reqSeek < Len(Song[dec.song]) THEN SeekMayFail ELSE Song[dec.song] = <<>>
  /\ UNCHANGED <<obVars, plist, state, requests, locals, pre, device, server>>

SeekStop ==
  /\ PlayerGoes("seekstop", "seekstopping") /\ StopCall(Player)
  /\ UNCHANGED <<plist, state, requests, locals, pre, device, server>>

SeekStopped ==
  /\ PlayerGoes("seekstopping", "seekreset") /\ StopReturn(Player)
  /\ UNCHANGED <<plist, state, requests, locals, pre, device, server>>

SeekReset ==
  /\ PlayerGoes("seekreset", "seektime") /\ Reset
  /\ stream' = stream + 1
  /\ UNCHANGED <<plist, state, requests, file, nextFile, dec, stopped, seekPos,
                 pending, pre, device, server>>

(* decoder->buf_fill = 0                                                   *)
PcmAfterSeek == 0

SeekTime ==
  /\ ppc = "seektime" /\ TimeSet(seekPos)
  /\ dec' = [dec EXCEPT !.fill = PcmAfterSeek]
  /\ ppc' = IF stopped THEN "delete" ELSE "flush"
  /\ UNCHANGED <<plist, state, requests, file, nextFile, stopped, seekPos, pending,
                 stream, pre, device, server>>

MayFlush == FitsBuffer /\ ~dec.changed

StartFlush ==
  /\ ppc = "flush" /\ MutexFree
  /\ IF MayFlush THEN /\ ppc' = "put"
                      /\ pending' = PcmUnits(dec) /\ dec' = [dec EXCEPT !.fill = 0]
                 ELSE /\ ppc' = "params" /\ UNCHANGED <<pending, dec>>
  /\ UNCHANGED <<obVars, plist, state, requests, file, nextFile, stopped, seekPos,
                 stream, pre, device, server>>

(* out_buf_put(), in the loop and for a precached decoder: it sleeps when  *)
(* the conversion has made more of the sound than there is room for.       *)
FlushSleeps ==
  /\ ppc \in {"put", "preflush"} /\ pending # <<>> /\ Player \notin sleepers
  /\ PutSleep(Player)
  /\ UNCHANGED <<plist, state, requests, ppc, locals, pre, device, server>>

FlushWrites ==
  /\ ppc \in {"put", "preflush"} /\ pending # <<>> /\ Player \notin sleepers
  /\ PutSome(pending)
  /\ pending' = SubSeq(pending, Fitting(pending) + 1, Len(pending))
  /\ UNCHANGED <<plist, state, requests, ppc, file, nextFile, dec, stopped,
                 seekPos, stream, pre, device, server>>

Flushed ==
  /\ PlayerGoes("put", "params") /\ pending = <<>>
  /\ UNCHANGED <<obVars, plist, state, requests, locals, pre, device, server>>

(* New sound parameters wait for the buffer to run empty and the reader to *)
(* be out of the device.                                                   *)
CheckParams ==
  /\ ppc = "params" /\ MutexFree
  /\ IF dec.changed /\ buf = <<>>
     THEN ppc' = "paramswait" /\ dec' = [dec EXCEPT !.changed = FALSE]
     ELSE ppc' = "finished" /\ dec' = dec
  /\ UNCHANGED <<obVars, plist, state, requests, file, nextFile, stopped, seekPos,
                 pending, stream, pre, device, server>>

WaitSleeps ==
  /\ ppc \in {"paramswait", "lastwait"} /\ Player \notin sleepers
  /\ WaitSleep(Player)
  /\ UNCHANGED <<plist, state, requests, ppc, locals, pre, device, server>>

ParamsWaited ==
  /\ PlayerGoes("paramswait", "open") /\ Player \notin sleepers /\ WaitReturn
  /\ UNCHANGED <<plist, state, requests, locals, pre, device, server>>

ParamsOpen ==
  /\ ppc = "open" /\ AudioOpens(dec.sp)
  /\ ppc' = IF opened' THEN "finished" ELSE "delete"
  /\ UNCHANGED <<obVars, plist, state, requests, locals, pre, notified, server>>

EverythingDecoded == dec.done
PlayedEverything == dec.done /\ buf = <<>>

CheckFinished ==
  /\ ppc = "finished" /\ MutexFree
  /\ ppc' = IF PlayedEverything THEN "delete" ELSE "decode"
  /\ UNCHANGED <<obVars, plist, state, requests, locals, pre, device, server>>

DeleteDecoder ==
  /\ PlayerGoes("delete", "lastwait") /\ dec' = NoDecoder
  /\ UNCHANGED <<obVars, plist, state, requests, file, nextFile, stopped, seekPos,
                 pending, stream, pre, device, server>>

LastWaited ==
  /\ PlayerGoes("lastwait", "after") /\ Player \notin sleepers /\ WaitReturn
  /\ UNCHANGED <<plist, state, requests, locals, pre, device, server>>

TimeZeroAfter ==
  /\ PlayerGoes("after", "advance") /\ TimeSet(0)
  /\ UNCHANGED <<plist, state, requests, locals, pre, device, server>>

PlayerStep ==
  \/ PickSong \/ ClearSkips \/ TimeZero \/ Advance \/ EndPlaying \/ CloseDevice
  \/ PlayerReset \/ JoinPrecache \/ PrecachedOpen \/ PrecachedReady \/ NewDecoder
  \/ StartPlaying \/ InstallCallback
  \/ Decode \/ CheckRoom \/ CheckHeld \/ StartPrecache \/ WaitRequest \/ TakeRequest
  \/ PlayerStop \/ PlayerStopped
  \/ PlayerSeek \/ PlayerSeekFails \/ SeekStop \/ SeekStopped \/ SeekReset \/ SeekTime
  \/ StartFlush \/ FlushSleeps \/ FlushWrites \/ Flushed
  \/ CheckParams \/ WaitSleeps \/ ParamsWaited \/ ParamsOpen \/ CheckFinished
  \/ DeleteDecoder \/ LastWaited \/ TimeZeroAfter

-----------------------------------------------------------------------------
(* The reader, in the engine: its callback and its use of the device       *)

ReaderRuns ==
  /\ ReaderTop \/ ReaderReady \/ ReaderPast \/ ReaderExit \/ ReaderAgain
     \/ ReaderTake \/ ReaderSend \/ ReaderSent
  /\ UNCHANGED <<plist, state, requests, ppc, locals, pre, device, server>>

(* buf_free_cb() wakes the playing thread, and tells the clients the time. *)
CallbackNotifies ==
  /\ rpc = "callback" /\ ~notified
  /\ notified' = TRUE /\ ppc' = Awake
  /\ UNCHANGED <<obVars, plist, state, requests, locals, pre, opened, devSp, server>>

CallbackReturns ==
  /\ notified /\ ReaderCallbackDone /\ notified' = FALSE
  /\ UNCHANGED <<plist, state, requests, ppc, locals, pre, opened, devSp, server>>

ReaderCloses ==
  /\ ReaderClosed /\ opened' = FALSE
  /\ UNCHANGED <<plist, state, requests, ppc, locals, pre, devSp, notified, server>>

ReaderReopens ==
  /\ ReaderOpened /\ opened' = ~devClosed' /\ (OpenAlready(devSp) => opened')
  /\ UNCHANGED <<plist, state, requests, ppc, locals, pre, devSp, notified, server>>

ReaderMoves == ReaderRuns \/ CallbackNotifies \/ CallbackReturns \/ ReaderCloses \/ ReaderReopens

-----------------------------------------------------------------------------
(* The server's thread                                                     *)

Command(c) == /\ spc = "idle" /\ c \in Commands /\ cmds' = cmds + 1
              /\ cmds < MaxCmds \/ (cmds = MaxCmds /\ c = "stop")

(* audio_stop(), and audio_play() of a song or, with -1, of the list.      *)
CmdStop ==
  /\ Command("stop") /\ then' = 0
  /\ IF running THEN spc' = "posting" /\ stopPlaying' = TRUE /\ UNCHANGED <<cur, state>>
     ELSE /\ IF state = "pause" THEN cur' = 0 /\ state' = "stop" ELSE UNCHANGED <<cur, state>>
          /\ UNCHANGED <<spc, stopPlaying>>
  /\ UNCHANGED <<obVars, invalid, playNext, playPrev, request, reqSeek, ppc, locals,
                 pre, device, running>>

CmdPlay(s) ==
  /\ Command("play") /\ then' = s
  /\ IF running THEN spc' = "posting" /\ stopPlaying' = TRUE
                ELSE spc' = "start" /\ UNCHANGED stopPlaying
  /\ UNCHANGED <<obVars, plist, state, playNext, playPrev, request, reqSeek, ppc,
                 locals, pre, device, running>>

(* audio_next() and audio_prev().                                          *)
CmdSkip(c) ==
  /\ c \in {"next", "prev"} /\ Command(c) /\ running
  /\ playNext' = (playNext \/ c = "next") /\ playPrev' = (playPrev \/ c = "prev")
  /\ spc' = "skipping"
  /\ UNCHANGED <<obVars, plist, state, stopPlaying, request, reqSeek, ppc, locals,
                 pre, device, running, then>>

(* player_stop()                                                           *)
PostStop ==
  /\ spc \in {"posting", "skipping"}
  /\ request' = "stop" /\ ppc' = Awake
  /\ spc' = IF spc = "posting" THEN "joining" ELSE "idle"
  /\ UNCHANGED <<obVars, plist, state, stopPlaying, playNext, playPrev, reqSeek,
                 locals, pre, device, running, then, cmds>>

JoinPlayer ==
  /\ spc = "joining" /\ ppc = "ended"
  /\ running' = FALSE /\ stopPlaying' = FALSE /\ ppc' = "none"
  /\ spc' = IF then = 0 THEN "idle" ELSE "start"
  /\ UNCHANGED <<obVars, plist, state, playNext, playPrev, request, reqSeek, locals,
                 pre, device, then, cmds>>

StartPlayer ==
  /\ spc = "start"
  /\ request' = "nothing"
  /\ cur' = IF then \in Songs THEN then ELSE IF cur = 0 THEN NextSong(TRUE) ELSE cur
  /\ ppc' = "pick" /\ running' = TRUE
  /\ spc' = "idle" /\ then' = 0
  /\ UNCHANGED <<obVars, invalid, state, stopPlaying, playNext, playPrev, reqSeek,
                 locals, pre, device, cmds>>

(* audio_pause() and audio_unpause(): first the buffer, then the state.    *)
CmdPause ==
  /\ Command("pause") /\ cur # 0 /\ Pause
  /\ spc' = "pausing"
  /\ UNCHANGED <<plist, state, requests, ppc, locals, pre, device, running, then>>

CmdUnpause ==
  /\ Command("unpause") /\ cur # 0 /\ Unpause
  /\ spc' = "unpausing"
  /\ UNCHANGED <<plist, state, requests, ppc, locals, pre, device, running, then>>

SetState ==
  /\ spc \in {"pausing", "unpausing"}
  /\ state' = IF spc = "pausing" THEN "pause" ELSE "play"
  /\ spc' = "idle"
  /\ UNCHANGED <<obVars, plist, requests, ppc, locals, pre, device, running, then, cmds>>

(* audio_jump_to() and audio_seek(): only while playing; by how much is    *)
(* kept in then until the request is posted.                               *)
CmdSeek(c, by) ==
  /\ c \in {"seek", "jump"} /\ Command(c) /\ cur # 0 /\ state = "play"
  /\ c = "jump" => by >= 0
  /\ spc' = c /\ then' = by
  /\ UNCHANGED <<obVars, plist, state, requests, ppc, locals, pre, device, running>>

(* req_seek as player() will read it.                                      *)
SeekTarget == LET t == IF spc = "jump" THEN then
                       ELSE then + (IF state = "stop" THEN 0 ELSE time)
              IN IF t < 0 THEN 0 ELSE t

PostSeek ==
  /\ spc \in {"seek", "jump"} /\ MutexFree
  /\ request' = "seek" /\ reqSeek' = SeekTarget /\ ppc' = Awake
  /\ spc' = "idle" /\ then' = 0
  /\ UNCHANGED <<obVars, plist, state, stopPlaying, playNext, playPrev, locals, pre,
                 device, running, cmds>>

ServerInCall == PostStop \/ JoinPlayer \/ StartPlayer \/ SetState \/ PostSeek

CommandHandled == \/ CmdStop \/ CmdPause \/ CmdUnpause
                  \/ \E s \in Songs \cup {-1} : CmdPlay(s)
                  \/ \E c \in Commands : CmdSkip(c) \/ \E by \in -1..1 : CmdSeek(c, by)

-----------------------------------------------------------------------------
Next == PlayerStep \/ PrecacheRuns \/ ReaderMoves \/ CommandHandled \/ ServerInCall

Spec == Init /\ [][Next]_vars

(* Every thread is scheduled, gets the mutexes it asks for, and a failed   *)
(* audio_open() of the reader is tried again until it succeeds.  Clients   *)
(* need not send anything.                                                 *)
OpenSucceeds == ReaderReopens /\ opened'

FairSpec == /\ Spec
            /\ SF_vars(PlayerStep)
            /\ WF_vars(PrecacheRuns)
            /\ WF_vars(ReaderMoves) /\ SF_vars(OpenSucceeds)
            /\ SF_vars(ServerInCall)

-----------------------------------------------------------------------------
LoopPlaces == {"decode", "room", "held", "precache", "lock", "asleep", "request",
               "flush", "put", "params", "paramswait", "open", "finished"}

PlayerPlaces == LoopPlaces \cup
  {"none", "pick", "clear", "timezero", "advance", "ending", "closing", "ended",
   "reset", "join", "preopen", "preflush", "new", "start", "callback", "stop",
   "stopping", "seek", "seekstop", "seekstopping", "seekreset", "seektime",
   "delete", "lastwait", "after"}

Unit == [stream : Nat, song : Songs \cup {0}, pos : Int]

Decoders == [song : Songs \cup {0}, dpos : Nat, fill : Nat, done : BOOLEAN,
             sp : Params \cup {"none"}, changed : BOOLEAN]

OutBufTypes ==
  /\ buf \in Seq(Unit) /\ Len(buf) <= BufSize
  /\ chunk \in Seq(Unit) /\ Len(chunk) <= Chunk /\ played \in 0..Len(chunk)
  /\ pause \in BOOLEAN /\ stop \in BOOLEAN /\ exit \in BOOLEAN /\ resetDev \in BOOLEAN
  /\ callback \in BOOLEAN /\ waiting \in BOOLEAN /\ devClosed \in BOOLEAN /\ hw \in BOOLEAN
  /\ time \in Nat /\ rpc \in ReaderPlaces /\ sleepers \subseteq {Player}

PlayerTypes ==
  /\ ppc \in PlayerPlaces /\ file \in Songs \cup {0} /\ nextFile \in Songs \cup {0}
  /\ dec \in Decoders /\ stopped \in BOOLEAN /\ seekPos \in Int
  /\ pending \in Seq(Unit) /\ stream \in Nat
  /\ opened \in BOOLEAN /\ devSp \in Params \cup {"none"} /\ notified \in BOOLEAN

PrecacheTypes ==
  precache \in Decoders /\ precaching \in BOOLEAN /\ cpc \in {"none", "run", "done"}

ServerTypes ==
  /\ cur \in Songs \cup {0} /\ invalid \subseteq Songs
  /\ state \in {"stop", "play", "pause"}
  /\ stopPlaying \in BOOLEAN /\ playNext \in BOOLEAN /\ playPrev \in BOOLEAN
  /\ request \in {"nothing", "stop", "seek"} /\ reqSeek \in Nat
  /\ running \in BOOLEAN /\ then \in Int /\ cmds \in 0..(MaxCmds + 1)
  /\ spc \in {"idle", "posting", "skipping", "joining", "start", "pausing",
              "unpausing", "seek", "jump"}

TypeOK == OutBufTypes /\ PlayerTypes /\ PrecacheTypes /\ ServerTypes

(* No song is shorter than the decoder's buffer, unless it has no sound: a *)
(* shorter one that was precached is not played but skipped.               *)
LongSongs == \A s \in Songs \ Bad : Song[s] = <<>> \/ Len(Song[s]) >= PrecacheRoom(s)

(* What the reader has while a song is played is that song from the place  *)
(* the time tells, put there since the buffer was last reset (player.cc:   *)
(* 305-435), but for short songs (LongSongs).                              *)
SoundInPlace ==
  ppc \in LoopPlaces =>
    \A i \in 1..Len(Held) :
      Held[i] = [stream |-> stream, song |-> dec.song, pos |-> time + i - 1]

(* Each piece of sound is sent to a device opened with its parameters      *)
(* (player.cc:405-414, audio.cc:377-462), whatever songs, pauses and       *)
(* failures came before, but for the songs whose parameters change: sound  *)
(* that waits in the decoder's buffer is sent with the new parameters.     *)
OneFormat(s) == \A i, j \in 1..Len(Song[s]) : Song[s][i] = Song[s][j]

RightParameters ==
  rpc = "send" => /\ opened
                  /\ \A i \in 1..Len(chunk) :
                       OneFormat(chunk[i].song) => Song[chunk[i].song][chunk[i].pos + 1] = devSp

(* A song left without a request to leave it: what was decoded of it has   *)
(* been sent to the device, but for what the reader is sending and what is *)
(* still in the decoder's buffer, whatever was paused, sought and opened   *)
(* in between (player.cc:403-420).  (LeftInDecoder: that nothing is in the *)
(* decoder's buffer is not so if the buffer runs out between the two looks *)
(* at it, or the device does not open.)                                    *)
PlayedOut ==
  ppc = "delete" /\ ~stopped => buf = <<>> /\ time + Len(chunk) + dec.fill = dec.dpos

LeftInDecoder == ppc = "delete" /\ ~stopped /\ opened => dec.fill = 0

(* player() returns with the reader idle, and with sound in the buffer     *)
(* only if the buffer is stopped (player.cc:427), but for short songs.     *)
NothingLeft == ppc = "after" => chunk = <<>> /\ (stop \/ buf = <<>>)

(* The playing thread is asleep with a request it has not seen.            *)
LostWakeup == ppc = "asleep" /\ request # "nothing"

(* It is asleep in out_buf_put() while the output is paused: nobody makes  *)
(* room (out_buf.cc:240-244).                                              *)
PutPaused == Player \in sleepers /\ ppc \in {"put", "preflush"} /\ pause

(* A stop ends, and so does what is done after it, but for two ways to     *)
(* sleep for ever: a lost wakeup, and sound that its conversion made too   *)
(* large for the room and that was put when the output was paused.         *)
StopEndsOrIsLost == spc = "joining" ~> (spc # "joining" \/ [](LostWakeup \/ PutPaused))

(* Without further commands the playlist comes to its end, whatever songs  *)
(* fail to open and however often the device does, but for a playing       *)
(* thread that went to sleep after the reader had woken it for the last    *)
(* time (player.cc:339-349), and but for an output that stays paused.      *)
Starved == ppc = "asleep" /\ rpc = "wait"

PlayEnds == ppc = "pick" ~> (ppc = "ended" \/ []Starved \/ []pause)

(* "Request the server to stop playing" (data/amoc.1:76-77): the server    *)
(* gets the playing thread to end.                                         *)
StopEnds == spc = "joining" ~> spc # "joining"

(* "Request the server to pause playing" (data/amoc.1:84-85): when the     *)
(* server says it is paused, the output is.                                *)
PauseHolds == spc = "idle" /\ state = "pause" => pause

(* "Request playing the next song" (data/amoc.1:68-69): while a song is    *)
(* played on after the user asked for another one, the request to end it   *)
(* is pending, and only a seek takes its place (player.cc:467).            *)
SongPlaces == LoopPlaces \cup
  {"timezero", "reset", "join", "preopen", "preflush", "new", "start", "callback",
   "seek", "seekstop", "seekstopping", "seekreset", "seektime"}

SkipPending == playNext \/ playPrev => spc = "skipping" \/ request = "stop"

SkipKept ==
  [][ppc' \in SongPlaces /\ ~SkipPending'
       => PostSeek \/ (ppc \in SongPlaces /\ ~SkipPending)]_vars
=============================================================================
