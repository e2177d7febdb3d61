---------------------------- MODULE SoundDrivers -----------------------------
(***************************************************************************)
(* The sound driver that find_working_driver() has found (audio.cc), and   *)
(* what the device layer may rely on whichever it is.                      *)
(***************************************************************************)
EXTENDS AlsaDriver, JackDriver, OssDriver

CONSTANT Compiled    \* the drivers the program was built with

ASSUME CompiledAssumption == Compiled \subseteq {"ALSA", "JACK", "OSS", "SNDIO"}

dvars == <<driver, caller, sound, dev, alsa, jack>>

Silent(d) == CASE d = "ALSA" -> "NULL" [] d = "JACK" -> "silent" [] OTHER -> "none"

\* The drivers are tried in turn; any of them may be the first to work.
Init ==
    /\ driver \in Compiled
    /\ opened = FALSE /\ call = "none" /\ pc = "none"
    /\ left = 0 /\ given = 0 /\ heard = 0 /\ queue = << >>
    /\ dev = Silent(driver)
    /\ AlsaInit /\ JackInit

Alsa   == driver = "ALSA" /\ AlsaNext /\ UNCHANGED <<driver, jack>>
Jack   == driver = "JACK" /\ JackNext /\ UNCHANGED <<driver, alsa>>
Writer == driver \in {"OSS", "SNDIO"} /\ WriterNext /\ UNCHANGED <<driver, alsa, jack>>

Next == Alsa \/ Jack \/ Writer

Spec == Init /\ [][Next]_dvars

(***************************************************************************)
(* The driver's code goes on, the device plays what it holds, and JACK     *)
(* calls process_cb().                                                     *)
(***************************************************************************)
FairSpec ==
    /\ Spec
    /\ WF_dvars(driver = "ALSA" /\ AlsaStep /\ UNCHANGED <<driver, jack>>)
    /\ WF_dvars(driver = "ALSA" /\ AlsaSounds /\ UNCHANGED <<driver, jack>>)
    /\ WF_dvars(driver = "JACK" /\ JackStep /\ UNCHANGED <<driver, alsa>>)
    /\ WF_dvars(driver = "JACK" /\ JackThread /\ UNCHANGED <<driver, alsa>>)
    /\ WF_dvars(driver \in {"OSS", "SNDIO"} /\ WriterStep /\ UNCHANGED <<driver, alsa, jack>>)
    /\ WF_dvars(driver \in {"OSS", "SNDIO"} /\ WriterSounds /\ UNCHANGED <<driver, alsa, jack>>)

-----------------------------------------------------------------------------
Frames == 0..MaxGiven

\* Every variable has its type, buf holds no more than its size and the
\* device's queue no more than its room.
TypeOK ==
    /\ driver \in Compiled /\ opened \in BOOLEAN
    /\ call \in {"none", "play", "close", "fatal", "abort"}
    /\ pc \in {"none", "copy", "chunks", "drain", "room", "left", "right", "write"}
    /\ left \in Frames /\ given \in Frames /\ heard \in Frames /\ heardRight \in Frames
    /\ short \in BOOLEAN
    /\ dev \in {"NULL", "half", "ready", "running", "xrun", "setup", "silent",
                "playing", "gone", "none", "open"}
    /\ queue \in Seq(Frames) /\ Len(queue) <= Room /\ right \in Seq(Frames) /\ Len(right) <= Room
    /\ buf \in Seq(Frames) /\ Len(buf) <= BufSize /\ written \in 0..Len(buf)
    /\ batch \in 0..MaxPlay
    /\ cb \in [at : {"idle", "left", "right"}, n : 0..Room]

\* s is the frames after the n-th, each once and in order, then silence only.
GoesOnFrom(n, s) ==
    LET k == given - n
    IN  Len(s) >= k /\ \A i \in 1..Len(s) : s[i] = IF i <= k THEN n + i ELSE 0

\* No driver loses a frame, repeats one, or puts silence between two: what
\* the device holds, what the driver holds and what is left of the argument
\* are the frames after the last one heard (audio.h:122, "The function should
\* play all sound in the buffer"; alsa.cc:401-419 and 590-637).  Given up on
\* purpose are the frames that reset() drops; excepted are those that ALSA's
\* close() does not get rid of, when the device takes only a part of the last,
\* filled up chunk or fails (short; alsa.cc:367-379 and 595).
SoundKept ==
    call \notin {"fatal", "abort"} =>
        GoesOnFrom(heard,
            queue \o SubSeq(buf, written + 1, Len(buf)) \o IF pc = "right" THEN Tail(Argument) ELSE Argument)

\* The right channel of JACK has the same frames as the left one, with no
\* sample dropped for want of room, though the room of one ring alone is
\* looked at and both are read meanwhile (jack.cc:145-171 and 239-261).
ChannelsInStep ==
    driver = "JACK" /\ call # "fatal" =>
        /\ GoesOnFrom(heardRight, right \o Argument)
        /\ cb.at = "idle" => heard = heardRight

\* Every call of the driver ends: play() does not wait for room that never
\* comes, nor close() for sound that never ends (alsa.cc:595-632, 388,
\* jack.cc:142-180, oss.cc:334-344).
CallsEnd == \A c \in {"play", "close"} : call = c ~> call # c

\* No assert() of a driver fails: a device is opened only when none is open
\* (alsa.cc:227 and 507, "assert (!handle)"; sndio_out.cc:45).
AssertsHold == call # "abort"
=============================================================================
