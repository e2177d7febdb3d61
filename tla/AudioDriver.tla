----------------------------- MODULE AudioDriver -----------------------------
(***************************************************************************)
(* The interface of a sound driver (src/server/audio.h, AudioDriver) as    *)
(* the device layer uses it, and what all the drivers have in common.      *)
(*                                                                         *)
(* Sound is counted in frames, numbered in the order play() is given them. *)
(* One thread at a time uses the driver (player.cc:412-414);               *)
(* the device takes frames from its queue whenever it likes.               *)
(***************************************************************************)
EXTENDS Integers, Sequences

CONSTANTS
    Room,      \* frames the device's own buffer holds
    MaxPlay,   \* the most frames one play() is given
    MaxGiven   \* bound of the model: frames given in all

ASSUME RoomAssumption == Room \in Nat \ {0} /\ MaxPlay \in Nat \ {0} /\ MaxGiven \in Nat

VARIABLES
    driver,    \* the driver in use, hw
    opened,    \* audio_opened
    call,      \* the call being made: "none", "play", "close"; "fatal" when the
               \* server has given up, "abort" when an assert() has stopped it
    pc,        \* where in the driver the call is
    left,      \* frames of the argument of play() not yet copied or written
    given,     \* frames given to play() so far
    heard,     \* the last frame heard or given up
    dev,       \* the device's state
    queue      \* what the device holds: frames, 0 for one of silence

caller == <<opened, call, pc>>
sound  == <<left, given, heard, queue>>

\* The frames after the n-th, up to the m-th.
FramesFrom(n, m) == [i \in 1..(m - n) |-> n + i]

\* What play() has still to take from its argument.
Argument == FramesFrom(given - left, given)

Idle == call = "none"

\* audio_send_pcm() hands n frames to play(), which starts at step where.
PlayCall(where) ==
    /\ Idle /\ opened
    /\ \E n \in 1..MaxPlay :
           /\ given + n <= MaxGiven
           /\ given' = given + n
           /\ left' = n
    /\ call' = "play" /\ pc' = where

Return == call' = "none" /\ pc' = "none"

\* play() returned less than zero: audio_send_pcm() ends the server.
PlayFails == call' = "fatal" /\ pc' = "none"

\* The device plays a frame of its queue.
Sounds ==
    /\ queue # << >>
    /\ queue' = Tail(queue)
    /\ heard' = IF Head(queue) = 0 THEN heard ELSE Head(queue)
=============================================================================
