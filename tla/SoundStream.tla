----------------------------- MODULE SoundStream -----------------------------
(***************************************************************************)
(* What the output buffer of server/output/out_buf.h promises: the sound   *)
(* put into it reaches the device in order, none of it missing or twice;   *)
(* "after [out_buf_stop] that buffer will refuse to play anything and      *)
(* ignore data" until it is reset, and it is reset only with nothing left  *)
(* on its way to the device.                                               *)
(***************************************************************************)
EXTENDS Integers, Sequences

CONSTANTS Unit,       \* the pieces of sound
          Capacity,   \* how many of them the stream holds
          Chunk       \* how many of them a stop may find past recall

VARIABLES queue,     \* the sound accepted and not yet with the device
          stopped    \* no sound is accepted

vars == <<queue, stopped>>

Init == queue = <<>> /\ stopped = FALSE

(* Some sound is added after what is there, as far as there is room.       *)
Accept == /\ ~stopped
          /\ queue' \in Seq(Unit)
          /\ Len(queue') \in Len(queue) + 1..Capacity
          /\ SubSeq(queue', 1, Len(queue)) = queue
          /\ UNCHANGED stopped

Deliver == queue # <<>> /\ queue' = Tail(queue) /\ UNCHANGED stopped

(* What the device is being handed is handed to it all the same; the rest  *)
(* of the sound is given up.                                               *)
Stop == /\ stopped' = TRUE
        /\ \E k \in 0..Chunk : k <= Len(queue) /\ queue' = SubSeq(queue, 1, k)

Reset == queue = <<>> /\ stopped' = FALSE /\ UNCHANGED queue

Next == Accept \/ Deliver \/ Stop \/ Reset

Spec == Init /\ [][Next]_vars
=============================================================================
