----------------------------- MODULE JackDriver ------------------------------
(***************************************************************************)
(* The JACK driver (src/server/output/jack.cc).  play() writes the left    *)
(* sample of a frame to one ring buffer and the right one to another;      *)
(* process_cb(), on the thread of the JACK library, reads both.  No lock   *)
(* is taken.  The first ring is the queue of AudioDriver.                  *)
(***************************************************************************)
EXTENDS AudioDriver

CONSTANT Period    \* frames JACK asks for at a time

ASSUME PeriodAssumption == Period \in Nat \ {0}

VARIABLES
    right,         \* ringbuffer[1]
    heardRight,    \* the last frame of the right channel heard or given up
    batch,         \* frames play() has found room for and not yet written
    cb             \* process_cb(): where it is, and how many frames it takes

jack == <<right, heardRight, batch, cb>>

NoCallback == [at |-> "idle", n |-> 0]

JackInit == right = << >> /\ heardRight = 0 /\ batch = 0 /\ cb = NoCallback

\* open() always succeeds for what the capabilities allow; the client, its
\* ports and its callback live as long as the driver.
JackOpen ==
    /\ Idle /\ ~opened
    /\ opened' = TRUE /\ dev' = IF dev = "gone" THEN dev ELSE "playing"
    /\ UNCHANGED <<call, pc, sound, jack>>

JackClose ==
    /\ Idle /\ opened
    /\ opened' = FALSE /\ dev' = IF dev = "gone" THEN dev ELSE "silent"
    /\ UNCHANGED <<call, pc, sound, jack>>

\* reset() does nothing and returns true.
JackReset ==
    /\ Idle /\ opened
    /\ UNCHANGED <<caller, sound, dev, jack>>

JackPlay == PlayCall("room") /\ UNCHANGED <<opened, heard, dev, queue, jack>>

\* The ring whose room play() looks at: the one that is read later.
Other == queue
Watched == right

\* A ring keeps one byte free: three bytes are left when no sample fits.
Sample == 4
Space(ring) == Sample * (Room - Len(ring)) + Sample - 1

\* Whether play() goes on to write, and how many frames then.
HasSpace == Space(Watched) > Sample
ToWrite == (IF 2 * Space(Watched) < 2 * Sample * left THEN 2 * Space(Watched)
                ELSE 2 * Sample * left) \div (2 * Sample)

\* Whether play() sees, each time it looks for room, that JACK has gone.
GoneAfter == dev = "gone" /\ left = 0
Gone == dev = "gone"

JackRoom ==
    /\ pc = "room"
    /\ IF Gone THEN PlayFails /\ UNCHANGED batch
       ELSE IF left = 0 THEN Return /\ UNCHANGED batch
       ELSE /\ HasSpace
            /\ batch' = ToWrite
            /\ pc' = "left" /\ UNCHANGED call
    /\ UNCHANGED <<opened, sound, dev, right, heardRight, cb>>

\* jack_ringbuffer_write() writes what there is room for, which may be nothing.
Written(ring) == IF Len(ring) < Room THEN Append(ring, Head(Argument)) ELSE ring

JackWriteLeft ==
    /\ pc = "left"
    /\ queue' = Written(queue)
    /\ pc' = "right"
    /\ UNCHANGED <<opened, call, left, given, heard, dev, jack>>

JackWriteRight ==
    /\ pc = "right"
    /\ right' = Written(right)
    /\ left' = left - 1 /\ batch' = batch - 1
    /\ pc' = IF batch > 1 THEN "left" ELSE "room"
    /\ UNCHANGED <<opened, call, given, heard, dev, queue, heardRight, cb>>

\* process_cb() looks at what the second ring holds, for it is filled later;
\* when nothing is to be played it takes all of that, to drop it.
Available == LET n == Len(right)
             IN IF dev = "playing" /\ n > Period THEN Period ELSE n

JackCallback ==
    /\ cb.at = "idle" /\ dev # "gone" /\ right # << >>
    /\ cb' = [at |-> "left", n |-> Available]
    /\ UNCHANGED <<caller, sound, dev, right, heardRight, batch>>

Taken(ring, n) == SubSeq(ring, n + 1, Len(ring))

JackReadLeft ==
    /\ cb.at = "left"
    /\ heard' = queue[cb.n] /\ queue' = Taken(queue, cb.n)
    /\ cb' = [cb EXCEPT !.at = "right"]
    /\ UNCHANGED <<caller, left, given, dev, right, heardRight, batch>>

JackReadRight ==
    /\ cb.at = "right"
    /\ heardRight' = right[cb.n] /\ right' = Taken(right, cb.n)
    /\ cb' = NoCallback
    /\ UNCHANGED <<caller, sound, dev, batch>>

\* The JACK server ends, or drops the client: shutdown_cb().
JackShutdown ==
    /\ dev # "gone" /\ cb = NoCallback
    /\ dev' = "gone"
    /\ UNCHANGED <<caller, sound, jack>>

JackStep == JackRoom \/ JackWriteLeft \/ JackWriteRight

JackThread == JackCallback \/ JackReadLeft \/ JackReadRight

JackNext == JackStep \/ JackThread \/ JackOpen \/ JackPlay \/ JackClose \/ JackReset \/ JackShutdown
=============================================================================
