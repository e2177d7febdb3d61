-------------------------------- MODULE Fifo --------------------------------
(***************************************************************************)
(* What the byte buffer of fifo_buf.h promises its users: a bounded first- *)
(* in first-out queue whose operations are atomic and tell how many bytes  *)
(* they moved ("these return number of bytes actually put/got").           *)
(***************************************************************************)
EXTENDS Integers, Sequences

CONSTANTS Byte,        \* the values of a byte
          Size,        \* capacity of the queue
          MaxRequest   \* bound: the longest request made of the queue

VARIABLES q,     \* the bytes held, oldest first
          last   \* the last operation: its name, its count and its bytes

vars == <<q, last>>

Least(a, b) == IF a < b THEN a ELSE b

Blocks == UNION {[1..k -> Byte] : k \in 0..MaxRequest}

Init == q = <<>> /\ last = [op |-> "clear", n |-> 0, data |-> <<>>]

(* As much of d as there is room for is appended.                          *)
Put(d) == LET k == Least(Len(d), Size - Len(q)) IN
          /\ q' = q \o SubSeq(d, 1, k)
          /\ last' = [op |-> "put", n |-> k, data |-> d]

(* The m oldest bytes, or all there are, are returned and removed.         *)
Get(m) == LET k == Least(m, Len(q)) IN
          /\ q' = SubSeq(q, k + 1, Len(q))
          /\ last' = [op |-> "get", n |-> k, data |-> SubSeq(q, 1, k)]

(* The same bytes are returned and stay.                                   *)
Peek(m) == LET k == Least(m, Len(q)) IN
           /\ q' = q
           /\ last' = [op |-> "peek", n |-> k, data |-> SubSeq(q, 1, k)]

Clear == q' = <<>> /\ last' = [op |-> "clear", n |-> 0, data |-> <<>>]

Next == \/ \E d \in Blocks : Put(d)
        \/ \E m \in 0..MaxRequest : Get(m) \/ Peek(m)
        \/ Clear

Spec == Init /\ [][Next]_vars
=============================================================================
