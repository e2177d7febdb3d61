------------------------------- MODULE FifoBuf -------------------------------
(***************************************************************************)
(* The ring buffer of src/fifo_buf.cc.  Its methods copy with memcpy, in   *)
(* at most a few runs of contiguous bytes; each turn of a copying loop is  *)
(* a step here, so that the arithmetic that finds a run is what is         *)
(* checked.  The methods are called one at a time (their callers hold a    *)
(* mutex), hence one pending call.                                         *)
(***************************************************************************)
EXTENDS Integers, Sequences

CONSTANTS Byte,        \* the values of a byte
          Size,        \* fifo_buf::size
          MaxRequest   \* bound: the longest request a caller makes

ASSUME SizeAssumption == Size \in Nat \ {0}
ASSUME MaxRequestAssumption == MaxRequest \in Nat

VARIABLES fill,   \* fifo_buf::fill, the number of bytes held
          pos,    \* fifo_buf::pos, the index of the oldest one
          bytes,  \* fifo_buf::buf
          busy,   \* a method is running
          op,     \* the method running, or the last one that ran
          data,   \* its buffer: the input of put(), what get() and peek() copied
          N,      \* its argument N
          n,      \* its local n, the bytes moved so far
          lfill,  \* the local fill of peek()
          lpos    \* the local pos of peek()

ring == <<fill, pos, bytes>>
local == <<lfill, lpos>>
ringVars == <<fill, pos, bytes, busy, op, data, N, n, lfill, lpos>>

Smaller(a, b) == IF a < b THEN a ELSE b

Index == 0..Size - 1

Blocks == UNION {[1..k -> Byte] : k \in 0..MaxRequest}

RingInit == /\ fill = 0 /\ pos = 0 /\ bytes \in [Index -> Byte]
            /\ busy = FALSE /\ op = "clear" /\ data = <<>> /\ N = 0 /\ n = 0
            /\ lfill = 0 /\ lpos = 0

-----------------------------------------------------------------------------
(* put()                                                                   *)

(* "next free byte"                                                        *)
FreeIndex == (pos + fill) % Size

(* The bytes one memcpy of put() writes.                                   *)
PutRunToTheEnd == Smaller(N - n, Size - FreeIndex)
PutRun == Smaller(N - n, (IF FreeIndex >= pos THEN Size ELSE pos) - FreeIndex)

PutMore == fill < Size /\ n < N

StartPut(d) == /\ ~busy
               /\ busy' = TRUE /\ op' = "put" /\ data' = d /\ N' = Len(d) /\ n' = 0
               /\ UNCHANGED <<ring, local>>

PutCopy == /\ busy /\ op = "put" /\ PutMore
           /\ LET i == FreeIndex
                  k == PutRun
              IN /\ bytes' = [j \in Index |-> IF i <= j /\ j < i + k
                                            THEN data[n + 1 + j - i] ELSE bytes[j]]
                 /\ fill' = fill + k
                 /\ n' = n + k
           /\ UNCHANGED <<pos, busy, op, data, N, local>>

PutReturn == /\ busy /\ op = "put" /\ ~PutMore
             /\ busy' = FALSE
             /\ UNCHANGED <<ring, op, data, N, n, local>>

-----------------------------------------------------------------------------
(* get() and peek()                                                        *)

(* The bytes one memcpy reads when f bytes are held from index p on.       *)
GetRunUnwrapped(f, p) == Smaller(f, N - n)
GetRun(f, p) == Smaller(IF p + f <= Size THEN f ELSE Size - p, N - n)

(* The bytes of that run.                                                  *)
Run(p, k) == [j \in 1..k |-> bytes[(p + j - 1) % Size]]

Advance(p, k) == (p + k) % Size

StartGet(m) == /\ ~busy
               /\ busy' = TRUE /\ op' = "get" /\ data' = <<>> /\ N' = m /\ n' = 0
               /\ UNCHANGED <<ring, local>>

GetMore(f) == f > 0 /\ n < N

GetCopy == /\ busy /\ op = "get" /\ GetMore(fill)
           /\ LET k == GetRun(fill, pos)
              IN /\ data' = data \o Run(pos, k)
                 /\ n' = n + k
                 /\ fill' = fill - k
                 /\ pos' = Advance(pos, k)
           /\ UNCHANGED <<bytes, busy, op, N, local>>

GetReturn == /\ busy /\ op = "get" /\ ~GetMore(fill)
             /\ busy' = FALSE
             /\ UNCHANGED <<ring, op, data, N, n, local>>

(* peek() runs the loop of get() on local copies of fill and pos.          *)
StartPeek(m) == /\ ~busy
                /\ busy' = TRUE /\ op' = "peek" /\ data' = <<>> /\ N' = m /\ n' = 0
                /\ lfill' = fill /\ lpos' = pos
                /\ UNCHANGED ring

PeekCopy == /\ busy /\ op = "peek" /\ GetMore(lfill)
            /\ LET k == GetRun(lfill, lpos)
               IN /\ data' = data \o Run(lpos, k)
                  /\ n' = n + k
                  /\ lfill' = lfill - k
                  /\ lpos' = Advance(lpos, k)
            /\ UNCHANGED <<ring, busy, op, N>>

PeekReturn == /\ busy /\ op = "peek" /\ ~GetMore(lfill)
              /\ busy' = FALSE
              /\ UNCHANGED <<ring, op, data, N, n, local>>

-----------------------------------------------------------------------------
Clear == /\ ~busy
         /\ fill' = 0 /\ pos' = 0
         /\ op' = "clear" /\ data' = <<>> /\ N' = 0 /\ n' = 0
         /\ UNCHANGED <<bytes, busy, local>>

RingNext == \/ \E d \in Blocks : StartPut(d)
            \/ PutCopy \/ PutReturn
            \/ \E m \in 0..MaxRequest : StartGet(m) \/ StartPeek(m)
            \/ GetCopy \/ GetReturn
            \/ PeekCopy \/ PeekReturn
            \/ Clear

RingSpec == RingInit /\ [][RingNext]_ringVars

-----------------------------------------------------------------------------
RingTypeOK == /\ fill \in 0..Size
              /\ pos \in Index
              /\ bytes \in [Index -> Byte]
              /\ busy \in BOOLEAN
              /\ op \in {"put", "get", "peek", "clear"}
              /\ data \in Seq(Byte)
              /\ N \in Nat /\ n \in 0..N
              /\ lfill \in 0..Size
              /\ lpos \in Index

(* Each memcpy of put(), get() and peek() stays inside the ring and inside *)
(* the caller's buffer, writes no byte that is still to be read, and moves *)
(* at least one byte, so that the loops end (fifo_buf.cc:20-28, 37-49,     *)
(* 61-73).                                                                 *)
CopyInBounds ==
  /\ busy /\ op = "put" /\ PutMore =>
       /\ FreeIndex \in Index
       /\ PutRun \in 1..(Size - FreeIndex)
       /\ PutRun <= Size - fill
       /\ n + PutRun <= N
  /\ busy /\ op = "get" /\ GetMore(fill) =>
       /\ GetRun(fill, pos) \in 1..(Size - pos)
       /\ GetRun(fill, pos) <= fill
       /\ n + GetRun(fill, pos) <= N
  /\ busy /\ op = "peek" /\ GetMore(lfill) =>
       /\ GetRun(lfill, lpos) \in 1..(Size - lpos)
       /\ GetRun(lfill, lpos) <= lfill
       /\ n + GetRun(lfill, lpos) <= N

(* The bytes held when f of them start at index p.                         *)
Content(f, p) == [j \in 1..f |-> bytes[(p + j - 1) % Size]]

(* The bytes the running call has still to move.                           *)
ToMove == IF ~busy THEN 0
          ELSE CASE op = "put"  -> Smaller(N - n, Size - fill)
                 [] op = "get"  -> Smaller(N - n, fill)
                 [] op = "peek" -> Smaller(N - n, lfill)
                 [] OTHER       -> 0

(* A call takes effect when it is made: what its loop is still to do is    *)
(* taken as done.                                                          *)
QueueView ==
  IF ~busy \/ op = "peek" THEN Content(fill, pos)
  ELSE IF op = "put" THEN Content(fill, pos) \o SubSeq(data, n + 1, n + ToMove)
  ELSE SubSeq(Content(fill, pos), ToMove + 1, fill)

LastView ==
  [op |-> op, n |-> n + ToMove,
   data |-> IF ~busy \/ op = "put" THEN data
            ELSE IF op = "get" THEN data \o SubSeq(Content(fill, pos), 1, ToMove)
            ELSE data \o SubSeq(Content(lfill, lpos), 1, ToMove)]

Queue == INSTANCE Fifo WITH q <- QueueView, last <- LastView

(* The ring buffer implements the first-in first-out queue: put(), get()   *)
(* and peek() of fifo_buf.cc move the right bytes in the right order, and  *)
(* as many as they can.                                                    *)
IsFifo == Queue!Spec
=============================================================================
