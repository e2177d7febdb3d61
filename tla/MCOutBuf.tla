------------------------------- MODULE MCOutBuf -------------------------------
(* The output buffer on small instances: the buffer fills up, a chunk is   *)
(* less than a buffer, a put is more than the room left.                   *)
EXTENDS OutBufSystem
===============================================================================
