------------------------------ MODULE MCFifoBuf ------------------------------
(* The ring buffer with 3 bytes of room, requests of up to 3 and two byte  *)
(* values: the ring wraps at every index, and a request can exceed the room.*)
EXTENDS FifoBuf
=============================================================================
