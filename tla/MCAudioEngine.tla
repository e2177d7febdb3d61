---------------------------- MODULE MCAudioEngine ----------------------------
(* Three songs: of two parameters, that does not open, and of one.         *)
EXTENDS AudioEngine

ThreeSongs == <<<<"a", "a", "b">>, <<"b">>, <<"a", "a">>>>

(* Sound of parameters "a" becomes twice as much for the device.           *)
Doubled == [sp \in Params |-> IF sp = "a" THEN 2 ELSE 1]
=============================================================================
