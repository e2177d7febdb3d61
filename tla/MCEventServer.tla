---------------------------- MODULE MCEventServer ----------------------------
(* Instances of EventServer for TLC: what the processes ask for.            *)
EXTENDS EventServer

CONSTANTS c1, c2

MCCommands == [c \in Conn |-> IF c = c1 THEN {"get", "tags"} ELSE {"set", "disconnect", "quit"}]
=============================================================================
