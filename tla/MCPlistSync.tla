----------------------------- MODULE MCPlistSync -----------------------------
(* Two clients and the paths of two files.                                 *)
EXTENDS PlistSync
=============================================================================
