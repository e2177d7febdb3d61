---------------------------- MODULE MCServerPlist ----------------------------
(* Paths of one or two songs, with a directory that lists them, and of a   *)
(* file that is no song.                                                   *)
EXTENDS ServerPlist

OneDirectory == <<"b", "a">>
SmallDirectory == <<"a">>
=============================================================================
