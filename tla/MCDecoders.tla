----------------------------- MODULE MCDecoders ------------------------------
(* Nine frames, so that no seek's window reaches from the first second to  *)
(* the last frame; the file is whole, or frames are damaged in it.  Two    *)
(* frames of MP3 fill the player's buffer, as four do that of the code;    *)
(* one of FLAC is more than it holds.                                      *)
EXTENDS SongDecoders

Decoders == {"MP3", "AAC", "SPX", "FLAC", "FFMPEG", "OPUS", "PACKED", "VORBIS", "MPC",
             "SNDFILE", "MODPLUG", "WAVPACK"}

Lengths == [c \in Decoders |-> CASE c = "MP3" -> 2 [] c = "FLAC" -> 5 [] OTHER -> 3]

Damages == {{}, {2}, {4, 5}, {9}}
=============================================================================
