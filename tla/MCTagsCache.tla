----------------------------- MODULE MCTagsCache -----------------------------
(* Instances of TagsCache for TLC.                                          *)
EXTENDS TagsCache, TLC

MCSecond == <<1, 1, 2>>
MCSymmetry == Permutations(Path)
=============================================================================
