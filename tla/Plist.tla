-------------------------------- MODULE Plist --------------------------------
(***************************************************************************)
(* The edits of a list of items, src/playlist.cc, as operators on          *)
(* sequences.  The server's playlist and the clients' copies of it are     *)
(* changed by the same functions.  Indices are the code's: from 0 on.      *)
(***************************************************************************)
EXTENDS Integers, Sequences, FiniteSets, SequencesExt

Indices(p) == 0..Len(p) - 1

(* insert() appends what is not put before an item.                        *)
Inserted(p, new, idx) == IF idx \in Indices(p)
                         THEN SubSeq(p, 1, idx) \o new \o SubSeq(p, idx + 1, Len(p))
                         ELSE p \o new

(* remove() of n items from i on ignores what is out of range.             *)
Removed(p, i, n) == IF i >= 0 /\ n > 0 /\ i + n <= Len(p)
                    THEN SubSeq(p, 1, i) \o SubSeq(p, i + n + 1, Len(p)) ELSE p

(* move() shifts what is between.                                          *)
Moved(p, i, j) == IF i # j /\ {i, j} \subseteq Indices(p)
                  THEN Inserted(Removed(p, i, 1), <<p[i + 1]>>, j) ELSE p

(* remove() of files moves the items it keeps together, each to the place  *)
(* after those kept before it (playlist.cc:76-87).                         *)
NthOf(S, n) == CHOOSE k \in S : Cardinality({j \in S : j <= k}) = n
Keeping(p, S) == [n \in 1..Cardinality(S) |-> p[NthOf(S, n)]]
=============================================================================
