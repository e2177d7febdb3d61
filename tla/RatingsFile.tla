----------------------------- MODULE RatingsFile -----------------------------
(***************************************************************************)
(* The file of ratings of a directory (server/ratings.cc): lines of a      *)
(* digit, a space and a name.  find_rating() goes through it in chunks of  *)
(* BUF_SIZE bytes and reports where the digit of a name is;                *)
(* ratings_write() and ratings_remove() then change the file there.        *)
(*                                                                         *)
(* A file that is not there is an empty one: nothing is found in either,   *)
(* and the first rating is written to it.                                  *)
(***************************************************************************)
EXTENDS Integers, Sequences

CONSTANTS BufSize,   \* BUF_SIZE
          Char,      \* what files and names are made of
          Name,      \* names of songs
          File,      \* files of ratings to begin with
          MaxLen     \* bound: no rating is written to a longer file

NL    == "newline"
Space == "space"
Digit == {"0", "1", "2", "3", "4", "5"}
Eof   == "eof"

VARIABLES file,      \* the bytes of the file
          call,      \* what is being done
          pc,        \* where in find_rating(), or "idle", "found", "none"
          pos,       \* bytes gone through
          n,         \* characters left in the chunk
          fpos,      \* what the code takes for the offset of the end of the chunk
          k,         \* characters of the name that match
          digit,     \* c0
          place,     \* *filepos
          start,     \* history: the offset of the line
          missed     \* history: bytes read that fpos does not count

scan == <<pos, n, fpos, k, digit, place, start, missed>>
vars == <<file, call, pc, scan>>

(* A name is not moved to itself (line 283).                                *)
Calls == {c \in [op : {"read", "write", "remove", "move"}, name : Name, rating : Digit, to : Name] :
            c.op = "move" => c.to # c.name}

name == call.name

(* The scanner at the beginning of the file.                                *)
Rewound ==
  /\ pos' = 0 /\ n' = 0 /\ fpos' = 0 /\ k' = 0 /\ digit' = "0" /\ place' = 0
  /\ start' = 0 /\ missed' = 0

Init ==
  /\ file \in File
  /\ call = CHOOSE c \in Calls : TRUE
  /\ pc = "idle"
  /\ pos = 0 /\ n = 0 /\ fpos = 0 /\ k = 0 /\ digit = "0" /\ place = 0
  /\ start = 0 /\ missed = 0

Call(c) ==
  /\ pc = "idle"
  /\ call' = c /\ pc' = "line" /\ Rewound
  /\ UNCHANGED file

-----------------------------------------------------------------------------
(* find_rating()                                                            *)

(* What fread() returns at offset p.                                        *)
Chunk(p) == IF BufSize < Len(file) - p THEN BufSize ELSE Len(file) - p

(* GETC: the next character, from the next chunk if there is none left.     *)
NextChar == IF n = 0 /\ Chunk(pos) = 0 THEN Eof ELSE file[pos + 1]

GetC ==
  LET m == IF n = 0 THEN Chunk(pos) ELSE n IN
  /\ fpos' = IF n = 0 THEN fpos + m ELSE fpos
  /\ pos' = IF m = 0 THEN pos ELSE pos + 1
  /\ n' = IF m = 0 THEN 0 ELSE m - 1

(* The loops that read on by themselves leave fpos alone.                   *)
ReadOn(p) ==
  /\ pos' = p /\ n' = Chunk(p) /\ missed' = missed + Chunk(p)

Line ==
  /\ pc = "line"
  /\ GetC
  /\ start' = pos
  /\ digit' = IF NextChar \in Digit THEN NextChar ELSE digit
  /\ pc' = IF NextChar = Eof THEN "none"
            ELSE IF NextChar = NL THEN "line"
            ELSE IF NextChar \in Digit THEN "space" ELSE "skip"
  /\ UNCHANGED <<file, call, k, place, missed>>

AfterDigit ==
  /\ pc = "space"
  /\ GetC
  /\ k' = 0
  /\ pc' = IF NextChar = Eof THEN "none"
            ELSE IF NextChar = NL THEN "line"
            ELSE IF NextChar = Space THEN "name" ELSE "skip"
  /\ UNCHANGED <<file, call, digit, place, start, missed>>

(* As much of the name as the chunk can tell is compared at once.           *)
Compared == IF Len(name) - k < n THEN Len(name) - k ELSE n
Matches(m) == \A i \in 1..m : name[k + i] = file[pos + i]

Mismatch ==
  /\ pc = "name" /\ ~Matches(Compared)
  /\ pc' = "skip"
  /\ UNCHANGED <<file, call, scan>>

NextChunk ==
  /\ pc = "name" /\ Matches(Compared) /\ k + Compared < Len(name)
  /\ k' = k + Compared
  /\ ReadOn(pos + Compared)
  /\ pc' = IF Chunk(pos + Compared) = 0 THEN "none" ELSE "name"
  /\ UNCHANGED <<file, call, fpos, digit, place, start>>

(* The whole name was there; the offset is noted, then the line must end.   *)
WholeName ==
  /\ pc = "name" /\ Matches(Compared) /\ k + Compared = Len(name)
  /\ k' = Len(name) /\ pos' = pos + Compared /\ n' = n - Compared
  /\ place' = fpos - (n - Compared) - Len(name) - 2
  /\ pc' = "end"
  /\ UNCHANGED <<file, call, fpos, digit, start, missed>>

AfterName ==
  /\ pc = "end"
  /\ GetC
  /\ pc' = IF NextChar \in {Eof, NL} THEN "found" ELSE "skip"
  /\ UNCHANGED <<file, call, k, digit, place, start, missed>>

NewlineAt(i) == i \in 1..n /\ file[pos + i] = NL /\ \A j \in 1..(i - 1) : file[pos + j] # NL

SkipToNewline ==
  /\ pc = "skip"
  /\ \E i \in 1..n : NewlineAt(i) /\ pos' = pos + i /\ n' = n - i
  /\ pc' = "line"
  /\ UNCHANGED <<file, call, fpos, k, digit, place, start, missed>>

SkipChunk ==
  /\ pc = "skip" /\ \A i \in 1..n : file[pos + i] # NL
  /\ ReadOn(pos + n)
  /\ pc' = IF Chunk(pos + n) = 0 THEN "none" ELSE "skip"
  /\ UNCHANGED <<file, call, fpos, k, digit, place, start>>

-----------------------------------------------------------------------------
(* What becomes of the answer                                               *)
Entry(d, nm) == <<d, Space>> \o nm \o <<NL>>

Returns(f) == file' = f /\ pc' = "idle" /\ UNCHANGED <<call, scan>>

Read == pc \in {"found", "none"} /\ call.op = "read" /\ Returns(file)

(* A rating of zero is not added. fseek() refuses an offset below zero.     *)
AppendRating ==
  /\ pc = "none" /\ call.op = "write" /\ Len(file) < MaxLen
  /\ Returns(IF call.rating = "0" THEN file ELSE file \o Entry(call.rating, name))

Overwrite ==
  /\ pc = "found" /\ call.op = "write"
  /\ Returns(IF call.rating = digit THEN file
             ELSE [i \in 1..Len(file) |-> IF i = place + 1 THEN call.rating ELSE file[i]])

NothingToRemove == pc = "none" /\ call.op \in {"remove", "move"} /\ Returns(file)

(* The rest of the file is moved to the place, and its end cut off.         *)
Length == 3 + Len(name)
Larger(a, b) == IF a < b THEN b ELSE a
Closed ==
  LET moved == SubSeq(file, 1, place) \o SubSeq(file, place + Length + 1, Len(file))
  IN  IF Len(file) <= Length THEN <<>>
      ELSE IF place + Length < Len(file) THEN moved
      ELSE SubSeq(file, 1, Larger(place, Len(file) - Length))

(* What is done with a place below zero is left out.                        *)
Remove ==
  /\ pc = "found" /\ place >= 0 /\ call.op \in {"remove", "move"}
  /\ file' = Closed
  /\ IF call.op = "move" /\ digit # "0"
     THEN /\ call' = [op |-> "write", name |-> call.to, rating |-> digit, to |-> call.to]
          /\ pc' = "line" /\ Rewound
     ELSE pc' = "idle" /\ UNCHANGED <<call, scan>>

Broken ==
  /\ pc = "found" /\ place < 0 /\ call.op \in {"remove", "move"}
  /\ pc' = "broken"
  /\ UNCHANGED <<file, call, scan>>

Find == \/ Line \/ AfterDigit \/ Mismatch \/ NextChunk \/ WholeName \/ AfterName
        \/ SkipToNewline \/ SkipChunk
Answer == Read \/ AppendRating \/ Overwrite \/ NothingToRemove \/ Remove \/ Broken

Next == Find \/ Answer \/ \E c \in Calls : Call(c)

Spec == Init /\ [][Next]_vars

-----------------------------------------------------------------------------
(* A line at offset p that gives the name a rating.                         *)
LineAt(p) == p = 0 \/ file[p] = NL

EntryAt(p) ==
  /\ p + 2 + Len(name) <= Len(file)
  /\ file[p + 1] \in Digit /\ file[p + 2] = Space
  /\ \A i \in 1..Len(name) : file[p + 2 + i] = name[i]
  /\ p + 2 + Len(name) = Len(file) \/ file[p + 3 + Len(name)] = NL

(* The rating found is that of the first line for the name, and none is     *)
(* found only if there is no such line, however the file falls into chunks  *)
(* (ratings.cc:15-17: "Ratings files should contain lines in this format",  *)
(* "Everything else is ignored").                                           *)
FirstEntry ==
  /\ pc = "found" => /\ EntryAt(start) /\ LineAt(start) /\ digit = file[start + 1]
                     /\ \A p \in 0..(start - 1) : LineAt(p) => ~EntryAt(p)
  /\ pc = "none" => \A p \in 0..(Len(file) - 1) : LineAt(p) => ~EntryAt(p)

(* ratings.cc:31-33: "If found, filepos is the position of the rating       *)
(* character in rf."                                                        *)
PlaceIsRating == pc = "found" => place = start

(* It is short by what the loops read by themselves, and so it is right as  *)
(* long as the file fits into one chunk.                                    *)
PlaceInSmallFiles == Len(file) <= BufSize => PlaceIsRating
=============================================================================
