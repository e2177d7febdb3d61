----------------------------- MODULE ServerPlist -----------------------------
(***************************************************************************)
(* The server's playlist, src/server/server_plist.cc over the list of      *)
(* src/playlist.cc: the songs, the one being played, what is played next,  *)
(* and the edits clients make meanwhile.  Every operation runs under       *)
(* plist_mtx of server/audio.cc and is one action.                         *)
(*                                                                         *)
(* Indices are the code's: from 0 on, -1 for none.  An item is a record of *)
(* its identity, its path and whether its type is valid (F_SOUND).  The    *)
(* build is the one with NDEBUG: a failed assert() is recorded in fault    *)
(* and the code behind it runs.                                            *)
(***************************************************************************)
EXTENDS Plist

CONSTANTS Path,       \* the paths of files
          Sound,      \* those that are sound files
          Directory,  \* the sound files of the one directory, as add_directory() lists them
          MaxItems,   \* bound: the items of the playlist
          MaxNv,      \* bound: no more is added once nv, which removals leave, is this high
          Repeats,    \* the settings of Repeat that clients choose
          Tracked,    \* items are told apart, for the properties about the current one
          Ops         \* the operations clients and the playing thread make

ASSUME PathAssumption == Sound \subseteq Path
ASSUME DirectoryAssumption == Directory \in Seq(Sound)
ASSUME RepeatAssumption == Repeats \subseteq {"off", "all", "one"}
ASSUME BoundAssumption == MaxItems \in Nat /\ MaxNv \in Nat

VARIABLES list,      \* ServerPlaylist::playlist
          dirList,   \* ServerPlaylist::dir_plist
          loaded,    \* ServerPlaylist::cwd is the directory
          i1, dir,   \* the current song
          nv,        \* ServerPlaylist::nv, by list
          order,     \* ServerPlaylist::order (order_inv is its inverse)
          repeat, shuffle,   \* options::Repeat, options::Shuffle
          opening, caching,  \* the files player() may open and decode, and its precache
          fault      \* "assert", "ub" or "spin" once the code has gone wrong

vars == <<list, dirList, loaded, i1, dir, nv, order, repeat, shuffle, opening, caching, fault>>
options == <<repeat, shuffle>>
files == <<opening, caching>>

Ids == 0..MaxItems + Len(Directory)
Item == [id : Ids, path : Path, valid : BOOLEAN]

Listed(d) == IF d THEN dirList ELSE list
Current == Listed(dir)
ValidIn(p) == {i \in Indices(p) : p[i + 1].valid}
HaveValid == i1 \in ValidIn(Current)

Least(S) == CHOOSE i \in S : \A j \in S : i <= j
Greatest(S) == CHOOSE i \in S : \A j \in S : i >= j

Count(p) == Cardinality(ValidIn(p))

Running == fault \notin {"ub", "spin"}

Init == /\ list = <<>> /\ dirList = <<>> /\ loaded = FALSE
        /\ i1 = -1 /\ dir = FALSE
        /\ nv = [d \in BOOLEAN |-> 0]
        /\ order = <<>>
        /\ repeat = "off" /\ shuffle = FALSE /\ opening = {} /\ caching = {}
        /\ fault = "none"

-----------------------------------------------------------------------------
(* What is played next.  next() and prev() are const, but for the order    *)
(* and nv, which they may renew: a choice is the index chosen with these.  *)

Choice(i, o, f) == [i |-> i, order |-> o, fault |-> f]
Nothing == Choice(-1, order, "none")

(* random(): it looks for a valid item until it finds one.                 *)
Random == IF ValidIn(Current) = {} THEN {Choice(-1, order, "spin")}
          ELSE {Choice(i, order, "none") : i \in ValidIn(Current)}

(* first() and last(), which trust nv: without a valid item an assert      *)
(* fails and nv is set to 0.                                               *)
FirstValid == IF ValidIn(Current) = {} THEN Choice(-1, order, "assert")
              ELSE Choice(Least(ValidIn(Current)), order, "none")
LastValid == IF ValidIn(Current) = {} THEN Choice(-1, order, "assert")
             ELSE Choice(Greatest(ValidIn(Current)), order, "none")

(* reshuffle(first): order[i] is swapped with order[j], j being drawn from *)
(* i..n, n included; a draw of n reaches past the end of the vector.       *)
Orders(first) ==
  {o \in [1..Len(Current) -> Indices(Current)] :
     o[1] = first /\ \A j, k \in DOMAIN o : o[j] = o[k] => j = k}
DrawsPastEnd == Len(Current) >= 2

(* The valid items that order o has after the current one.                 *)
PlaceOf(o, i) == CHOOSE k \in DOMAIN o : o[k] = i
Following(o, k) == {j \in DOMAIN o : j > k /\ o[j] \in ValidIn(Current)}
FirstAfter(o, k) == Choice(o[Least(Following(o, k))], o, "none")

(* The order is used up: a new one, which starts with the current song.    *)
NewRoundFromSecond ==
  {IF Following(o, 2) # {} THEN FirstAfter(o, 2) ELSE Choice(-1, o, "assert") :
     o \in Orders(i1)}
NewRound ==
  {IF Following(o, 1) # {} THEN FirstAfter(o, 1) ELSE Choice(-1, o, "assert") :
     o \in Orders(i1)}

OrderNow == IF Len(order) = Len(Current) THEN {order} ELSE Orders(i1)

Reshuffled(force) ==
  \/ Len(order) # Len(Current)
  \/ Following(order, PlaceOf(order, i1)) = {} /\ (repeat # "off" \/ force)

NextShuffled(force) ==
  (IF DrawsPastEnd /\ Reshuffled(force) THEN {Choice(-1, order, "ub")} ELSE {})
  \cup UNION {IF Following(o, PlaceOf(o, i1)) # {}
              THEN {FirstAfter(o, PlaceOf(o, i1))}
              ELSE IF repeat = "off" /\ ~force THEN {Choice(-1, o, "none")}
              ELSE NewRound : o \in OrderNow}

LaterAny == {i \in Indices(Current) : i > i1}
Later == {i \in ValidIn(Current) : i > i1}

EndsList(force) == ~force
EndsAtLast(force) == repeat = "off" /\ ~force

NextInList(force) ==
  IF Later # {} THEN Choice(Least(Later), order, "none")
  ELSE IF EndsAtLast(force) THEN Nothing
  ELSE FirstValid

Nexts(force) ==
  IF nv[dir] = 0 THEN {Nothing}
  ELSE IF repeat = "one"
  THEN IF HaveValid THEN {Choice(i1, order, "none")}
       ELSE IF shuffle THEN Random ELSE {FirstValid}
  ELSE IF ~shuffle THEN {NextInList(force)}
  ELSE IF ~HaveValid THEN Random ELSE NextShuffled(force)

PrevInList == LET earlier == {i \in ValidIn(Current) : i < i1}
              IN IF earlier # {} THEN Choice(Greatest(earlier), order, "none") ELSE LastValid

(* Without Shuffle prev() goes down from i1 - 1 and never looks at the     *)
(* size of the list: with i1 past the end it reads what lies behind the    *)
(* items, any of which may pass for a valid one, or none.                  *)
PastEnd == ~shuffle /\ i1 > Len(Current)
ReadPastEnd == {Choice(i, order, "ub") : i \in {PrevInList.i} \cup Len(Current)..i1 - 1}

Prevs ==
  IF nv[dir] = 0 THEN {Nothing}
  ELSE IF PastEnd THEN ReadPastEnd
  ELSE IF ~shuffle THEN {PrevInList}
  ELSE IF ~HaveValid \/ Len(order) # Len(Current) THEN Random
  ELSE LET before == {k \in DOMAIN order : k < PlaceOf(order, i1)
                                           /\ order[k] \in ValidIn(Current)}
       IN IF before # {} THEN {Choice(order[Greatest(before)], order, "none")} ELSE Random

(* The traces a choice leaves.                                             *)
Leaves(c) == /\ order' = c.order
             /\ fault' = IF c.fault = "none" THEN fault ELSE c.fault

NvLeft(c) == IF c.fault = "assert" THEN [nv EXCEPT ![dir] = 0] ELSE nv

-----------------------------------------------------------------------------
(* Playing                                                                 *)

Do(op) == Running /\ op \in Ops

(* play(song, restarting), with the playing thread ended; what it left to  *)
(* precache may still be going on.                                         *)
Restart(d, i) == /\ dir' = d /\ i1' = i /\ order' = <<>>
                 /\ opening' = {} /\ UNCHANGED caching

(* A client may know an older list than the server's, with more items.     *)
PlayIndex(i) ==
  /\ (Do("play") /\ i \in Indices(list)) \/ Do("playstale")
  /\ Restart(FALSE, i)
  /\ UNCHANGED <<list, dirList, loaded, nv, options, fault>>

Stop ==
  /\ Do("stop") /\ Restart(dir, -1)
  /\ UNCHANGED <<list, dirList, loaded, nv, options, fault>>

(* Items get identities not in use: from 1 on those of the playlist, after *)
(* MaxItems those of the directory.                                        *)
FreshIds(n) == {s \in [1..n -> 1..MaxItems \ {list[k].id : k \in DOMAIN list}] :
                  \A j, k \in 1..n : j < k => s[j] < s[k]}
Items(ids, paths) ==
  [k \in DOMAIN paths |-> [id |-> IF Tracked THEN ids[k] ELSE 0,
                           path |-> paths[k], valid |-> paths[k] \in Sound]]

IndexOf(p, f) == LET at == {i \in Indices(p) : p[i + 1].path = f}
                 IN IF at = {} THEN -1 ELSE Least(at)

(* play(path), which loads the directory unless it is loaded.              *)
PlayFile(f) ==
  /\ Do("playfile")
  /\ loaded' = TRUE
  /\ dirList' = IF loaded THEN dirList
                ELSE Items([k \in DOMAIN Directory |-> MaxItems + k], Directory)
  /\ nv' = IF loaded THEN nv ELSE [nv EXCEPT ![TRUE] = Count(dirList')]
  /\ Restart(TRUE, IndexOf(dirList', f))
  /\ UNCHANGED <<list, options, fault>>

(* play(plist, i), at any time or, as a bound, only with an empty list.    *)
PlayList(paths, i) ==
  /\ Do("playlist") \/ (Do("playfirst") /\ list = <<>>)
  /\ i \in -1..Len(paths) - 1
  /\ list' = Items([k \in DOMAIN paths |-> k], paths)
  /\ nv' = [nv EXCEPT ![FALSE] = Count(list')]
  /\ Restart(FALSE, i)
  /\ UNCHANGED <<dirList, loaded, options, fault>>

(* path(song): what player() gets to play and, if it plays, to precache.   *)
PathAt(i) == IF i \in ValidIn(Current) THEN {Current[i + 1].path} ELSE {}

(* play(next(force)) and play(prev()) of the playing thread, and its look  *)
(* at current() and next() for the songs to play and to precache.  With no *)
(* current song it is audio_play() that calls next(true).                  *)
PlayNext(force) ==
  /\ Do("next") /\ (i1 = -1 => force)
  /\ \E c \in Nexts(force) : i1' = c.i /\ opening' = {} /\ nv' = NvLeft(c) /\ Leaves(c)
  /\ UNCHANGED <<list, dirList, loaded, dir, options, caching>>

PlayPrev ==
  /\ Do("prev") /\ i1 # -1
  /\ \E c \in Prevs : i1' = c.i /\ opening' = {} /\ nv' = NvLeft(c) /\ Leaves(c)
  /\ UNCHANGED <<list, dirList, loaded, dir, options, caching>>

LookNext ==
  /\ Do("look") /\ i1 # -1
  /\ \E c \in Nexts(FALSE) : /\ nv' = NvLeft(c) /\ Leaves(c)
                            /\ opening' = PathAt(i1)
                            /\ caching' = IF HaveValid THEN PathAt(c.i) ELSE caching
  /\ UNCHANGED <<list, dirList, loaded, i1, dir, repeat, shuffle>>

-----------------------------------------------------------------------------
(* invalidate(path), of a file that player() would not open or decode      *)

IsValid(p, i, f) == i \in ValidIn(p) /\ p[i + 1].path = f

Spoil(p, S) == [k \in DOMAIN p |-> [p[k] EXCEPT !.valid = @ /\ k - 1 \notin S]]

(* The items of S are made invalid, in the list being played.              *)
SpoilHereUncounted(S, n) == /\ dirList' = IF dir THEN Spoil(dirList, S) ELSE dirList
                            /\ list' = IF dir THEN list ELSE Spoil(list, S)
                            /\ nv' = n
SpoilHere(S, n) == /\ dirList' = IF dir THEN Spoil(dirList, S) ELSE dirList
                   /\ list' = IF dir THEN list ELSE Spoil(list, S)
                   /\ nv' = [n EXCEPT ![dir] = @ - Cardinality(S)]

CarryingAny(p, f) == {i \in Indices(p) : p[i + 1].path = f}
Carrying(p, f) == {i \in ValidIn(p) : p[i + 1].path = f}

SpoilEverywhere(f, n) ==
  /\ list' = Spoil(list, Carrying(list, f))
  /\ dirList' = Spoil(dirList, Carrying(dirList, f))
  /\ nv' = [n EXCEPT ![FALSE] = @ - Cardinality(Carrying(list, f)),
                     ![TRUE] = @ - Cardinality(Carrying(dirList, f))]

(* "i1 >= 0 || i1 < p.size()" holds for every index from 0 on.             *)
LooksBeforeFirst == i1 >= -1
LooksAtCurrent == i1 >= 0

Invalidate(f) ==
  /\ Do("invalidate") /\ f \in opening \cup caching
  /\ IF LooksAtCurrent /\ i1 \notin Indices(Current)
     THEN fault' = "ub" /\ UNCHANGED <<list, dirList, nv, order>>
     ELSE IF LooksAtCurrent /\ IsValid(Current, i1, f)
     THEN SpoilHere({i1}, nv) /\ UNCHANGED <<order, fault>>
     ELSE \E c \in Nexts(TRUE) :
            /\ Leaves(c)
            /\ IF IsValid(Current, c.i, f) THEN SpoilHere({c.i}, NvLeft(c))
                                           ELSE SpoilEverywhere(f, NvLeft(c))
  /\ UNCHANGED <<loaded, i1, dir, options, files>>

-----------------------------------------------------------------------------
(* Edits                                                                   *)

(* Where the current song goes.                                            *)
AfterInsertBehind(idx, n) == IF idx >= 0 /\ i1 > idx THEN i1 + n ELSE i1
AfterInsert(idx, n) == IF idx >= 0 /\ i1 >= idx THEN i1 + n ELSE i1

Add(paths, idx) ==
  /\ Do(IF idx = -1 THEN "add" ELSE "insert") /\ nv[FALSE] < MaxNv
  /\ \E ids \in FreshIds(Len(paths)) :
       list' = Inserted(list, Items(ids, paths), idx)
  /\ i1' = AfterInsert(idx, Len(paths))
  /\ nv' = [nv EXCEPT ![FALSE] = @ + Cardinality({k \in DOMAIN paths : paths[k] \in Sound})]
  /\ UNCHANGED <<dirList, loaded, dir, order, options, files, fault>>

Smaller(a, b) == IF a < b THEN a ELSE b

AfterRemove(i, n) == IF ~dir /\ i1 >= i THEN i1 - Smaller(n, i1 - i) ELSE i1

RemoveItems(i, n) ==
  /\ Do("remove")
  /\ list' = Removed(list, i, n)
  /\ i1' = AfterRemove(i, n)
  /\ UNCHANGED <<dirList, loaded, dir, nv, order, options, files, fault>>

Move(i, j) ==
  /\ Do("move")
  /\ list' = Moved(list, i, j)
  /\ i1' = IF ~dir /\ i = i1 /\ i # -1 THEN j ELSE i1
  /\ UNCHANGED <<dirList, loaded, dir, nv, order, options, files, fault>>

(* remove() of files.                                                      *)
Without(p, F) == Keeping(p, {k \in DOMAIN p : p[k].path \notin F})

RemoveFiles(F) ==
  /\ Do("removefiles")
  /\ list' = Without(list, F)
  /\ UNCHANGED <<dirList, loaded, i1, dir, nv, order, options, files, fault>>

(* rename() of a file; move() of files to a directory does this to each.   *)
Rename(f, g) ==
  /\ Do("rename")
  /\ list' = [k \in DOMAIN list |-> IF list[k].path = f THEN [list[k] EXCEPT !.path = g]
                                                        ELSE list[k]]
  /\ UNCHANGED <<dirList, loaded, i1, dir, nv, order, options, files, fault>>

SetRepeat(r) == /\ Do("repeat") /\ repeat' = r
                /\ UNCHANGED <<list, dirList, loaded, i1, dir, nv, order, shuffle, files, fault>>

SetShuffle == /\ Do("shuffle") /\ shuffle' = ~shuffle
              /\ UNCHANGED <<list, dirList, loaded, i1, dir, nv, order, repeat, files, fault>>

-----------------------------------------------------------------------------
Room == MaxItems - Len(list)
PathLists(n) == UNION {[1..k -> Path] : k \in 1..n}

Edit == \/ \E paths \in PathLists(Smaller(Room, 2)), idx \in {-1} \cup Indices(list) : Add(paths, idx)
        \/ \E i \in Indices(list), n \in 1..MaxItems : RemoveItems(i, n)
        \/ \E i, j \in Indices(list) : Move(i, j)
        \/ \E f \in Path : RemoveFiles({f})
        \/ \E f, g \in Path : Rename(f, g)

Next == \/ \E i \in 0..MaxItems - 1 : PlayIndex(i)
        \/ \E f \in Sound : PlayFile(f)
        \/ \E paths \in PathLists(MaxItems), i \in -1..MaxItems - 1 : PlayList(paths, i)
        \/ \E force \in BOOLEAN : PlayNext(force)
        \/ PlayPrev \/ LookNext \/ Stop
        \/ \E f \in Sound : Invalidate(f)
        \/ Edit
        \/ \E r \in Repeats : SetRepeat(r)
        \/ SetShuffle

Spec == Init /\ [][Next]_vars

-----------------------------------------------------------------------------
TypeOK == /\ list \in Seq(Item) /\ Len(list) <= MaxItems /\ dirList \in Seq(Item)
          /\ loaded \in BOOLEAN /\ dir \in BOOLEAN /\ shuffle \in BOOLEAN
          /\ i1 \in Int /\ i1 >= -1
          /\ nv \in [BOOLEAN -> Int]
          /\ order \in Seq(Nat) /\ opening \subseteq Path /\ caching \subseteq Path
          /\ repeat \in {"off", "all", "one"}
          /\ fault \in {"none", "assert", "ub", "spin"}

(* "number of valid items in the lists" (server_plist.h:65).               *)
NvExact == \A d \in BOOLEAN : nv[d] = Count(Listed(d))

(* What next() and prev() rely on: a list with something to play is never  *)
(* taken for one without (server_plist.cc:98, 110, 119, 147, 187), but for *)
(* the failed assertions, which clear nv, and what comes after them.       *)
NvNotLow == fault = "none" => \A d \in BOOLEAN : nv[d] >= Count(Listed(d))

(* No assert() fails, nothing outside an array is touched and no loop runs  *)
(* for ever, in whatever order songs are played, invalidated and edited.   *)
NoFault == fault = "none"

(* The assertions of server_plist.cc:114, 123 and 182: a list with nv     *)
(* items to play has one to return.                                        *)
AssertsHold == fault # "assert"

CurrentItem == IF i1 \in Indices(Current) THEN Current[i1 + 1].id ELSE 0
IdsIn(p) == {p[k].id : k \in DOMAIN p}

(* i1 is the "current song" (server_plist.h:62): an edit of the playlist   *)
(* changes its index but not the song, unless it removes it.  (Move(),     *)
(* and edits while a song of the directory is played, do change it.)       *)
CurrentKept ==
  [][Edit /\ ~dir => CurrentItem \in {0, CurrentItem'} \cup (IdsIn(Current) \ IdsIn(Current'))]_vars

(* "items with type F_OTHER are considered invalid and never returned!"    *)
(* (server_plist.h:60), however the list was edited, but by a prev() from  *)
(* an index past the end of the list, which reads behind the items.        *)
NextIsValid ==
  [][(\E force \in BOOLEAN : PlayNext(force)) \/ (PlayPrev /\ ~PastEnd)
       => i1' = -1 \/ HaveValid']_vars

(* With Repeat on, the music stops only with nothing left to play: played  *)
(* in order, or one song over and over, any valid item will do; a new      *)
(* shuffled round passes over the current song, and with no other valid    *)
(* one the assertion of server_plist.cc:182 fails.  A reshuffling that     *)
(* draws past the end of the order is excepted.                            *)
LeftToPlay == IF shuffle /\ repeat = "all" /\ HaveValid THEN ValidIn(Current) \ {i1}
                                                      ELSE ValidIn(Current)
RepeatPlaysOn ==
  [][PlayNext(FALSE) /\ repeat # "off" /\ fault = "none" /\ LeftToPlay # {}
       => i1' # -1 \/ fault' = "ub"]_vars

=============================================================================
