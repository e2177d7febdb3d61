------------------------------ MODULE Interface ------------------------------
(***************************************************************************)
(* The terminal client: the two panels, their selections and marks, the    *)
(* menu, the dialogs, the commands of the user and the events of the       *)
(* server (client/interface.cc, client/client.cc, client/Views).           *)
(*                                                                         *)
(* Client::run() is one thread.  It handles all events and keys that wait  *)
(* before it draws, so a command may meet panels that changed since they   *)
(* were last on the screen.  What the server and the other clients do is   *)
(* any event a server may send; PlistSync says which it sends when.        *)
(*                                                                         *)
(* Indices are the code's: from 0 on, -1 for none.                         *)
(***************************************************************************)
EXTENDS Plist

CONSTANTS Songs,       \* the sound files a playlist may hold, in the order of a listing
          OnDisk,      \* those that the directory "top" holds at first
          ListFile,    \* a playlist file of "top"
          Loaded,      \* what it lists
          Playlists,   \* the playlists the client may begin with or get from the server
          Playing,     \* what the server may play: a file, its index in the server's list
          Height,      \* by layout and panel: the rows of the panel
          MaxKeys,     \* bound: the user's keys and clicks
          MaxEvents,   \* bound: the server's events
          Keys         \* the kinds of commands the user gives

None == "none"
Side == {"left", "right"}      \* the directory and the playlist
Other(s) == CHOOSE t \in Side : t # s
Song == Range(Songs)
Requests == {"collapse", "up", "down", "scroll_up", "scroll_down", "pgup", "pgdown",
             "top", "bottom", "xup", "xdown"}

Track == Song \cup Range(Loaded) \cup UNION {Range(p) : p \in Playlists}
Item == Track \cup {"top", "sub", ListFile}
Layout == {"hsplit", "vsplit", "single"}

ASSUME InterfaceAssumption ==
  /\ Songs \in Seq(Track) /\ Loaded \in Seq(Track) /\ Playlists \subseteq Seq(Track)
  /\ Playing \subseteq [file : Track, idx : {-1} \cup Nat]
  /\ OnDisk \subseteq Song /\ None \notin Item
  /\ Height \in [Layout -> [Side -> Nat \ {0}]]
  /\ Keys \subseteq {"move", "panel", "layout", "go", "add", "delete", "shift", "clear",
                   "desync", "dialog"}

VARIABLES
  client,        \* the state of the client, see Started
  menu,          \* Menu::active
  dragging,      \* the mouse was pressed in the menu and is held
  shown,         \* by panel: what is on the screen
  keys, events   \* how many there were

vars == <<client, menu, dragging, shown, keys, events>>

(* The songs in the order of a listing.                                    *)
InOrder(present) == Keeping(Songs, {k \in DOMAIN Songs : Songs[k] \in present})
Listing(dir, present) ==
  IF dir = "sub" THEN <<"top">>
  ELSE <<"sub">> \o InOrder(present) \o <<ListFile>>

NoSong == [file |-> None, idx |-> -1]
NoMove == [i |-> 0, j |-> 0]
NoDialog == [fn |-> None, range |-> <<-1, -1>>, about |-> <<>>, asks |-> FALSE,
             touched |-> FALSE]
NewView == [top |-> 0, sel |-> -1, xsel |-> 0, mark |-> -1]

Least(a, b) == IF a <= b THEN a ELSE b

(* The state of the client, by field:                                      *)
(*   list, view     by panel, its items, and top, sel, xsel and mark       *)
(*   active, layout the panel that has the keyboard, options::layout       *)
(*   cwd, files     the directory on the left, the files there are in "top"*)
(*   synced         Client::synced                                         *)
(*   want, ask      Client::want_plist_update, Client::want_state_update   *)
(*   cur            the song being played: curr_file and curr_idx          *)
(*   dialog         the dialog, and the range of items it was opened for   *)
(*   redraw         need_redraw asks for the panels                        *)
(*   fault          an item outside of a list was accessed                 *)
(* and, for the properties:                                                *)
(*   missed         one of the steps that change a panel and ask for no    *)
(*                  redraw was taken since the panels were drawn           *)
(*   moving         the last thing the user did: a move not yet reported   *)
Started(p, insync, song) ==
  [list |-> [left |-> Listing("top", OnDisk), right |-> p],
   view |-> [left |-> NewView, right |-> [NewView EXCEPT !.sel = Least(song.idx, Len(p) - 1)]],
   active |-> "right", layout |-> "hsplit", cwd |-> "top", files |-> OnDisk,
   synced |-> insync, want |-> FALSE, ask |-> FALSE, cur |-> song, dialog |-> NoDialog,
   redraw |-> TRUE, missed |-> FALSE, moving |-> NoMove, fault |-> FALSE]

(* What is played, or nothing: the index is that in the server's list,     *)
(* which may be a newer one than the client's, and is for clients in step. *)
Plays(insync) ==
  {NoSong} \cup {[song EXCEPT !.idx = IF insync THEN @ ELSE -1] : song \in Playing}

(* Client::Client(): it has the server's list, or one of its own.          *)
Init ==
  /\ \E p \in Playlists, insync \in BOOLEAN :
       \E song \in Plays(insync) : client = Started(p, insync, song)
  /\ menu = FALSE /\ dragging = FALSE
  /\ shown = [d \in Side |-> <<>>] /\ keys = 0 /\ events = 0

-----------------------------------------------------------------------------
(* Panels (Views/Panel.cc)                                                 *)

Most(a, b) == IF a >= b THEN a ELSE b
Size(s, d) == Len(s.list[d])
Rows(s, d) == Height[s.layout][d]
Drawn(s) == IF s.layout = "single" THEN {s.active} ELSE Side

(* Interface::selection(): the first and the last item selected.           *)
Selection(v) == IF v.sel < 0 THEN <<-1, -1>>
                ELSE <<Least(v.sel, v.sel + v.xsel), Most(v.sel, v.sel + v.xsel)>>
InList(r, p) == 0 <= r[1] /\ r[2] < Len(p)
ItemsAt(p, r) == IF InList(r, p) THEN SubSeq(p, r[1] + 1, r[2] + 1) ELSE <<>>
ActiveRange(s) == Selection(s.view[s.active])

(* select_item()                                                           *)
ItemSelected(v, i, n) == [v EXCEPT !.sel = Least(i, n - 1), !.xsel = 0]
ReselectsAnother(v, i, n) == v.sel # Least(i, n - 1)
Reselects(v, i, n) == <<v.sel, v.xsel>> # <<Least(i, n - 1), 0>>

Clamped(i, n) == Most(0, Least(i, n - 1))
Lowest(v) == Least(v.sel, v.sel + v.xsel)
Highest(v) == Most(v.sel, v.sel + v.xsel)
ScrolledDown(top, d, n, h) == IF top + d + h - 1 >= n THEN Most(0, n - h) ELSE top + d

(* move_selection(req), before it keeps sel within the list.               *)
Moving(v, req, n, h) ==
  LET half == (h - 1) \div 2
      To(i) == [v EXCEPT !.sel = i, !.xsel = 0] IN
  CASE req = "collapse" -> [v EXCEPT !.xsel = 0]
    [] req = "up" -> To(IF Lowest(v) < 0 THEN n - 1 ELSE Lowest(v) - 1)
    [] req = "down" -> To(IF Highest(v) < 0 THEN 0 ELSE Highest(v) + 1)
    [] req = "scroll_up" -> [To(Lowest(v) - half) EXCEPT !.top = Most(0, v.top - half)]
    [] req = "pgup" -> [To(Lowest(v) - (h - 1)) EXCEPT !.top = Most(0, v.top - (h - 1))]
    [] req = "scroll_down" ->
         [To(Highest(v) + half) EXCEPT !.top = ScrolledDown(v.top, half, n, h)]
    [] req = "pgdown" ->
         [To(Highest(v) + h - 1) EXCEPT !.top = ScrolledDown(v.top, h - 1, n, h)]
    [] req = "top" -> To(0)
    [] req = "bottom" -> To(n - 1)
    [] req = "xup" -> IF v.sel > 0 THEN [v EXCEPT !.sel = @ - 1, !.xsel = @ + 1] ELSE v
    [] req = "xdown" -> IF v.sel >= 0 /\ v.sel + 1 < n
                        THEN [v EXCEPT !.sel = @ + 1, !.xsel = @ - 1] ELSE v

(* A panel without a selection starts at the song that is marked.          *)
FromMark(v, n) == IF v.sel >= 0 THEN v
                 ELSE [v EXCEPT !.xsel = 0, !.sel = IF v.mark \in 0..n - 1 THEN v.mark ELSE @]

SelectionMoved(v, req, n, h) ==
  IF n = 0 THEN v
  ELSE LET w == Moving(FromMark(v, n), req, n, h) IN [w EXCEPT !.sel = Clamped(@, n)]

(* mark_path() and mark_item(): the selection goes along when it is on the *)
(* marked item.                                                            *)
Marked(v, i) ==
  LET along == v.sel >= 0 /\ v.sel = v.mark /\ v.xsel = 0 /\ i >= 0
  IN [v EXCEPT !.mark = i, !.sel = IF along THEN i ELSE @]

FindPath(p, f) == IF \E i \in Indices(p) : p[i + 1] = f
                  THEN CHOOSE i \in Indices(p) : /\ p[i + 1] = f
                                                 /\ \A j \in 0..i - 1 : p[j + 1] # f
                  ELSE -1

(* Panel::draw(): the selection and the mark are kept within the list, and *)
(* top is moved for the selection to be seen, with items around it.        *)
Lookahead(h) == Least(5, h \div 4)

InRange(v, n) ==
  [v EXCEPT !.xsel = IF v.sel < 0 THEN 0 ELSE @,
            !.sel = IF @ < 0 THEN -1 ELSE IF @ >= n THEN Most(0, n - 1) ELSE @,
            !.mark = IF @ \in 0..n - 1 THEN @ ELSE -1]

TopFor(v, n, h) ==
  LET up == IF v.sel >= 0 /\ n > 0 /\ v.sel - Lookahead(h) < v.top
            THEN v.sel - Lookahead(h) ELSE v.top
      down == IF v.sel >= 0 /\ n > 0 /\ v.sel + Lookahead(h) > up + h - 1
              THEN v.sel + Lookahead(h) - (h - 1) ELSE up
  IN Most(0, IF down + h > n THEN n - h ELSE down)

PanelDrawn(v, n, h) == LET w == InRange(v, n) IN [w EXCEPT !.top = TopFor(w, n, h)]

-----------------------------------------------------------------------------
(* What the commands and events are made of                                *)

Redraw(s) == [s EXCEPT !.redraw = TRUE]
RedrawIf(b, s) == IF b THEN Redraw(s) ELSE s

GoToDirPlist(s) == IF s.active = "left" THEN s ELSE Redraw([s EXCEPT !.active = "left"])

SelectItem(s, d, i) ==
  RedrawIf(Reselects(s.view[d], i, Size(s, d)),
           [s EXCEPT !.view[d] = ItemSelected(@, i, Size(s, d))])

SelectPath(s, f) ==
  LET g == GoToDirPlist(s)
      i == FindPath(g.list.left, f)
  IN IF i >= 0 THEN SelectItem(g, "left", i) ELSE g

MoveSelection(s, d, req) ==
  [s EXCEPT !.view[d] = SelectionMoved(@, req, Size(s, d), Rows(s, d))]

(* go_to_dir(): in the same directory sel, xsel and top stay what they     *)
(* were.                                                                   *)
GoToDir(s, dir) ==
  LET at == Redraw([s EXCEPT !.cwd = dir, !.list.left = Listing(dir, s.files)])
  IN IF dir = s.cwd THEN at ELSE SelectPath([at EXCEPT !.view.left.top = 0], s.cwd)
Reload(s) == GoToDir(s, s.cwd)

(* go_to_playlist() and the other commands that give up the server's list: *)
(* those that call drop_sync() forget the index of what is played.         *)
LoadPlaylist(s) == Redraw([s EXCEPT !.list.right = Loaded, !.synced = FALSE])
DropSync(s) == LET t == [s EXCEPT !.synced = FALSE, !.cur.idx = -1]
               IN RedrawIf(s.cur.idx # -1, t)

(* update_curr_index()                                                     *)
UpdateIndex(s, i) ==
  IF i = s.cur.idx THEN s
  ELSE Redraw([s EXCEPT !.cur.idx = i, !.view.right = [@ EXCEPT !.mark = i]])

Type(f) == IF f \in {"top", "sub"} THEN "dir" ELSE IF f = ListFile THEN "list" ELSE "song"

(* add_to_plist() puts together what the selected items stand for.         *)
Content(s, f) == CASE Type(f) = "song" -> <<f>>
                   [] Type(f) = "list" -> Loaded
                   [] OTHER -> IF f = "sub" THEN <<>>
                               ELSE InOrder(s.files)
Contents(s) == FlattenSeq([k \in DOMAIN ItemsAt(s.list.left, ActiveRange(s)) |->
                            Content(s, ItemsAt(s.list.left, ActiveRange(s))[k])])

-----------------------------------------------------------------------------
(* The commands of the user, from the state of the client to what it       *)
(* becomes.                                                                *)

Fault(s) == [s EXCEPT !.fault = TRUE]
ActiveList(s) == s.list[s.active]
ActiveItems(s) == ItemsAt(ActiveList(s), ActiveRange(s))
Types(s) == {Type(f) : f \in Range(ActiveItems(s))}

(* Commands about the items selected look each of them up in the list.     *)
OnSelection(s, then) == IF ActiveRange(s)[1] < 0 THEN s
                        ELSE IF ~InList(ActiveRange(s), ActiveList(s)) THEN Fault(s)
                        ELSE then

AddToPlist(s, atEnd) ==
  LET new == Contents(s)
      pos == IF atEnd THEN -1 ELSE s.cur.idx + 1
      size == Size(s, "right")
      there == IF s.synced
               THEN SelectItem(s, "right", IF atEnd THEN size ELSE pos)
               ELSE Redraw(SelectItem([s EXCEPT !.list.right = Inserted(@, new, pos)],
                                      "right", IF atEnd THEN size - 1 ELSE pos))
      moved == MoveSelection(there, "left", "down")
  IN IF s.active = "right" THEN s
     ELSE OnSelection(s, IF new = <<>> THEN s
                         ELSE [moved EXCEPT !.missed = @ \/ ~moved.redraw])

DeleteItem(s) ==
  LET r == ActiveRange(s)
      t == IF s.synced THEN s
           ELSE Redraw([s EXCEPT !.list.right = Removed(@, r[1], r[2] - r[1] + 1)])
  IN IF s.active = "left" \/ r[1] < 0 THEN s ELSE SelectItem(t, "right", r[1])

(* move_item(): the neighbour of the items selected goes to their other    *)
(* end.                                                                    *)
MoveItem(s, dir) ==
  LET r == ActiveRange(s)
      i == IF dir > 0 THEN r[2] + 1 ELSE r[1] - 1
      j == IF dir > 0 THEN r[1] ELSE r[2]
  IN IF s.active = "left" \/ r[1] < 0 \/ r[2] >= Size(s, "right")
        \/ i \notin Indices(s.list.right) THEN s
     ELSE IF s.synced THEN [s EXCEPT !.moving = [i |-> i, j |-> j]]
     ELSE Redraw([s EXCEPT !.list.right = Moved(@, i, j), !.view.right.sel = @ + dir])

ClearPlist(s) ==
  IF s.synced THEN {Redraw([DropSync(s) EXCEPT !.list.right = <<>>])}
  ELSE IF s.list.right # <<>> THEN {Redraw([s EXCEPT !.list.right = <<>>])}
  ELSE {Redraw([s EXCEPT !.list.right = p, !.synced = TRUE, !.ask = TRUE]) : p \in Playlists}

(* sel_item(): the one item selected, if it is one.                        *)
Go(s) ==
  LET v == s.view[s.active]
      f == ActiveList(s)[v.sel + 1]
  IN IF v.xsel # 0 \/ v.sel \notin Indices(ActiveList(s)) THEN s
     ELSE CASE Type(f) = "song" -> IF s.active = "left" THEN s ELSE [s EXCEPT !.synced = TRUE]
            [] Type(f) = "dir" -> GoToDir(s, f)
            [] OTHER -> LoadPlaylist(s)

GoToPlayingFile(s) ==
  IF s.active = "right" /\ s.synced /\ s.cur.idx >= 0 THEN SelectItem(s, "right", s.cur.idx)
  ELSE IF s.cur.file = None THEN s
  ELSE GoToDirPlist(SelectPath(GoToDir(s, "top"), s.cur.file))

GoDirUp(s) == IF s.active = "left" /\ s.cwd = "sub" THEN GoToDir(s, "top") ELSE s

NextLayout == [hsplit |-> "vsplit", vsplit |-> "single", single |-> "hsplit"]

(* Dialog::Dialog() takes down which items are selected.                   *)
Opened(s, fn) ==
  Redraw([s EXCEPT !.dialog = [fn |-> fn, range |-> ActiveRange(s), about |-> ActiveItems(s),
                               asks |-> fn = "rm", touched |-> FALSE]])

(* can_tag(), can_mv() and can_rm().                                       *)
Can(s, fn) == CASE fn = "tag" -> Types(s) = {"song"}
                [] fn = "mv" -> ~(s.active = "left" /\ ActiveRange(s)[1] = 0 /\ s.cwd = "sub")
                [] fn = "rm" -> "dir" \notin Types(s)

OpenDialog(s, fn) == OnSelection(s, IF Can(s, fn) THEN Opened(s, fn) ELSE s)
SavePlist(s) ==
  IF s.list.right = <<>> THEN s
  ELSE Redraw([s EXCEPT !.dialog = [NoDialog EXCEPT !.fn = "save"]])

Commands(s) ==
  [move |-> {Redraw(MoveSelection(s, s.active, req)) : req \in Requests \ {"collapse"}},
   panel |-> {Redraw([s EXCEPT !.active = Other(@)])},
   layout |-> {Redraw([s EXCEPT !.layout = NextLayout[@]])},
   go |-> {Go(s), GoDirUp(s), GoToPlayingFile(s), Reload(s)},
   add |-> {AddToPlist(s, TRUE), AddToPlist(s, FALSE)},
   delete |-> {DeleteItem(s)},
   shift |-> {MoveItem(s, 1), MoveItem(s, -1)},
   clear |-> ClearPlist(s),
   desync |-> {IF s.synced THEN DropSync(s) ELSE s},
   dialog |-> {SavePlist(s)} \cup {OpenDialog(s, fn) : fn \in {"tag", "mv", "rm"}}]

-----------------------------------------------------------------------------
(* A dialog: it has the keyboard and the mouse (Views/Dialog.cc).          *)

Closed(s) == Redraw([s EXCEPT !.dialog = NoDialog])
Deselected(s) == Redraw(MoveSelection(s, s.active, "collapse"))

(* ok(): the range of items taken down is applied to the panel that is     *)
(* active now.  Files are not moved for many reasons, or renamed.          *)
DialogItems(s) == ItemsAt(ActiveList(s), s.dialog.range)
HasDir(s) == \E f \in Range(DialogItems(s)) : Type(f) = "dir"

Accepted(s) ==
  IF s.dialog.fn = "save"
  THEN {Closed(s), Closed(Reload(s)), Redraw([s EXCEPT !.dialog.asks = TRUE])}
  ELSE IF ~InList(s.dialog.range, ActiveList(s)) THEN {Fault(s)}
  ELSE CASE s.dialog.fn = "tag" -> {Closed(s)}
         [] s.dialog.fn = "mv" -> {Closed(s)} \cup (IF HasDir(s) THEN {} ELSE {Closed(Deselected(s))})
         [] s.dialog.fn = "rm" -> {IF HasDir(s) THEN Closed(s) ELSE Closed(Deselected(s))}

Refused(s) == IF s.dialog.asks /\ s.dialog.fn # "rm" THEN Redraw([s EXCEPT !.dialog.asks = FALSE])
              ELSE Closed(s)

-----------------------------------------------------------------------------
(* The events of the server, Client::handle_server_event().                *)

Follows(s) == s.synced /\ ~s.want

IndexAfterAdd(i, new, idx) == IF idx >= 0 /\ i >= idx THEN i + Len(new) ELSE i
IndexAfterDel(i, at, n) == IF i > at THEN Most(at, i - n) ELSE i
IndexShortOfMove(k, i, j) == CASE k = i -> j
                               [] k # i /\ i < j /\ i < k /\ k < j -> k - 1
                               [] k # i /\ i > j /\ k < i /\ j < k -> k + 1
                               [] OTHER -> k
IndexAfterMove(k, i, j) == CASE k = i -> j
                             [] k # i /\ i < j /\ i < k /\ k <= j -> k - 1
                             [] k # i /\ i > j /\ k < i /\ j <= k -> k + 1
                             [] OTHER -> k

(* plist::remove() of files counts what stays, not what goes: each item    *)
(* kept takes one off an index that is still behind it.                    *)
Staying(p, F) == {k \in DOMAIN p : p[k] \notin F}
Without(p, F) == Keeping(p, Staying(p, F))
IndexAfterRm(p, F, idx) ==
  LET Before(k) == Cardinality({j \in Staying(p, F) : j < k})
  IN idx - Cardinality({k \in Staying(p, F) : idx - Before(k) > k - 1})

EvAdd(s, new, idx) ==
  Redraw(UpdateIndex([s EXCEPT !.list.right = Inserted(@, new, idx)],
                     IndexAfterAdd(s.cur.idx, new, idx)))
EvDel(s, i, n) ==
  Redraw(UpdateIndex([s EXCEPT !.list.right = Removed(@, i, n)],
                     IndexAfterDel(s.cur.idx, i, n)))

\* Along, as if one item could be selected only.
AlongOne(s, i, j) ==
  LET r == Selection(s.view.right)
  IN IF s.active = "left" \/ r[1] < 0 THEN 0
     ELSE IF i + 1 = r[1] /\ j = r[1] THEN -1
     ELSE IF i = r[2] + 1 /\ j = r[2] THEN 1 ELSE 0

(* A move past the items selected takes the selection along.               *)
Along(s, i, j) ==
  LET r == Selection(s.view.right)
  IN IF s.active = "left" \/ r[1] < 0 THEN 0
     ELSE IF i + 1 = r[1] /\ j = r[2] THEN -1
     ELSE IF i = r[2] + 1 /\ j = r[1] THEN 1 ELSE 0
EvMove(s, i, j) ==
  Redraw(UpdateIndex([s EXCEPT !.list.right = Moved(@, i, j),
                               !.view.right.sel = @ + Along(s, i, j)],
                     IndexAfterMove(s.cur.idx, i, j)))

EvRm(s, F) ==
  LET t == UpdateIndex([s EXCEPT !.list.right = Without(@, F), !.files = @ \ F],
                       IndexAfterRm(s.list.right, F, s.cur.idx))
  IN Reload(t)
EvMod(s, f, g) ==
  Reload([s EXCEPT !.list.right = ReplaceAll(@, f, g), !.files = (@ \ {f}) \cup {g}])

Events(s) ==
  (IF ~Follows(s) THEN {}
   ELSE {EvAdd(s, <<f>>, idx) : f \in s.files, idx \in -1..Size(s, "right")}
        \cup (UNION {{EvDel(s, i, n) : n \in 1..Size(s, "right") - i} :
                  i \in Indices(s.list.right)})
        \cup {EvMove(s, i, j) : i, j \in Indices(s.list.right)})
  \cup {EvRm(s, F) : F \in (SUBSET s.files) \ {{}}}
  \cup {EvMod(s, f, g) : f \in s.files, g \in Song \ s.files}
  \cup {[s EXCEPT !.want = @ \/ s.synced], [s EXCEPT !.ask = TRUE]}

-----------------------------------------------------------------------------
(* Drawing, Interface::draw()                                              *)

(* There is always a selection, on a panel that is not empty.              *)
PanelFor(s) == IF ActiveList(s) # <<>> THEN s.active
               ELSE IF s.list.right # <<>> THEN "right"
               ELSE IF s.list.left # <<>> THEN "left" ELSE s.active

WithSelection(s) ==
  LET d == PanelFor(s)
      v == s.view[d]
  IN [s EXCEPT !.active = d,
               !.view[d].sel = IF v.sel = -1 /\ v.mark = -1 /\ s.list[d] # <<>> THEN 0 ELSE @]

WithMarks(s) ==
  [s EXCEPT !.view.left = Marked(@, FindPath(s.list.left, s.cur.file)),
            !.view.right = Marked(@, s.cur.idx)]

PanelsDrawn(s) ==
  LET t == WithMarks(s)
  IN [t EXCEPT !.view = [d \in Side |-> IF d \in Drawn(t)
                                        THEN PanelDrawn(t.view[d], Size(t, d), Rows(t, d))
                                        ELSE t.view[d]],
               !.redraw = FALSE, !.missed = FALSE]

Picture(s) == [d \in Side |-> IF d \in Drawn(s) THEN <<s.list[d], s.view[d]>> ELSE <<>>]

-----------------------------------------------------------------------------
(* The loop, Client::run(), and what it reads                              *)

HasDialog == client.dialog.fn # None
AtRest == [client EXCEPT !.moving = NoMove]

Pressed == /\ ~client.fault /\ keys < MaxKeys /\ keys' = keys + 1
           /\ UNCHANGED <<shown, events>>

Command(s) == LET all == Commands(s) IN \E k \in Keys : client' \in all[k]

Key == /\ Pressed /\ ~HasDialog /\ ~menu
       /\ Command(AtRest)
       /\ UNCHANGED <<menu, dragging>>

(* Menu::handle_key(): what is executed in the menu, or another key.  The  *)
(* menu is left, or stays (KEY_CMD_MENU_EXEC_NOCLOSE).                     *)
MenuKey == /\ Pressed /\ ~HasDialog /\ menu
           /\ Command(AtRest)
           /\ menu' \in BOOLEAN /\ UNCHANGED dragging

ToggleMenu == /\ Pressed /\ ~HasDialog /\ client' = Redraw(AtRest)
              /\ menu' = ~menu /\ UNCHANGED dragging

DialogKey == /\ Pressed /\ HasDialog
             /\ client' \in Accepted(AtRest) \cup {Refused(AtRest), Closed(AtRest)}
             /\ UNCHANGED <<menu, dragging>>

(* The mouse is pressed: a dialog takes it, or the menu.                   *)
Press == /\ Pressed
         /\ dragging' = ~HasDialog
         /\ menu' = (menu \/ ~HasDialog)
         /\ client' = IF HasDialog THEN AtRest ELSE Redraw(AtRest)

(* It is released: the menu, if it was pressed there or there is no        *)
(* dialog, executes the item below it.                                     *)
Release ==
  /\ Pressed /\ (dragging \/ ~HasDialog) /\ menu
  /\ dragging' = FALSE /\ menu' = FALSE
  /\ LET s == [AtRest EXCEPT !.dialog.touched = HasDialog] IN
       client' = Redraw(s) \/ Command(s)

(* A click on a row of a panel, or past its items; a double click goes     *)
(* there.  FrameView::handle_click(), Panel::handle_click().               *)
ClickFallsThrough == FALSE
DialogTakesClick == HasDialog
RowClicked(s, d, row) ==
  LET t == RedrawIf(s.active # d, [s EXCEPT !.active = d])
      i == Most(0, Least(t.view[d].top + row, Size(t, d) - 1))
  IN RedrawIf(<<t.view[d].sel, t.view[d].xsel>> # <<i, 0>>,
              [t EXCEPT !.view[d] = [@ EXCEPT !.sel = i, !.xsel = 0]])

Click == /\ Pressed /\ ~DialogTakesClick /\ ~menu
         /\ \E d \in Drawn(client), twice \in BOOLEAN : \E row \in 0..Rows(client, d) - 1 :
              LET s == RowClicked(AtRest, d, row)
                  hit == AtRest.view[d].top + row < Size(s, d)
              IN client' = IF twice /\ hit THEN Go(s) ELSE s
         /\ dragging' = FALSE /\ UNCHANGED menu

Scroll == /\ Pressed /\ ~HasDialog /\ ~menu
          /\ \E d \in Drawn(client), req \in {"scroll_up", "scroll_down"} :
               client' = Redraw(MoveSelection([AtRest EXCEPT !.active = d], d, req))
          /\ UNCHANGED <<menu, dragging>>

Noticed == /\ ~client.fault /\ events < MaxEvents /\ events' = events + 1
           /\ UNCHANGED <<menu, dragging, shown, keys>>

Touched(s) == [s EXCEPT !.dialog.touched = @ \/ s.dialog.fn # None]

ServerEvent == Noticed /\ client' \in Events(Touched(AtRest))

(* The end of a turn of run(), with nothing more to read: the list of the  *)
(* server is fetched if it is a new one, and no redraw asked for; the song *)
(* that is played is asked for; the panels are drawn, or less than them.   *)
Fetched(s) ==
  IF s.want /\ s.synced
  THEN {[Touched(s) EXCEPT !.list.right = p, !.want = FALSE, !.moving = NoMove,
                           !.missed = @ \/ ~s.redraw] : p \in Playlists}
  ELSE {[s EXCEPT !.want = FALSE]}

UpdatedState(s) ==
  IF s.ask
  THEN {RedrawIf(song # s.cur, [s EXCEPT !.cur = song, !.ask = FALSE, !.moving = NoMove]) :
          song \in Plays(s.synced)}
  ELSE {s}

OthersDrawn(s) == [s EXCEPT !.missed = @ \/ s.view # client.view]

Turn ==
  /\ ~client.fault
  /\ \E f \in Fetched(client) : \E u \in UpdatedState(f) :
       LET s == WithSelection(u) IN
         IF s.redraw THEN client' = PanelsDrawn(s) /\ shown' = Picture(client')
                     ELSE client' = OthersDrawn(s) /\ UNCHANGED shown
  /\ UNCHANGED <<menu, dragging, keys, events>>

Next == \/ Key \/ MenuKey \/ ToggleMenu \/ DialogKey
        \/ Press \/ Release \/ Click \/ Scroll
        \/ ServerEvent \/ Turn

Spec == Init /\ [][Next]_vars

-----------------------------------------------------------------------------
View == [top : Int, sel : Int, xsel : Int, mark : Int]
Client ==
  [list : [Side -> Seq(Item)], view : [Side -> View], active : Side, layout : Layout,
   cwd : {"top", "sub"}, files : SUBSET Song,
   synced : BOOLEAN, want : BOOLEAN, ask : BOOLEAN,
   cur : [file : Item \cup {None}, idx : Int],
   dialog : [fn : {None, "tag", "mv", "rm", "save"}, range : Int \X Int,
             about : Seq(Item), asks : BOOLEAN, touched : BOOLEAN],
   redraw : BOOLEAN, missed : BOOLEAN, moving : [i : Int, j : Int], fault : BOOLEAN]

TypeOK ==
  /\ client \in Client /\ menu \in BOOLEAN /\ dragging \in BOOLEAN
  /\ shown \in [Side -> {<<>>} \cup (Seq(Item) \X View)]
  /\ keys \in Nat /\ events \in Nat

(* Unless a redraw is due, what is on the screen is what the panels hold,  *)
(* and the selected row is seen in it: a command that follows acts on the  *)
(* items the user sees selected.  Three steps change a panel and ask for no *)
(* redraw (missed): the fetch of the server's list, an addition to it that *)
(* is not reported yet, and the selection made for a panel that has none   *)
(* (client.cc:579 and 311, interface.cc:338).                              *)
Seen(d) ==
  LET v == client.view[d] IN
    /\ v.top \in 0..Most(0, Size(client, d) - Rows(client, d))
    /\ v.sel >= 0 /\ Size(client, d) > 0
         => v.sel \in v.top..Least(v.top + Rows(client, d), Size(client, d)) - 1

ShownIsSelected ==
  ~client.redraw /\ ~client.missed /\ ~client.fault
    => /\ shown = Picture(client)
       /\ \A d \in Drawn(client) : Seen(d)

(* Nobody but the user with the dialog changes which items its range       *)
(* stands for, as long as no event comes from the server (Dialog.cc:148)   *)
(* and no item of the menu is executed by a drag that began before it.     *)
DialogKeepsItems ==
  HasDialog /\ ~client.dialog.touched /\ client.dialog.fn # "save"
    => DialogItems(client) = client.dialog.about

(* The mark stays on the song it is on when other clients add, delete and  *)
(* move items of the list, unless the song is deleted (client.cc:852-913). *)
Once(p, f) == Cardinality({k \in DOMAIN p : p[k] = f}) = 1
MarkedSong == IF client.synced /\ client.cur.idx \in Indices(client.list.right)
              THEN client.list.right[client.cur.idx + 1] ELSE None

MarkStays ==
  [][events' > events /\ client'.files = client.files /\ client'.list # client.list
       /\ Once(client.list.right, MarkedSong) /\ Once(client'.list.right, MarkedSong)
       => MarkedSong' = MarkedSong]_vars

(* The items a user moves stay selected when the server reports the move,  *)
(* if nothing else happened since (client.cc:488, 894-901).                *)
SelectionFollowsMove ==
  [][client.moving # NoMove /\ Follows(client)
       /\ client' = EvMove(Touched(AtRest), client.moving.i, client.moving.j)
       => ItemsAt(client.list.right, Selection(client.view.right))
            = ItemsAt(client'.list.right, Selection(client'.view.right))]_vars
=============================================================================
