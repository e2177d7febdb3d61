------------------------------ MODULE PlistSync ------------------------------
(***************************************************************************)
(* The playlist as the clients see it: the server's list, each client's    *)
(* copy of it (or list of its own), and the commands and events between    *)
(* them (server/server.cc, client/client.cc, server/protocol.h).           *)
(*                                                                         *)
(* The server's thread runs one command to its end before the next.  Its   *)
(* events are packets in a queue per client (Socket::packets), which it    *)
(* flushes between commands as far as a client's socket takes them; an     *)
(* answer (EV_DATA) it writes to the socket at once.  A socket delivers    *)
(* what was written to it in order.                                        *)
(***************************************************************************)
EXTENDS Plist

CONSTANTS Clients,  \* the clients, which stay connected
          Path,     \* the paths of sound files
          MaxLen,   \* bound: the items clients let a list grow to
          MaxActs,  \* bound: the user's actions, of all clients
          Acts      \* the kinds of them

VARIABLES
  plist,      \* the server's playlist
  files,      \* the files on disk
  outbox,     \* by client: the packets not yet sent
  down, up,   \* by client: what is on the socket from and to the server
  cli,        \* by client: its state
  overtaken,  \* by client: its list was overtaken, see ServeGet
  acts        \* the user's actions so far

syncVars == <<plist, files, outbox, down, up, cli, overtaken, acts>>
sockets == <<outbox, down, up>>

(* A client's state: Client::playlist, synced, want_plist_update, and the  *)
(* answer it waits for in wait_for_data(): to update a list it has in sync *)
(* ("update"), to get in sync ("fetch"), or none ("no").                   *)
ClientState == [list : Seq(Path), synced : BOOLEAN, want : BOOLEAN,
                waits : {"no", "update", "fetch"}]

(* A client begins with a request for the server's list, or with a list of *)
(* its own, given on the command line.                                     *)
Fetching == [list |-> <<>>, synced |-> FALSE, want |-> FALSE, waits |-> "fetch"]
Local(p) == [Fetching EXCEPT !.list = p, !.waits = "no"]

OneItem == {<<p>> : p \in Path}

SyncInit ==
  /\ plist \in {<<>>} \cup OneItem
  /\ files = Path
  /\ cli \in [Clients -> {Fetching} \cup {Local(p) : p \in OneItem}]
  /\ up = [c \in Clients |-> IF cli[c].waits = "no" THEN <<>> ELSE <<[op |-> "get"]>>]
  /\ outbox = [c \in Clients |-> <<>>] /\ down = [c \in Clients |-> <<>>]
  /\ overtaken = [c \in Clients |-> FALSE]
  /\ acts = 0

-----------------------------------------------------------------------------
(* Edits, which commands ask for and events report                         *)

WithoutFiles(p, F) == Keeping(p, {k \in DOMAIN p : p[k] \notin F})
Renamed(p, change) == [k \in DOMAIN p |-> IF p[k] \in DOMAIN change THEN change[p[k]]
                                                                    ELSE p[k]]

Edited(p, e) == CASE e.op = "add" -> Inserted(p, e.items, e.pos)
                  [] e.op = "del" -> Removed(p, e.i, e.n)
                  [] e.op = "move" -> Moved(p, e.i, e.j)
                  [] e.op = "rm" -> WithoutFiles(p, e.files)
                  [] e.op = "mod" -> Renamed(p, e.change)

-----------------------------------------------------------------------------
(* The server                                                              *)

(* add_event_all()                                                         *)
PostedToOthers(c, e) == [d \in Clients |-> IF d = c THEN outbox[d] ELSE Append(outbox[d], e)]
Posted(c, e) == [d \in Clients |-> Append(outbox[d], e)]

Receive(c, op) == /\ up[c] # <<>> /\ Head(up[c]).op = op
                  /\ up' = [up EXCEPT ![c] = Tail(@)]

(* CMD_PLIST_GET.  The list overtakes the events of older edits that are   *)
(* still queued: the client will apply them to a list that has them.       *)
Overtakes(c) == \E k \in DOMAIN outbox[c] : outbox[c][k].op \in {"add", "del", "move", "mod"}

ServeGet(c) ==
  /\ Receive(c, "get")
  /\ down' = [down EXCEPT ![c] = Append(@, [op |-> "data", list |-> plist])]
  /\ overtaken' = [overtaken EXCEPT ![c] = Overtakes(c)]
  /\ UNCHANGED <<plist, files, outbox, cli, acts>>

(* CMD_PLIST_ADD, CMD_PLIST_DEL and CMD_PLIST_MOVE: an edit that is out of *)
(* range by now changes nothing, and is reported all the same.             *)
ServeEdit(c) ==
  /\ \E op \in {"add", "del", "move"} : Receive(c, op)
  /\ plist' = Edited(plist, Head(up[c]))
  /\ outbox' = Posted(c, Head(up[c]))
  /\ UNCHANGED <<files, down, cli, overtaken, acts>>

(* CMD_PLAY with a list.                                                   *)
ServePlay(c) ==
  /\ Receive(c, "play")
  /\ plist' = Head(up[c]).list
  /\ outbox' = Posted(c, [op |-> "new"])
  /\ UNCHANGED <<files, down, cli, overtaken, acts>>

(* CMD_FILES_RM: unlink() can fail; what is not removed stays listed.      *)
ServeFilesRm(c) ==
  /\ Receive(c, "rm")
  /\ \E F \in SUBSET (Head(up[c]).files \cap files) :
       /\ files' = files \ F
       /\ plist' = WithoutFiles(plist, F)
       /\ outbox' = IF F = {} THEN outbox ELSE Posted(c, [op |-> "rm", files |-> F])
  /\ UNCHANGED <<down, cli, overtaken, acts>>

(* CMD_FILES_MV and CMD_FILES_RENAME: rename() can fail, and nothing is    *)
(* renamed to a file that exists.                                          *)
ServeFilesMv(c) ==
  LET change == Head(up[c]).change IN
  /\ Receive(c, "mod")
  /\ \E F \in SUBSET {f \in DOMAIN change \cap files : change[f] \notin files} :
       LET done == [f \in F |-> change[f]] IN
         /\ files' = (files \ F) \cup {change[f] : f \in F}
         /\ plist' = Renamed(plist, done)
         /\ outbox' = IF F = {} THEN outbox ELSE Posted(c, [op |-> "mod", change |-> done])
  /\ UNCHANGED <<down, cli, overtaken, acts>>

Serve(c) == ServeGet(c) \/ ServeEdit(c) \/ ServePlay(c) \/ ServeFilesRm(c) \/ ServeFilesMv(c)

(* send_events(): a packet is sent when the socket has room for it.        *)
SendPacket(c) ==
  /\ outbox[c] # <<>>
  /\ down' = [down EXCEPT ![c] = Append(@, Head(outbox[c]))]
  /\ outbox' = [outbox EXCEPT ![c] = Tail(@)]
  /\ UNCHANGED <<plist, files, up, cli, overtaken, acts>>

-----------------------------------------------------------------------------
(* A client: what it reads                                                 *)

FollowsServer(s) == s.synced /\ ~s.want

(* handle_server_event(), and the answer wait_for_data() waits for.        *)
WantsAfterNew(s) == s.want \/ s.synced
WantsStill(s) == s.want
WantsAfterData(s) == s.want /\ s.waits # "update"

AfterEvent(s, e) ==
  CASE e.op = "new" -> [s EXCEPT !.want = WantsAfterNew(s)]
    [] e.op \in {"add", "del", "move"} ->
         IF FollowsServer(s) THEN [s EXCEPT !.list = Edited(@, e)] ELSE s
    [] e.op \in {"rm", "mod"} -> [s EXCEPT !.list = Edited(@, e)]
    [] e.op = "data" -> [s EXCEPT !.list = e.list, !.synced = TRUE,
                                  !.want = WantsAfterData(s), !.waits = "no"]

ReadEvent(c) ==
  /\ down[c] # <<>>
  /\ cli' = [cli EXCEPT ![c] = AfterEvent(@, Head(down[c]))]
  /\ down' = [down EXCEPT ![c] = Tail(@)]
  /\ UNCHANGED <<plist, files, outbox, up, overtaken, acts>>

(* The end of a turn of Client::run(), with no event to read: the list is  *)
(* fetched again if the server has a new one and the client follows it.    *)
MayUpdate(s) == s.want /\ s.waits = "no"

UpdateList(c) ==
  LET s == cli[c] IN
  /\ MayUpdate(s) /\ down[c] = <<>>
  /\ IF s.synced
     THEN /\ up' = [up EXCEPT ![c] = Append(@, [op |-> "get"])]
          /\ cli' = [cli EXCEPT ![c].waits = "update"]
     ELSE cli' = [cli EXCEPT ![c].want = FALSE] /\ up' = up
  /\ UNCHANGED <<plist, files, outbox, down, overtaken, acts>>

-----------------------------------------------------------------------------
(* A client: what its user does.  A client that follows the server's list  *)
(* sends its edits to the server; one with a list of its own makes them.   *)

Act(kind, c) == /\ kind \in Acts /\ cli[c].waits = "no"
                /\ acts < MaxActs /\ acts' = acts + 1
                /\ UNCHANGED <<plist, files, outbox, down, overtaken>>

Tell(c, m) == up' = [up EXCEPT ![c] = Append(@, m)]

Edit(c, e) == IF cli[c].synced
              THEN Tell(c, e) /\ UNCHANGED cli
              ELSE cli' = [cli EXCEPT ![c].list = Edited(@, e)] /\ UNCHANGED up

AddListItems(c, items, pos) ==
  /\ Act("add", c) /\ Len(cli[c].list) + Len(items) <= MaxLen
  /\ Edit(c, [op |-> "add", items |-> items, pos |-> pos])

DeleteItems(c, i, n) == /\ Act("del", c) /\ i + n <= Len(cli[c].list)
                        /\ Edit(c, [op |-> "del", i |-> i, n |-> n])

MoveListItem(c, i, j) == /\ Act("move", c) /\ i # j
                         /\ Edit(c, [op |-> "move", i |-> i, j |-> j])

(* Playing a list of one's own makes it the server's.                      *)
PlayLocal(c) ==
  /\ Act("play", c) /\ ~cli[c].synced /\ cli[c].list # <<>>
  /\ Tell(c, [op |-> "play", list |-> cli[c].list])
  /\ cli' = [cli EXCEPT ![c].synced = TRUE]

(* KEY_CMD_PLIST_CLEAR: the first time it empties the list, then it gets   *)
(* the server's.                                                           *)
ClearList(c) ==
  /\ Act("clear", c)
  /\ IF cli[c].synced \/ cli[c].list # <<>>
     THEN cli' = [cli EXCEPT ![c].list = <<>>, ![c].synced = FALSE] /\ UNCHANGED up
     ELSE cli' = [cli EXCEPT ![c].waits = "fetch"] /\ Tell(c, [op |-> "get"])

Desync(c) == /\ Act("desync", c) /\ cli[c].synced
             /\ cli' = [cli EXCEPT ![c].synced = FALSE] /\ UNCHANGED up

LoadList(c, p) == /\ Act("load", c)
                  /\ cli' = [cli EXCEPT ![c].list = p, ![c].synced = FALSE]
                  /\ UNCHANGED up

FilesRm(c, F) == /\ Act("rm", c) /\ Tell(c, [op |-> "rm", files |-> F]) /\ UNCHANGED cli

(* Nothing is moved over a file that exists.                               *)
FilesMv(c, change) == /\ Act("mod", c) /\ \A f \in DOMAIN change : change[f] \notin files
                      /\ Tell(c, [op |-> "mod", change |-> change]) /\ UNCHANGED cli

ItemLists == UNION {[1..k -> files] : k \in 1..2}
Changes == UNION {[F -> Path] : F \in {{f} : f \in Path}}

UserActs(c) ==
  \/ \E items \in ItemLists, pos \in -1..Len(cli[c].list) : AddListItems(c, items, pos)
  \/ \E i \in Indices(cli[c].list), n \in 1..2 : DeleteItems(c, i, n)
  \/ \E i, j \in Indices(cli[c].list) : MoveListItem(c, i, j)
  \/ PlayLocal(c) \/ ClearList(c) \/ Desync(c)
  \/ \E p \in ItemLists : LoadList(c, p)
  \/ \E F \in (SUBSET Path) \ {{}} : FilesRm(c, F)
  \/ \E change \in Changes : FilesMv(c, change)

-----------------------------------------------------------------------------
SyncNext == \E c \in Clients : Serve(c) \/ SendPacket(c) \/ ReadEvent(c) \/ UpdateList(c)
                              \/ UserActs(c)

SyncSpec == SyncInit /\ [][SyncNext]_syncVars

(* The server serves every client and sends what it has queued, a client   *)
(* reads what it gets and looks whether to fetch the list again.  Nobody   *)
(* need do anything to a list.                                             *)
SyncFairSpec == /\ SyncSpec
                /\ \A c \in Clients : /\ WF_syncVars(Serve(c)) /\ WF_syncVars(SendPacket(c))
                                      /\ WF_syncVars(ReadEvent(c)) /\ WF_syncVars(UpdateList(c))

-----------------------------------------------------------------------------
SyncTypeOK == /\ plist \in Seq(Path) /\ files \subseteq Path
              /\ \A c \in Clients :
                   /\ cli[c] \in ClientState
                   /\ \A k \in DOMAIN outbox[c] : outbox[c][k].op \in {"new", "add", "del", "move", "rm", "mod"}
                   /\ \A k \in DOMAIN down[c] : down[c][k].op = "data" => cli[c].waits # "no"
                   /\ \A k \in DOMAIN up[c] : up[c][k].op = "get" => /\ k = Len(up[c])
                                                                     /\ cli[c].waits # "no"

(* What a client will be once it has read everything on its way to it.     *)
AfterEvents(s, e) ==
  LET after[k \in 0..Len(e)] == IF k = 0 THEN s ELSE AfterEvent(after[k - 1], e[k])
  IN after[Len(e)]
Settled(c) == AfterEvents(cli[c], down[c] \o outbox[c])

Sends(c, op) == \E k \in DOMAIN up[c] : up[c][k].op = op

(* A client that follows the server's list, with no update due and no list *)
(* of its own on its way to the server, will have the server's list after  *)
(* the events on their way, whoever edits, renames, plays or fetches       *)
(* (server.cc:573-640, client.cc:574-582, 852-922), unless its last fetch  *)
(* overtook an edit.                                                       *)
ViewAgrees ==
  \A c \in Clients :
    LET v == Settled(c) IN
      v.synced /\ ~v.want /\ v.waits = "no" /\ ~Sends(c, "play") /\ ~overtaken[c]
        => v.list = plist

(* Once the users rest every client gets out of its waits, and one that    *)
(* follows the server's list has it, whatever was on its way to whom.      *)
Converges ==
  <>[](\A c \in Clients :
         /\ cli[c].waits = "no"
         /\ cli[c].synced /\ ~overtaken[c] => ~cli[c].want /\ cli[c].list = plist)

(* "is our playlist synced with the server's?" (client.h:19): if so, and   *)
(* with nothing on its way, the two are the same.                          *)
SyncedIsSame ==
  \A c \in Clients :
    cli[c].synced /\ ~cli[c].want /\ cli[c].waits = "no"
      /\ up[c] = <<>> /\ down[c] = <<>> /\ outbox[c] = <<>> => cli[c].list = plist
=============================================================================
