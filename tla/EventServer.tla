----------------------------- MODULE EventServer -----------------------------
(***************************************************************************)
(* The server's loop, its clients and their sockets (server/server.cc,     *)
(* Socket.cc, main.cc): connecting, commands and their answers, the events *)
(* that several threads queue for each client, the pipe that wakes the     *)
(* server up, and what happens as clients leave and the server exits.      *)
(*                                                                         *)
(* A socket is what is on its way, in units: an event's packet is two, its *)
(* type and its data, an answer too.  It has room for Cap units.           *)
(***************************************************************************)
EXTENDS Integers, Sequences, FiniteSets

CONSTANTS Conn,         \* processes that connect, once each
          CLIENTS_MAX,  \* slots for clients
          Cap,          \* bound: units that a socket holds
          Commands,     \* by process: the commands it sends, beside CMD_PING
          MaxCmds,      \* bound: commands of one process
          MaxEvents,    \* bound: events of one thread
          Mortal,       \* the processes that may be killed
          MaySignal     \* the server may be told to quit by a signal


VARIABLES
  slot,     \* clients[i].socket, as the process at its other end
  packets,  \* by slot: Socket::packets
  buf,      \* by slot: Socket::buf, while a packet is put together
  lock,     \* by slot: the thread that holds events_mtx
  queue,    \* by slot: requests in the tags cache, as who asked
  down, up, \* by process: the units on its socket from and to the server
  open,     \* by process: the server's end is open
  proc,     \* by process: where it is, what it sent, what it read
  backlog,  \* connections to accept
  pipe,     \* bytes in wake_up_pipe, in ints
  srv,      \* the server's thread
  post,     \* by thread: the event it is queueing, see Post
  sent,     \* by thread: events so far
  quit,     \* server_quit
  fault     \* a deleted Socket was used

sockets == <<down, up, open, proc, backlog>>
slots == <<slot, packets, buf, lock, queue>>
vars == <<sockets, slots, pipe, srv, post, sent, quit, fault>>

None == "none"
Slot == 0..CLIENTS_MAX - 1
Thread == {"server", "player", "tags"}

(* A process is no thread of the server, and has the client's commands.     *)
ASSUME ServerAssumption ==
  /\ CLIENTS_MAX \in Nat \ {0} /\ Cap \in Nat \ {0, 1}
  /\ Conn \cap (Thread \cup {None}) = {}
  /\ Commands \in [Conn -> SUBSET {"get", "set", "tags", "disconnect", "quit"}]
  /\ MaxCmds \in Nat /\ MaxEvents \in Nat
Least(S) == CHOOSE i \in S : \A j \in S : i <= j

(* What is sent: "event" and "tags" are followed by a "part", "data" by an *)
(* "answer".  by and n tell events apart.                                  *)
U(k, by, n) == [k |-> k, by |-> by, n |-> n]
Plain(k) == U(k, None, 0)
EventPacket(ev) == <<ev, [ev EXCEPT !.k = "part"]>>

Idle == [ev |-> Plain("part"), todo |-> {}, at |-> "idle", added |-> FALSE]

Init ==
  /\ slot = [i \in Slot |-> None] /\ packets = [i \in Slot |-> <<>>]
  /\ buf = [i \in Slot |-> <<>>] /\ lock = [i \in Slot |-> None]
  /\ queue = [i \in Slot |-> <<>>]
  /\ down = [c \in Conn |-> <<>>] /\ up = [c \in Conn |-> <<>>]
  /\ open = [c \in Conn |-> FALSE]
  /\ proc = [c \in Conn |-> [at |-> "out", cmds |-> 0, cmd |-> "none", garbled |-> FALSE,
                             last |-> [t \in Thread |-> 0]]]
  /\ backlog = <<>> /\ pipe = 0
  /\ srv = [pc |-> "serve", fds |-> {}, write |-> {}, read |-> {}, i |-> 0, left |-> <<>>]
  /\ post = [t \in Thread |-> Idle] /\ sent = [t \in Thread |-> 0]
  /\ quit = FALSE /\ fault = FALSE

-----------------------------------------------------------------------------
(* Queueing events: add_event_all(), tags_response()                       *)

StartPost(t, k, who, todo) ==
  /\ post' = [post EXCEPT ![t] = [ev |-> U(k, who, sent[t] + 1), todo |-> todo,
                                  at |-> "check", added |-> FALSE]]
  /\ sent' = [sent EXCEPT ![t] = @ + 1]

Next1(p) == Least(p.todo)
Done1(p, added) == [p EXCEPT !.todo = @ \ {Next1(p)}, !.at = "check", !.added = @ \/ added]

(* if (!clients[i].socket) continue; -- without the lock.                  *)
PostCheck(t) ==
  /\ post[t].at = "check" /\ post[t].todo # {}
  /\ post' = [post EXCEPT ![t] = IF slot[Next1(@)] = None THEN Done1(@, FALSE)
                                 ELSE [@ EXCEPT !.at = "fill"]]
  /\ UNCHANGED <<sockets, slots, pipe, srv, sent, quit, fault>>

(* add_event() takes the lock and begins the packet in the socket's buffer. *)
PostFill(t) ==
  LET i == Next1(post[t]) IN
  /\ post[t].at = "fill" /\ lock[i] = None
  /\ IF slot[i] = None
     THEN fault' = TRUE /\ UNCHANGED <<post, buf, lock>>
     ELSE /\ lock' = [lock EXCEPT ![i] = t]
          /\ buf' = [buf EXCEPT ![i] = <<post[t].ev>>]
          /\ post' = [post EXCEPT ![t].at = "finish"]
          /\ fault' = fault
  /\ UNCHANGED <<sockets, slot, packets, queue, pipe, srv, sent, quit>>

Queued(i, p) == Append(packets[i], p)

PostFinish(t) ==
  LET i == Next1(post[t])
      p == buf[i] \o Tail(EventPacket(post[t].ev)) IN
  /\ post[t].at = "finish"
  /\ packets' = [packets EXCEPT ![i] = Queued(i, p)]
  /\ buf' = [buf EXCEPT ![i] = <<>>]
  /\ lock' = [lock EXCEPT ![i] = None]
  /\ post' = [post EXCEPT ![t] = Done1(@, TRUE)]
  /\ UNCHANGED <<sockets, slot, queue, pipe, srv, sent, quit, fault>>

WakesServer(p) == p.added

PostWake(t) ==
  /\ post[t].at = "check" /\ post[t].todo = {}
  /\ pipe' = IF WakesServer(post[t]) THEN pipe + 1 ELSE pipe
  /\ post' = [post EXCEPT ![t] = Idle]
  /\ UNCHANGED <<sockets, slots, srv, sent, quit, fault>>

Posting(t) == PostCheck(t) \/ PostFill(t) \/ PostFinish(t) \/ PostWake(t)

(* The playing thread: state_change(), ctime_change(), set_info_...().     *)
PlayerEvent ==
  /\ post["player"] = Idle /\ sent["player"] < MaxEvents
  /\ StartPost("player", "event", "player", Slot)
  /\ UNCHANGED <<sockets, slots, pipe, srv, quit, fault>>

(* The tags thread takes a request; its answer goes to the slot.           *)
TagsAnswer(i) ==
  /\ post["tags"] = Idle /\ queue[i] # <<>>
  /\ StartPost("tags", "tags", Head(queue[i]), {i})
  /\ queue' = [queue EXCEPT ![i] = Tail(@)]
  /\ UNCHANGED <<sockets, slot, packets, buf, lock, pipe, srv, quit, fault>>

-----------------------------------------------------------------------------
(* server_loop()                                                           *)

ServerAt(pc) == srv.pc = pc /\ post["server"] = Idle
Connected == {i \in Slot : slot[i] # None}
Hangup(c) == proc[c].at = "gone"

(* The turn is over: server_quit is looked at, and add_clients_fds() tells  *)
(* the clients to write to.                                                 *)
Serving == ServerAt("serve") /\ srv.write = {}

Turn ==
  /\ Serving /\ srv.read = {} /\ \A i \in Connected : lock[i] = None
  /\ srv' = IF quit THEN [srv EXCEPT !.pc = "exit"]
            ELSE [srv EXCEPT !.pc = "select", !.fds = {i \in Connected : packets[i] # <<>>}]
  /\ UNCHANGED <<sockets, slots, pipe, post, sent, quit, fault>>

Readable(i) == up[slot[i]] # <<>> \/ Hangup(slot[i])
Writable(i) == Len(down[slot[i]]) < Cap \/ Hangup(slot[i])

(* A signal sets server_quit and interrupts select(); it is not seen if it  *)
(* comes after the turn's last look at server_quit and before select().     *)
(* Within a turn it has no effect before its end.                           *)
SignalQuit ==
  /\ MaySignal /\ ~quit /\ quit' = TRUE
  /\ srv.pc \in {"select", "serve"} /\ srv.write = {} /\ srv.read = {}
  /\ \/ srv.pc = "select" /\ srv' = [srv EXCEPT !.pc = "exit"]
     \/ srv' = srv
  /\ UNCHANGED <<sockets, slots, pipe, post, sent, fault>>

(* accept() and add_client(): a new client gets the first free slot, or is *)
(* told that the server is busy.                                           *)
Kept(q, i) == q
Cleared(q, i) == [q EXCEPT ![i] = <<>>]

Accept ==
  LET c == Head(backlog)
      free == Slot \ Connected IN
  IF backlog = <<>>
  THEN UNCHANGED <<slot, packets, queue, down, open, backlog>>
  ELSE /\ backlog' = Tail(backlog)
       /\ IF free # {}
          THEN /\ slot' = [slot EXCEPT ![Least(free)] = c]
               /\ packets' = [packets EXCEPT ![Least(free)] = <<>>]
               /\ queue' = Cleared(queue, Least(free))
               /\ open' = [open EXCEPT ![c] = TRUE]
               /\ down' = down
          ELSE /\ down' = [down EXCEPT ![c] = Append(@, Plain("busy"))]
               /\ UNCHANGED <<slot, packets, queue, open>>

(* select() returns as something is ready; one int is read from the pipe.   *)
Select ==
  LET write == {i \in srv.fds : Writable(i)}
      read == {i \in Connected : Readable(i)} IN
  /\ ServerAt("select")
  /\ backlog # <<>> \/ pipe > 0 \/ write # {} \/ read # {}
  /\ IF quit
     THEN /\ srv' = [srv EXCEPT !.pc = "exit"]
          /\ UNCHANGED <<slot, packets, queue, down, open, backlog, pipe>>
     ELSE /\ srv' = [srv EXCEPT !.pc = "serve", !.write = write, !.read = read, !.fds = {}, !.i = 0]
          /\ Accept
          /\ pipe' = IF pipe > 0 THEN pipe - 1 ELSE pipe
  /\ UNCHANGED <<buf, lock, up, proc, post, sent, quit, fault>>

(* send_events(): under the lock, the packets, each by one send() that does *)
(* not block.  If it sends less than a packet the client is dropped.       *)
SendEvents ==
  LET i == Least(srv.write) IN
  /\ ServerAt("serve") /\ srv.write # {} /\ lock[i] = None
  /\ srv' = [srv EXCEPT !.pc = "send", !.write = @ \ {i}, !.i = i]
  /\ lock' = [lock EXCEPT ![i] = "server"]
  /\ UNCHANGED <<sockets, slot, packets, buf, queue, pipe, post, sent, quit, fault>>

Sends(c, p) == ~Hangup(c) /\ Len(down[c]) + Len(p) <= Cap

LastKept(ps) == ps
Unsent(ps) == Tail(ps)

SendPacket ==
  LET i == srv.i
      c == slot[i] IN
  /\ ServerAt("send") /\ packets[i] # <<>> /\ Sends(c, Head(packets[i]))
  /\ down' = [down EXCEPT ![c] = @ \o Head(packets[i])]
  /\ packets' = [packets EXCEPT ![i] = Unsent(@)]
  /\ UNCHANGED <<up, open, proc, backlog, slot, buf, lock, queue, pipe, srv, post, sent, quit, fault>>

StillLocked(i) == lock
Unlocked(i) == IF lock[i] = "server" THEN [lock EXCEPT ![i] = None] ELSE lock

DropIf(failed) == IF failed THEN "drop" ELSE "serve"

(* All is sent, the client is gone, or there is not the room.              *)
StopSending ==
  LET i == srv.i
      c == slot[i]
      ps == packets[i] IN
  /\ ServerAt("send") /\ (ps # <<>> => ~Sends(c, Head(ps)))
  /\ IF ps = <<>> \/ Hangup(c) THEN UNCHANGED down
     ELSE down' = [down EXCEPT ![c] = SubSeq(@ \o Head(ps), 1, Cap)]
  /\ srv' = [srv EXCEPT !.pc = DropIf(ps # <<>> /\ (Hangup(c) \/ Len(down[c]) < Cap))]
  /\ lock' = Unlocked(i)
  /\ UNCHANGED <<up, open, proc, backlog, slot, packets, buf, queue, pipe, post, sent, quit, fault>>

(* del_client(); then the loop it was called from goes on.                 *)
Drop(i) ==
  /\ lock[i] = None
  /\ slot' = [slot EXCEPT ![i] = None] /\ packets' = [packets EXCEPT ![i] = <<>>]
  /\ open' = [open EXCEPT ![slot[i]] = FALSE]
  /\ queue' = Cleared(queue, i)
  /\ UNCHANGED <<buf, lock, down, up, proc, backlog>>

Forget(i) == [srv EXCEPT !.read = @ \ {i}]

DropClient ==
  /\ ServerAt("drop") /\ Drop(srv.i)
  /\ srv' = [Forget(srv.i) EXCEPT !.pc = "serve"]
  /\ UNCHANGED <<pipe, post, sent, quit, fault>>

-----------------------------------------------------------------------------
(* handle_command(), for each client whose socket had something to read    *)

Handling(i, pc) == srv' = [Forget(i) EXCEPT !.i = i, !.pc = pc]

(* An answer is sent under the lock, but for EV_PONG.                      *)
Reply(i, units) == srv' = [Forget(i) EXCEPT !.i = i, !.pc = "reply", !.left = units]
Answer == <<Plain("data"), Plain("answer")>>

NeverLocks(cmd) == FALSE
TakesLock(cmd) == cmd = "get"

HandleCommand ==
  LET i == Least(srv.read)
      c == slot[i]
      cmd == Head(up[c]) IN
  /\ Serving /\ srv.read # {}
  /\ IF up[c] = <<>>
     THEN Handling(i, "drop") /\ UNCHANGED <<up, lock, queue, post, sent, quit>>
     ELSE
       /\ TakesLock(cmd) => lock[i] = None
       /\ up' = [up EXCEPT ![c] = Tail(@)]
       /\ lock' = IF TakesLock(cmd) THEN [lock EXCEPT ![i] = "server"] ELSE lock
       /\ CASE cmd = "ping" -> Reply(i, <<Plain("pong")>>) /\ UNCHANGED <<queue, post, sent, quit>>
            [] cmd = "get" -> Reply(i, Answer) /\ UNCHANGED <<queue, post, sent, quit>>
            [] cmd = "set" -> /\ Handling(i, "serve")
                              /\ StartPost("server", "event", "server", Slot)
                              /\ UNCHANGED <<queue, quit>>
            [] cmd = "tags" -> /\ Handling(i, "serve")
                               /\ queue' = [queue EXCEPT ![i] = Append(@, c)]
                               /\ UNCHANGED <<post, sent, quit>>
            [] cmd = "disconnect" -> Handling(i, "drop") /\ UNCHANGED <<queue, post, sent, quit>>
            [] cmd = "quit" -> /\ Handling(i, "drop") /\ quit' = TRUE
                               /\ UNCHANGED <<queue, post, sent>>
  /\ UNCHANGED <<down, open, proc, backlog, slot, packets, buf, pipe, fault>>

(* Socket::send(): into the buffer if a packet is being put together, else *)
(* to the socket, waiting for room.                                        *)
SendUnit(i, u) ==
  IF buf[i] # <<>>
  THEN buf' = [buf EXCEPT ![i] = Append(@, u)] /\ UNCHANGED down
  ELSE /\ Len(down[slot[i]]) < Cap
       /\ down' = [down EXCEPT ![slot[i]] = Append(@, u)] /\ UNCHANGED buf

SendReply ==
  LET i == srv.i IN
  /\ ServerAt("reply") /\ srv.left # <<>> /\ ~Hangup(slot[i])
  /\ SendUnit(i, Head(srv.left))
  /\ srv' = [srv EXCEPT !.left = Tail(@)]
  /\ UNCHANGED <<up, open, proc, backlog, slot, packets, lock, queue, pipe, post, sent, quit, fault>>

ReplySent ==
  /\ ServerAt("reply") /\ srv.left = <<>>
  /\ srv' = [srv EXCEPT !.pc = "serve"]
  /\ lock' = Unlocked(srv.i)
  /\ UNCHANGED <<sockets, slot, packets, buf, queue, pipe, post, sent, quit, fault>>

ReplyFails ==
  /\ ServerAt("reply") /\ srv.left # <<>> /\ Hangup(slot[srv.i])
  /\ srv' = [srv EXCEPT !.left = <<>>, !.pc = "drop"]
  /\ lock' = Unlocked(srv.i)
  /\ UNCHANGED <<sockets, slot, packets, buf, queue, pipe, post, sent, quit, fault>>

-----------------------------------------------------------------------------
(* close_clients(): EV_EXIT is sent without the lock, and waits for room.   *)
(* Then clients_cleanup() and server_shutdown(), which joins the threads.   *)

SendExit ==
  LET i == Least(Connected) IN
  /\ ServerAt("exit") /\ Connected # {}
  /\ IF Hangup(slot[i]) THEN UNCHANGED <<down, buf>> ELSE SendUnit(i, Plain("exit"))
  /\ srv' = [srv EXCEPT !.pc = "bye", !.i = i]
  /\ UNCHANGED <<up, open, proc, backlog, slot, packets, lock, queue, pipe, post, sent, quit, fault>>

DropExiting ==
  /\ ServerAt("bye") /\ Drop(srv.i)
  /\ srv' = [srv EXCEPT !.pc = "exit"]
  /\ UNCHANGED <<pipe, post, sent, quit, fault>>

ShutDown ==
  /\ ServerAt("exit") /\ Connected = {}
  /\ \A t \in Thread : post[t] = Idle
  /\ srv' = [srv EXCEPT !.pc = "done"]
  /\ backlog' = <<>>
  /\ UNCHANGED <<down, up, open, proc, slots, pipe, post, sent, quit, fault>>

-----------------------------------------------------------------------------
(* A process: server_connect(), ping_server(), then commands, whose answers *)
(* it awaits as it handles the events that come first (wait_for_data()).    *)

Goes(c, at) == proc' = [proc EXCEPT ![c].at = at]
Gone(c) == /\ proc' = [proc EXCEPT ![c].at = "gone", ![c].last = [t \in Thread |-> 0]]
           /\ down' = [down EXCEPT ![c] = <<>>]
Others == <<slots, pipe, srv, post, sent, quit, fault>>

Connect(c) ==
  /\ proc[c].at = "out" /\ srv.pc # "done"
  /\ Goes(c, "pinging")
  /\ backlog' = Append(backlog, c)
  /\ up' = [up EXCEPT ![c] = <<"ping">>]
  /\ UNCHANGED <<down, open, Others>>

ReadPong(c) ==
  /\ proc[c].at = "pinging" /\ down[c] # <<>>
  /\ IF Head(down[c]).k = "pong"
     THEN Goes(c, "open") /\ down' = [down EXCEPT ![c] = Tail(@)]
     ELSE Gone(c)
  /\ UNCHANGED <<up, open, backlog, Others>>

(* Sending waits for room, and nothing is read meanwhile.                   *)
Wants(c, cmd) ==
  /\ proc[c].at = "open" /\ proc[c].cmds < MaxCmds
  /\ proc' = [proc EXCEPT ![c].at = "sending", ![c].cmds = @ + 1, ![c].cmd = cmd]
  /\ UNCHANGED <<down, up, open, backlog, Others>>

SendCommand(c) ==
  /\ proc[c].at = "sending" /\ Len(up[c]) < Cap /\ open[c]
  /\ up' = [up EXCEPT ![c] = Append(@, proc[c].cmd)]
  /\ proc' = [proc EXCEPT ![c].at = CASE proc[c].cmd = "get" -> "waiting"
                                      [] proc[c].cmd \in {"disconnect", "quit"} -> "leaving"
                                      [] OTHER -> "open",
                          ![c].cmd = "none"]
  /\ UNCHANGED <<down, open, backlog, Others>>

(* Two units of a message: its type and the rest.                           *)
Complete(u, v) == \/ u.k \in {"event", "tags"} /\ v = [u EXCEPT !.k = "part"]
                  \/ u.k = "data" /\ v.k = "answer"

(* The message that begins what there is to read.                           *)
ReadMessage(c) ==
  LET s == down[c]
      whole == Complete(s[1], s[2]) IN
  /\ proc[c].at \in {"open", "waiting"} /\ Len(s) > 1
  /\ proc' = [proc EXCEPT ![c].garbled = ~whole,
                          ![c].last = IF s[1].by \in Thread THEN [@ EXCEPT ![s[1].by] = s[1].n] ELSE @,
                          ![c].at = IF whole /\ s[1].k = "data" THEN "open" ELSE @]
  /\ down' = [down EXCEPT ![c] = SubSeq(@, 3, Len(@))]
  /\ UNCHANGED <<up, open, backlog, Others>>

(* EV_EXIT, or the end of the stream, maybe within a message.               *)
Ends(c) ==
  /\ proc[c].at \in {"pinging", "open", "waiting", "sending", "leaving"}
  /\ \/ proc[c].at \in {"open", "waiting"} /\ down[c] # <<>> /\ down[c][1].k = "exit"
     \/ proc[c].at = "leaving"
     \/ /\ ~open[c] /\ ~\E k \in DOMAIN backlog : backlog[k] = c
        /\ proc[c].at = "sending" \/ Len(down[c]) < (IF proc[c].at = "pinging" THEN 1 ELSE 2)
  /\ Gone(c)
  /\ UNCHANGED <<up, open, backlog, Others>>

Die(c) ==
  /\ c \in Mortal /\ proc[c].at \notin {"out", "gone"}
  /\ Gone(c)
  /\ UNCHANGED <<up, open, backlog, Others>>

-----------------------------------------------------------------------------
ServerStep == \/ Turn \/ Select \/ SendEvents \/ SendPacket \/ StopSending
              \/ DropClient \/ HandleCommand
              \/ SendReply \/ ReplySent \/ ReplyFails
              \/ SendExit \/ DropExiting \/ ShutDown
              \/ Posting("server")

Process(c) == ReadPong(c) \/ SendCommand(c) \/ ReadMessage(c) \/ Ends(c)

Next ==
  /\ ~fault
  /\ \/ ServerStep
     \/ \E t \in Thread \ {"server"} : Posting(t)
     \/ PlayerEvent
     \/ \E i \in Slot : TagsAnswer(i)
     \/ SignalQuit
     \/ \E c \in Conn : \/ Connect(c) \/ Process(c) \/ Die(c)
                        \/ \E cmd \in Commands[c] : Wants(c, cmd)

Spec == Init /\ [][Next]_vars

(* Threads run; a process reads what it is sent unless it waits for room.   *)
FairSpec == /\ Spec /\ WF_vars(ServerStep /\ ~fault)
            /\ \A t \in Thread \ {"server"} : WF_vars(Posting(t) /\ ~fault)
            /\ \A i \in Slot : WF_vars(TagsAnswer(i) /\ ~fault)
            /\ \A c \in Conn : WF_vars(Process(c) /\ ~fault)

-----------------------------------------------------------------------------
Unit == [k : {"event", "part"}, by : Thread, n : Nat]
        \cup [k : {"tags", "part"}, by : Conn, n : Nat]
        \cup [k : {"part", "data", "answer", "pong", "busy", "exit"}, by : {None}, n : {0}]

Cmd == {"ping", "get", "set", "tags", "disconnect", "quit"}

Processes == [at : {"out", "pinging", "open", "sending", "waiting", "leaving", "gone"},
              cmds : Nat, cmd : Cmd \cup {"none"}, garbled : BOOLEAN, last : [Thread -> Nat]]
Servers == [pc : {"serve", "select", "send", "drop", "reply", "exit", "bye", "done"},
            fds : SUBSET Slot, write : SUBSET Slot, read : SUBSET Slot, i : Slot, left : Seq(Unit)]
Posts == [ev : Unit, todo : SUBSET Slot, at : {"idle", "check", "fill", "finish"},
          added : BOOLEAN]

TypeOK ==
  /\ slot \in [Slot -> Conn \cup {None}]
  /\ packets \in [Slot -> Seq(Seq(Unit))] /\ buf \in [Slot -> Seq(Unit)]
  /\ lock \in [Slot -> Thread \cup {None}] /\ queue \in [Slot -> Seq(Conn)]
  /\ down \in [Conn -> Seq(Unit)] /\ up \in [Conn -> Seq(Cmd)] /\ open \in [Conn -> BOOLEAN]
  /\ \A c \in Conn : Len(down[c]) <= Cap /\ Len(up[c]) <= Cap
  /\ proc \in [Conn -> Processes] /\ backlog \in Seq(Conn)
  /\ pipe \in Nat /\ quit \in BOOLEAN /\ fault \in BOOLEAN
  /\ srv \in Servers /\ post \in [Thread -> Posts] /\ sent \in [Thread -> Nat]

(* Each thread's events reach a client in the order they were made, none    *)
(* left out up to the newest one queued, and none twice: those it has read, *)
(* those on its socket and those that wait in packets (server.cc:359-424).  *)
EventOf(u, t) == u.k = "event" /\ u.by = t
Heads(ps) == [k \in DOMAIN ps |-> ps[k][1]]
Stream(i) == down[slot[i]] \o Heads(packets[i])
Newest(i, t) == IF i \in post[t].todo THEN sent[t] - 1 ELSE sent[t]

InOrder(s, t, last, newest) ==
  LET Events == {k \in DOMAIN s : EventOf(s[k], t)} IN
  /\ last <= newest /\ \A k \in Events : last < s[k].n /\ s[k].n <= newest
  /\ \A j, k \in Events : j < k => s[j].n < s[k].n
  /\ \A n \in last + 1..newest : last # 0 \/ (\E k \in Events : s[k].n <= n)
                                => \E k \in Events : s[k].n = n

Dropping(i) == srv.pc = "drop" /\ srv.i = i

EventsInOrder ==
  \A i \in Connected : \A t \in {"server", "player"} :
    ~Dropping(i) => InOrder(Stream(i), t, proc[slot[i]].last[t], Newest(i, t))

(* A client that got its pong reads whole messages: no packet is torn with  *)
(* more after it, and no answer is sent into the middle of an event.        *)
WholeMessages == \A c \in Conn : ~proc[c].garbled

(* The tags requested by a client are not answered to the next one in its   *)
(* slot, as long as they wait in the queue (server.cc:149, 177).            *)
QueueIsOwn == \A i \in Slot : \A k \in DOMAIN queue[i] : queue[i][k] = slot[i]

(* A process that waits for the pong or for an answer gets it, or is told   *)
(* that there is none, unless the server is to quit (or dereferences NULL). *)
Answered ==
  \A c \in Conn : proc[c].at \in {"pinging", "waiting"}
                    ~> proc[c].at \notin {"pinging", "waiting"} \/ quit \/ fault

=============================================================================
