--------------------------- MODULE EventServerProofs ---------------------------
(***************************************************************************)
(* What is proved of the server's loop and its clients, for any number of  *)
(* processes and slots, sockets of any room and any commands: its types,   *)
(* that a client's requests are answered to nobody else, that no message   *)
(* is torn or mixed with another, and that no event is lost or reordered.  *)
(***************************************************************************)
EXTENDS EventServer, SequenceLemmas

-----------------------------------------------------------------------------
(* The invariant                                                           *)

Past(c) == proc[c].at \in {"open", "sending", "waiting", "leaving"}
PongAhead(c) == proc[c].at = "pinging" /\ down[c] # <<>> /\ down[c][1].k = "pong"
Replying(i) == srv.pc = "reply" /\ srv.i = i
Leaving(i) == srv.pc \in {"drop", "bye"} /\ srv.i = i
Filling(t, i) == post[t].at = "finish" /\ i = Next1(post[t])
Pong == <<Plain("pong")>>
Rest == <<Plain("answer")>>

\* A thread that queues an event knows whose and which it is.
PostInv ==
  \A t \in Thread :
    /\ post[t].at = "idle" => post[t] = Idle
    /\ post[t].at # "idle" =>
         /\ sent[t] > 0
         /\ t = "tags" => post[t].ev.k = "tags" /\ post[t].ev.by \in Conn
         /\ t # "tags" => post[t].ev = U("event", t, sent[t])
    /\ post[t].at \in {"fill", "finish"} => post[t].todo # {}

\* A packet is put together under the lock of its slot, whose socket is
\* there; only what does not take the lock gets into it.
BufInv ==
  \A i \in Slot :
    /\ buf[i] # <<>> => \E t \in Thread : Filling(t, i)
    /\ \A t \in Thread : Filling(t, i) => /\ lock[i] = t /\ slot[i] # None
                                          /\ buf[i] # <<>> /\ buf[i][1] = post[t].ev
    /\ \A k \in 2..Len(buf[i]) : buf[i][k].k \in {"pong", "exit"}

\* The server's thread works on sockets that are there.
ServerInv ==
  /\ srv.read \subseteq Connected /\ srv.write \subseteq Connected
  /\ srv.pc = "select" => srv.fds \subseteq Connected
  /\ srv.pc \in {"select", "exit", "bye", "done"} => srv.read = {} /\ srv.write = {}
  /\ srv.pc \in {"send", "drop", "reply", "bye"} => srv.i \in Connected \ srv.write
  /\ srv.pc = "send" => lock[srv.i] = "server"
  /\ srv.left # <<>> => srv.pc = "reply"
  /\ post["server"].at # "idle" => srv.pc = "serve"

\* A process is at one place only, and has nothing to read before it has one.
PlaceInv ==
  /\ \A i, j \in Connected : slot[i] = slot[j] => i = j
  /\ \A j, k \in DOMAIN backlog : backlog[j] = backlog[k] => j = k
  /\ \A k \in DOMAIN backlog : \A i \in Slot : slot[i] # backlog[k]
  /\ \A k \in DOMAIN backlog : /\ proc[backlog[k]].at \in {"pinging", "gone"}
                               /\ down[backlog[k]] = <<>>
                               /\ proc[backlog[k]].at = "pinging" => up[backlog[k]] = <<"ping">>
  /\ \A c \in Conn : proc[c].at = "out" => /\ \A i \in Slot : slot[i] # c
                                           /\ down[c] = <<>> /\ up[c] = <<>>
  /\ \A c \in Conn : ~Past(c) => proc[c].last = [t \in Thread |-> 0]

\* A process pings once, before anything else.
Pinged(c) ==
  /\ Past(c) => \A k \in DOMAIN up[c] : up[c][k] # "ping"
  /\ proc[c].at = "pinging" => up[c] \in {<<>>, <<"ping">>}
  /\ PongAhead(c) => up[c] = <<>>
  /\ proc[c].at = "sending" => proc[c].cmd \in Cmd \ {"ping"}
Answering(i) ==
  Replying(i) =>
    /\ srv.left \in {<<>>, Pong, Answer, Rest}
    /\ srv.left = Pong => ~Past(slot[i]) /\ ~PongAhead(slot[i])
    /\ srv.left = Pong /\ proc[slot[i]].at = "pinging" => up[slot[i]] = <<>>
    /\ proc[slot[i]].at = "pinging" => srv.left \in {<<>>, Pong}
    /\ srv.left \in {Answer, Rest} => lock[i] = "server"
PingInv == (\A c \in Conn : Pinged(c)) /\ (\A i \in Connected : Answering(i))

\* What follows what, on a socket that carries whole messages: one unit in
\* the middle of a message goes on with it, and no other does.
Opens(u) == u.k \in {"event", "tags", "data"}
Closes(u) == u.k \in {"part", "answer"}
Follows(u, v) == IF Opens(u) THEN Complete(u, v) ELSE Closes(u) /\ ~Closes(v)
Aligned(s) == /\ s # <<>> => ~Closes(s[1])
              /\ \A k \in 1..Len(s) - 1 : Follows(s[k], s[k + 1])
AtEnd(s) == s # <<>> => Closes(s[Len(s)])

\* Who got its pong, or may still get it: as long as the ping is not
\* answered, or is being answered, or the pong is the first thing to read.
Fine(c) ==
  \/ Past(c) \/ PongAhead(c)
  \/ /\ proc[c].at = "pinging"
     /\ up[c] = <<"ping">> \/ \E i \in Slot : slot[i] = c /\ Replying(i) /\ srv.left = Pong

Body(c) == IF PongAhead(c) THEN Tail(down[c]) ELSE down[c]
WholePacket(p) == Len(p) = 2 /\ p[1].k # "data" /\ Complete(p[1], p[2])
Midway(i) == Replying(i) /\ srv.left = Rest

\* What is on the socket of such a client, and what will be sent to it.
Whole(c) == Fine(c) => Aligned(Body(c))
Between(i) == LET s == Body(slot[i]) IN
              IF Midway(i) THEN s # <<>> /\ s[Len(s)].k = "data" ELSE AtEnd(s)
Joined(i) == Fine(slot[i]) /\ ~Leaving(i) =>
               /\ \A k \in DOMAIN packets[i] : WholePacket(packets[i][k])
               /\ Len(buf[i]) <= 1
               /\ Between(i)
WholeInv ==
  /\ WholeMessages
  /\ \A c \in Conn : Whole(c)
  /\ \A i \in Connected : Joined(i)

\* A packet has one event, which begins it.
Packet(p) == /\ Len(p) > 1 /\ p[1].k \in {"event", "tags"}
             /\ \A k \in 2..Len(p) : p[k].k \in {"part", "pong", "exit"}
PacketInv == \A i \in Slot : \A k \in DOMAIN packets[i] : Packet(packets[i][k])

IInv == /\ TypeOK /\ PostInv /\ BufInv /\ ServerInv /\ PlaceInv /\ PingInv
        /\ WholeInv /\ PacketInv /\ QueueIsOwn /\ EventsInOrder

-----------------------------------------------------------------------------
(* Slots, units and steps                                                  *)

LEMMA LeastIn ==
  ASSUME NEW S, S \subseteq Slot, S # {}
  PROVE  Least(S) \in S
<1>1. S \subseteq Nat
  BY ServerAssumption DEF Slot
<1>2. PICK i \in S : \A j \in S : i <= j
  BY <1>1, LeastOfNat
<1> QED BY <1>2 DEF Least

LEMMA PlainUnits ==
  ASSUME NEW k \in {"part", "data", "answer", "pong", "busy", "exit"}
  PROVE  Plain(k) \in Unit /\ Plain(k).k = k /\ Plain(k).by = None
BY DEF Plain, U, Unit

LEMMA Replies ==
  /\ Pong \in Seq(Unit) /\ Len(Pong) = 1 /\ Head(Pong) = Plain("pong") /\ Tail(Pong) = <<>>
  /\ Rest \in Seq(Unit) /\ Len(Rest) = 1 /\ Head(Rest) = Plain("answer") /\ Tail(Rest) = <<>>
  /\ Answer \in Seq(Unit) /\ Len(Answer) = 2 /\ Head(Answer) = Plain("data")
  /\ Tail(Answer) = Rest
  /\ Pong # <<>> /\ Rest # <<>> /\ Answer # <<>>
  /\ Pong # Rest /\ Pong # Answer /\ Rest # Answer
<1>1. Plain("pong") \in Unit /\ Plain("data") \in Unit /\ Plain("answer") \in Unit
  BY PlainUnits
<1>2. Plain("pong") # Plain("answer")
  BY DEF Plain, U
<1>3. Len(Pong) = 1 /\ Len(Rest) = 1 /\ Len(Answer) = 2
  BY DEF Pong, Rest, Answer
<1>4. Pong[1] = Plain("pong") /\ Rest[1] = Plain("answer")
  BY DEF Pong, Rest
<1> QED BY <1>1, <1>2, <1>3, <1>4 DEF Pong, Rest, Answer

(* One step is one of these.                                               *)
ThreadStep(t) == PostCheck(t) \/ PostFill(t) \/ PostFinish(t) \/ PostWake(t)
SendStep == SendEvents \/ SendPacket \/ StopSending
ReplyStep == HandleCommand \/ SendReply \/ ReplySent \/ ReplyFails
ExitStep == SendExit \/ DropExiting \/ ShutDown
Step(c) == \/ Connect(c) \/ ReadPong(c) \/ SendCommand(c) \/ ReadMessage(c) \/ Ends(c) \/ Die(c)
           \/ \E cmd \in Commands[c] : Wants(c, cmd)

LEMMA Steps ==
  ASSUME [Next]_vars
  PROVE  \/ \E t \in Thread : ThreadStep(t)
         \/ PlayerEvent \/ \E i \in Slot : TagsAnswer(i)
         \/ Turn \/ SignalQuit \/ Select \/ DropClient
         \/ SendStep \/ ReplyStep \/ ExitStep
         \/ \E c \in Conn : Step(c)
         \/ UNCHANGED vars
BY DEF Next, ServerStep, Posting, Process, ThreadStep, SendStep, ReplyStep, ExitStep, Step, Thread

-----------------------------------------------------------------------------
(* Types                                                                   *)

LEMMA TypeInit ==
  ASSUME Init
  PROVE  TypeOK
<1>1. 0 \in Slot /\ None \in Conn \cup {None}
  BY ServerAssumption DEF Slot
<1>2. Idle \in Posts
  BY PlainUnits DEF Idle, Posts
<1>3. srv \in Servers
  BY <1>1 DEF Init, Servers
<1>4. [at |-> "out", cmds |-> 0, cmd |-> "none", garbled |-> FALSE,
       last |-> [t \in Thread |-> 0]] \in Processes
  BY DEF Processes
<1>5. proc \in [Conn -> Processes]
  BY <1>4 DEF Init
<1>6. \A c \in Conn : Len(down[c]) <= Cap /\ Len(up[c]) <= Cap
  BY ServerAssumption DEF Init
<1>7. /\ slot \in [Slot -> Conn \cup {None}] /\ lock \in [Slot -> Thread \cup {None}]
      /\ packets \in [Slot -> Seq(Seq(Unit))] /\ buf \in [Slot -> Seq(Unit)]
      /\ queue \in [Slot -> Seq(Conn)]
  BY DEF Init
<1>8. /\ down \in [Conn -> Seq(Unit)] /\ up \in [Conn -> Seq(Cmd)]
      /\ open \in [Conn -> BOOLEAN] /\ backlog \in Seq(Conn)
  BY DEF Init
<1>9. post \in [Thread -> Posts] /\ sent \in [Thread -> Nat]
  BY <1>2 DEF Init
<1>10. pipe \in Nat /\ quit \in BOOLEAN /\ fault \in BOOLEAN
  BY DEF Init
<1> QED BY <1>3, <1>5, <1>6, <1>7, <1>8, <1>9, <1>10 DEF TypeOK

LEMMA ThreadTypes ==
  ASSUME IInv, NEW t \in Thread, ThreadStep(t)
  PROVE  TypeOK'
<1> DEFINE i == Next1(post[t])
<1>t. TypeOK
  BY DEF IInv
<1>p. /\ post[t] \in Posts /\ post[t].ev \in Unit /\ post[t].todo \subseteq Slot
      /\ post[t].added \in BOOLEAN
  BY <1>t DEF TypeOK, Posts
<1>i. post[t].todo # {} => i \in Slot /\ i \in post[t].todo
  BY <1>p, LeastIn DEF Next1
<1>d. ASSUME NEW b \in BOOLEAN PROVE Done1(post[t], b) \in Posts
  <2> HIDE DEF i
  <2>1. Done1(post[t], b) = [post[t] EXCEPT !.todo = @ \ {i}, !.at = "check", !.added = @ \/ b]
    BY DEF Done1, i
  <2>2. (post[t].added \/ b) \in BOOLEAN /\ (post[t].todo \ {i}) \in SUBSET Slot
    BY <1>p
  <2> QED BY <1>p, <2>1, <2>2 DEF Posts
<1>1. CASE PostCheck(t)
  <2>1. [post[t] EXCEPT !.at = "fill"] \in Posts
    BY <1>p DEF Posts
  <2>2. post' \in [Thread -> Posts]
    BY <1>1, <1>t, <1>d, <2>1 DEF PostCheck, TypeOK
  <2> QED BY <1>1, <1>t, <2>2 DEF PostCheck, TypeOK, sockets, slots
<1>2. CASE PostFill(t)
  <2>1. post' \in [Thread -> Posts]
    <3>1. [post[t] EXCEPT !.at = "finish"] \in Posts
      BY <1>p DEF Posts
    <3> QED BY <1>2, <1>t, <3>1 DEF PostFill, TypeOK
  <2>2. buf' \in [Slot -> Seq(Unit)]
    <3>1. <<post[t].ev>> \in Seq(Unit)
      BY <1>p
    <3> QED BY <1>2, <1>t, <3>1 DEF PostFill, TypeOK
  <2>4. lock' \in [Slot -> Thread \cup {None}]
    BY <1>2, <1>t DEF PostFill, TypeOK
  <2>3. fault' \in BOOLEAN
    BY <1>2, <1>t DEF PostFill, TypeOK
  <2> QED BY <1>2, <1>t, <2>1, <2>2, <2>3, <2>4 DEF PostFill, TypeOK, sockets
<1>3. CASE PostFinish(t)
  <2>1. post[t].at = "finish" /\ i \in Slot
    BY <1>3, <1>i DEF PostFinish, IInv, PostInv
  <2>2. EventPacket(post[t].ev) \in Seq(Unit) /\ EventPacket(post[t].ev) # <<>>
    <3>1. [post[t].ev EXCEPT !.k = "part"] \in Unit
      BY <1>p DEF Unit
    <3> QED BY <1>p, <3>1 DEF EventPacket
  <2>3. buf[i] \o Tail(EventPacket(post[t].ev)) \in Seq(Unit)
    BY <1>t, <2>1, <2>2, HeadTailProperties, ConcatProperties DEF TypeOK
  <2>4. packets' \in [Slot -> Seq(Seq(Unit))]
    <3>1. Queued(i, buf[i] \o Tail(EventPacket(post[t].ev))) \in Seq(Seq(Unit))
      BY <1>t, <2>1, <2>3 DEF Queued, TypeOK
    <3> QED BY <1>3, <1>t, <3>1 DEF PostFinish, TypeOK
  <2>5. buf' \in [Slot -> Seq(Unit)]
    <3>1. <<>> \in Seq(Unit) /\ buf' = [buf EXCEPT ![i] = <<>>]
      BY <1>3 DEF PostFinish
    <3> QED BY <1>t, <3>1 DEF TypeOK
  <2>7. lock' \in [Slot -> Thread \cup {None}]
    BY <1>3, <1>t DEF PostFinish, TypeOK
  <2>6. post' \in [Thread -> Posts]
    BY <1>3, <1>t, <1>d DEF PostFinish, TypeOK
  <2> QED BY <1>3, <1>t, <2>4, <2>5, <2>6, <2>7 DEF PostFinish, TypeOK, sockets
<1>4. CASE PostWake(t)
  <2>1. Idle \in Posts
    BY PlainUnits DEF Idle, Posts
  <2>2. post' \in [Thread -> Posts] /\ pipe' \in Nat
    BY <1>4, <1>t, <2>1 DEF PostWake, TypeOK
  <2> QED BY <1>4, <1>t, <2>2 DEF PostWake, TypeOK, sockets, slots
<1> QED BY <1>1, <1>2, <1>3, <1>4 DEF ThreadStep

(* A new event is one of the thread's, the next.                           *)
LEMMA NewPost ==
  ASSUME TypeOK, NEW t \in Thread, NEW k \in {"event", "tags"},
         NEW who \in IF k = "event" THEN Thread ELSE Conn,
         NEW todo \in SUBSET Slot, StartPost(t, k, who, todo)
  PROVE  post' \in [Thread -> Posts] /\ sent' \in [Thread -> Nat]
<1>1. sent[t] + 1 \in Nat
  BY DEF TypeOK
<1>2. U(k, who, sent[t] + 1) \in Unit
  BY <1>1 DEF U, Unit
<1>3. [ev |-> U(k, who, sent[t] + 1), todo |-> todo, at |-> "check", added |-> FALSE] \in Posts
  BY <1>2 DEF Posts
<1> QED BY <1>1, <1>3 DEF StartPost, TypeOK

LEMMA MoreTypes ==
  ASSUME IInv, PlayerEvent \/ \E i \in Slot : TagsAnswer(i)
  PROVE  TypeOK'
<1>t. TypeOK
  BY DEF IInv
<1>1. CASE PlayerEvent
  <2>1. post' \in [Thread -> Posts] /\ sent' \in [Thread -> Nat]
    BY <1>1, <1>t, NewPost DEF PlayerEvent, Thread
  <2> QED BY <1>1, <1>t, <2>1 DEF PlayerEvent, TypeOK, sockets, slots
<1>2. ASSUME NEW i \in Slot, TagsAnswer(i) PROVE TypeOK'
  <2>1. Head(queue[i]) \in Conn /\ Tail(queue[i]) \in Seq(Conn)
    BY <1>2, <1>t, HeadTailProperties DEF TagsAnswer, TypeOK
  <2>2. StartPost("tags", "tags", Head(queue[i]), {i}) /\ {i} \in SUBSET Slot /\ "tags" \in Thread
    BY <1>2 DEF TagsAnswer, Thread
  <2>4. post' \in [Thread -> Posts] /\ sent' \in [Thread -> Nat]
    <3>1. Head(queue[i]) \in IF "tags" = "event" THEN Thread ELSE Conn
      BY <2>1
    <3> QED BY <1>t, <2>2, <3>1, NewPost
  <2>3. queue' \in [Slot -> Seq(Conn)]
    BY <1>2, <1>t, <2>1 DEF TagsAnswer, TypeOK
  <2> QED BY <1>2, <1>t, <2>3, <2>4 DEF TagsAnswer, TypeOK, sockets
<1> QED BY <1>1, <1>2

LEMMA SlotTypes ==
  ASSUME TypeOK, NEW i \in Connected
  PROVE  /\ i \in Slot /\ slot[i] \in Conn
         /\ down[slot[i]] \in Seq(Unit) /\ Len(down[slot[i]]) \in 0..Cap
         /\ up[slot[i]] \in Seq(Cmd) /\ packets[i] \in Seq(Seq(Unit)) /\ buf[i] \in Seq(Unit)
         /\ queue[i] \in Seq(Conn) /\ proc[slot[i]] \in Processes
BY LenProperties, ServerAssumption DEF TypeOK, Connected

\* Another unit for a client, into its packet or on its socket.
LEMMA UnitTypes ==
  ASSUME TypeOK, NEW i \in Connected, NEW u \in Unit, SendUnit(i, u)
  PROVE  /\ buf' \in [Slot -> Seq(Unit)] /\ down' \in [Conn -> Seq(Unit)]
         /\ \A c \in Conn : Len(down'[c]) <= Cap
<1>1. CASE buf[i] # <<>>
  <2>1. Append(buf[i], u) \in Seq(Unit)
    BY SlotTypes, AppendProperties
  <2> QED BY <1>1, <2>1 DEF SendUnit, TypeOK
<1>2. CASE buf[i] = <<>>
  <2> DEFINE c == slot[i]
  <2>1. /\ c \in Conn /\ down[c] \in Seq(Unit) /\ Len(down[c]) \in Nat
        /\ Append(down[c], u) \in Seq(Unit) /\ Len(Append(down[c], u)) = Len(down[c]) + 1
    BY SlotTypes, AppendProperties
  <2>2. /\ Len(down[c]) < Cap /\ down' = [down EXCEPT ![c] = Append(@, u)] /\ buf' = buf
    BY <1>2 DEF SendUnit
  <2> HIDE DEF c
  <2>3. down' \in [Conn -> Seq(Unit)]
    BY <2>1, <2>2 DEF TypeOK
  <2>4. ASSUME NEW d \in Conn PROVE Len(down'[d]) <= Cap
    <3>1. d # c => down'[d] = down[d]
      BY <2>2 DEF TypeOK
    <3>2. down'[c] = Append(down[c], u)
      BY <2>1, <2>2 DEF TypeOK
    <3> QED BY <2>1, <2>2, <3>1, <3>2, ServerAssumption DEF TypeOK
  <2> QED BY <2>2, <2>3, <2>4 DEF TypeOK
<1> QED BY <1>1, <1>2

LEMMA LoopTypes ==
  ASSUME IInv, Turn \/ SignalQuit \/ Select
  PROVE  TypeOK'
<1>t. TypeOK /\ srv \in Servers
  BY DEF IInv, TypeOK
<1>1. CASE Turn
  <2>1. {i \in Connected : packets[i] # <<>>} \in SUBSET Slot
    BY DEF Connected
  <2>2. srv' \in Servers
    BY <1>1, <1>t, <2>1 DEF Turn, Servers
  <2> QED BY <1>1, <1>t, <2>2 DEF Turn, TypeOK, sockets, slots
<1>2. CASE SignalQuit
  <2>1. srv' \in Servers /\ quit' \in BOOLEAN
    BY <1>2, <1>t DEF SignalQuit, Servers
  <2> QED BY <1>2, <1>t, <2>1 DEF SignalQuit, TypeOK, sockets, slots
<1>3. CASE Select
  <2> DEFINE W == {i \in srv.fds : Writable(i)}
             R == {i \in Connected : Readable(i)}
  <2>1. W \in SUBSET Slot /\ R \in SUBSET Slot
    BY <1>t DEF Servers, Connected
  <2>2. 0 \in Slot
    BY ServerAssumption DEF Slot
  <2>3. srv' \in Servers
    <3>1. CASE quit
      <4>1. srv' = [srv EXCEPT !.pc = "exit"]
        BY <1>3, <3>1 DEF Select
      <4> QED BY <1>t, <4>1 DEF Servers
    <3>2. CASE ~quit
      <4>1. srv' = [srv EXCEPT !.pc = "serve", !.write = W, !.read = R, !.fds = {}, !.i = 0]
        BY <1>3, <3>2 DEF Select
      <4> HIDE DEF W, R
      <4> QED BY <1>t, <2>1, <2>2, <4>1 DEF Servers
    <3> QED BY <3>1, <3>2
  <2>4. pipe' \in Nat
    BY <1>3, <1>t DEF Select, TypeOK
  <2>5. Accept \/ UNCHANGED <<slot, packets, queue, down, open, backlog>>
    BY <1>3 DEF Select
  <2>6. /\ slot' \in [Slot -> Conn \cup {None}] /\ packets' \in [Slot -> Seq(Seq(Unit))]
        /\ queue' \in [Slot -> Seq(Conn)] /\ down' \in [Conn -> Seq(Unit)]
        /\ open' \in [Conn -> BOOLEAN] /\ backlog' \in Seq(Conn)
        /\ \A c \in Conn : Len(down'[c]) <= Cap
    <3>1. CASE UNCHANGED <<slot, packets, queue, down, open, backlog>>
      BY <1>t, <3>1 DEF TypeOK
    <3>2. CASE Accept /\ backlog # <<>>
      <4> DEFINE c == Head(backlog)
                 f == Least(Slot \ Connected)
      <4>1. c \in Conn /\ Tail(backlog) \in Seq(Conn) /\ c = backlog[1] /\ 1 \in DOMAIN backlog
        BY <1>t, <3>2, HeadTailProperties, EmptySeq, LenProperties DEF TypeOK
      <4>2. backlog' = Tail(backlog)
        BY <3>2 DEF Accept
      <4>3. down[c] = <<>>
        BY <4>1 DEF IInv, PlaceInv
      <4>4. CASE Slot \ Connected # {}
        <5>1. f \in Slot
          BY <4>4, LeastIn
        <5>2. /\ slot' = [slot EXCEPT ![f] = c] /\ packets' = [packets EXCEPT ![f] = <<>>]
              /\ queue' = [queue EXCEPT ![f] = <<>>] /\ open' = [open EXCEPT ![c] = TRUE]
              /\ down' = down
          BY <3>2, <4>4 DEF Accept, Cleared
        <5> HIDE DEF c, f
        <5>3. slot' \in [Slot -> Conn \cup {None}] /\ open' \in [Conn -> BOOLEAN]
          BY <1>t, <4>1, <5>2 DEF TypeOK
        <5>4. packets' \in [Slot -> Seq(Seq(Unit))]
          <6>1. <<>> \in Seq(Seq(Unit))
            OBVIOUS
          <6> QED BY <1>t, <5>2, <6>1 DEF TypeOK
        <5>5. queue' \in [Slot -> Seq(Conn)]
          <6>1. <<>> \in Seq(Conn)
            OBVIOUS
          <6> QED BY <1>t, <5>2, <6>1 DEF TypeOK
        <5> QED BY <1>t, <4>1, <4>2, <5>2, <5>3, <5>4, <5>5 DEF TypeOK
      <4>5. CASE Slot \ Connected = {}
        <5>1. /\ down' = [down EXCEPT ![c] = Append(@, Plain("busy"))]
              /\ UNCHANGED <<slot, packets, queue, open>>
          BY <3>2, <4>5 DEF Accept
        <5>2. Append(down[c], Plain("busy")) \in Seq(Unit) /\ Len(Append(down[c], Plain("busy"))) = 1
          BY <4>3, PlainUnits
        <5> HIDE DEF c
        <5>3. down' \in [Conn -> Seq(Unit)]
          BY <1>t, <4>1, <5>1, <5>2 DEF TypeOK
        <5>4. ASSUME NEW d \in Conn PROVE Len(down'[d]) <= Cap
          BY <1>t, <4>1, <5>1, <5>2, ServerAssumption DEF TypeOK
        <5> QED BY <1>t, <4>1, <4>2, <5>1, <5>3, <5>4 DEF TypeOK
      <4> QED BY <4>4, <4>5
    <3>3. CASE Accept /\ backlog = <<>>
      <4>1. UNCHANGED <<slot, packets, queue, down, open, backlog>>
        BY <3>3 DEF Accept
      <4> QED BY <1>t, <4>1 DEF TypeOK
    <3> QED BY <2>5, <3>1, <3>2, <3>3
  <2>7. UNCHANGED <<buf, lock, up, proc, post, sent, quit, fault>>
    BY <1>3 DEF Select
  <2> QED BY <1>t, <2>3, <2>4, <2>6, <2>7 DEF TypeOK
<1> QED BY <1>1, <1>2, <1>3

LEMMA UnlockedTypes ==
  ASSUME TypeOK, NEW i \in Slot
  PROVE  Unlocked(i) \in [Slot -> Thread \cup {None}]
BY DEF TypeOK, Unlocked

\* What is put on a socket is no more than it has room for.
LEMMA RoomTypes ==
  ASSUME TypeOK, NEW c \in Conn, NEW s \in Seq(Unit), Len(s) <= Cap,
         down' = [down EXCEPT ![c] = s]
  PROVE  down' \in [Conn -> Seq(Unit)] /\ \A d \in Conn : Len(down'[d]) <= Cap
<1>1. down' \in [Conn -> Seq(Unit)]
  BY DEF TypeOK
<1>2. ASSUME NEW d \in Conn PROVE Len(down'[d]) <= Cap
  BY DEF TypeOK
<1> QED BY <1>1, <1>2

LEMMA SendTypes ==
  ASSUME IInv, SendStep
  PROVE  TypeOK'
<1> DEFINE i == srv.i
           c == slot[i]
<1>t. TypeOK /\ srv \in Servers /\ srv.i \in Slot /\ srv.write \in SUBSET Slot
  BY DEF IInv, TypeOK, Servers
<1>c. Cap \in Nat
  BY ServerAssumption
<1>1. CASE SendEvents
  <2> DEFINE j == Least(srv.write)
  <2>1. j \in Slot
    BY <1>1, <1>t, LeastIn DEF SendEvents
  <2>2. /\ srv' = [srv EXCEPT !.pc = "send", !.write = @ \ {j}, !.i = j]
        /\ lock' = [lock EXCEPT ![j] = "server"]
    BY <1>1 DEF SendEvents
  <2> HIDE DEF j
  <2>3. srv' \in Servers
    BY <1>t, <2>1, <2>2 DEF Servers
  <2>4. lock' \in [Slot -> Thread \cup {None}]
    BY <1>t, <2>1, <2>2 DEF TypeOK, Thread
  <2>5. UNCHANGED <<sockets, slot, packets, buf, queue, pipe, post, sent, quit, fault>>
    BY <1>1 DEF SendEvents
  <2> QED BY <1>t, <2>3, <2>4, <2>5 DEF TypeOK, sockets
<1>s. ASSUME ServerAt("send") PROVE i \in Connected
  BY <1>s DEF ServerAt, IInv, ServerInv
<1>2. CASE SendPacket
  <2>1. i \in Connected /\ packets[i] # <<>>
    BY <1>2, <1>s DEF SendPacket
  <2>2. Head(packets[i]) \in Seq(Unit) /\ Tail(packets[i]) \in Seq(Seq(Unit))
    BY <1>t, <2>1, SlotTypes, HeadTailProperties
  <2>3. /\ down[c] \in Seq(Unit) /\ c \in Conn /\ Len(down[c]) \in Nat
        /\ down[c] \o Head(packets[i]) \in Seq(Unit)
        /\ Len(down[c] \o Head(packets[i])) = Len(down[c]) + Len(Head(packets[i]))
    BY <1>t, <2>1, <2>2, SlotTypes, ConcatProperties
  <2>4. Len(down[c]) + Len(Head(packets[i])) <= Cap
    BY <1>2 DEF SendPacket, Sends
  <2>5. /\ down' = [down EXCEPT ![c] = down[c] \o Head(packets[i])]
        /\ packets' = [packets EXCEPT ![i] = Tail(packets[i])]
    BY <1>2 DEF SendPacket, Unsent
  <2> HIDE DEF c, i
  <2>6. Len(down[c] \o Head(packets[i])) <= Cap
    BY Zenon, <2>3, <2>4
  <2>7. down' \in [Conn -> Seq(Unit)] /\ \A d \in Conn : Len(down'[d]) <= Cap
    BY <1>t, <2>3, <2>5, <2>6, RoomTypes
  <2>8. packets' \in [Slot -> Seq(Seq(Unit))]
    BY <1>t, <2>2, <2>5 DEF TypeOK
  <2>9. UNCHANGED <<up, open, proc, backlog, slot, buf, lock, queue, pipe, srv, post, sent, quit, fault>>
    BY <1>2 DEF SendPacket
  <2> QED BY <1>t, <2>7, <2>8, <2>9 DEF TypeOK
<1>3. CASE StopSending
  <2> DEFINE ps == packets[i]
  <2>1. i \in Connected
    BY <1>3, <1>s DEF StopSending
  <2>2. down' \in [Conn -> Seq(Unit)] /\ \A d \in Conn : Len(down'[d]) <= Cap
    <3>1. CASE ps = <<>> \/ Hangup(c)
      <4>1. down' = down
        BY <1>3, <3>1 DEF StopSending
      <4> QED BY <1>t, <4>1 DEF TypeOK
    <3>2. CASE ~(ps = <<>> \/ Hangup(c))
      <4>1. Head(ps) \in Seq(Unit)
        BY <1>t, <2>1, <3>2, SlotTypes, HeadTailProperties
      <4>2. /\ down[c] \in Seq(Unit) /\ c \in Conn /\ Len(down[c]) \in Nat /\ Len(Head(ps)) \in Nat
            /\ down[c] \o Head(ps) \in Seq(Unit)
            /\ Len(down[c] \o Head(ps)) = Len(down[c]) + Len(Head(ps))
        BY <1>t, <2>1, <4>1, SlotTypes, ConcatProperties, LenProperties
      <4>3. ~(Len(down[c]) + Len(Head(ps)) <= Cap)
        BY <1>3, <3>2 DEF StopSending, Sends
      <4> HIDE DEF c, ps
      <4>4. Cap \in 0..Len(down[c] \o Head(ps))
        <5>1. Cap \in 0..Len(down[c]) + Len(Head(ps))
          <6>1. ~(Len(down[c]) + Len(Head(ps)) <= Cap) /\ Len(down[c]) \in Nat /\ Len(Head(ps)) \in Nat
            BY <4>2, <4>3
          <6> QED BY <1>c, <6>1
        <5> QED BY Zenon, <4>2, <5>1
      <4>5. /\ SubSeq(down[c] \o Head(ps), 1, Cap) \in Seq(Unit)
            /\ Len(SubSeq(down[c] \o Head(ps), 1, Cap)) = Cap
        BY <4>2, <4>4, SplitSeq
      <4>6. down' = [down EXCEPT ![c] = SubSeq(down[c] \o Head(ps), 1, Cap)]
        BY <1>3, <3>2 DEF StopSending, c, ps
      <4>7. Len(SubSeq(down[c] \o Head(ps), 1, Cap)) <= Cap
        BY <1>c, <4>5
      <4> QED BY <1>t, <4>2, <4>5, <4>6, <4>7, RoomTypes
    <3> QED BY <3>1, <3>2
  <2>3. \E b \in BOOLEAN : srv' = [srv EXCEPT !.pc = DropIf(b)]
    BY <1>3 DEF StopSending
  <2>4. srv' \in Servers
    BY <1>t, <2>3 DEF Servers, DropIf
  <2>5. lock' \in [Slot -> Thread \cup {None}]
    BY <1>3, <1>t, UnlockedTypes DEF StopSending
  <2>6. UNCHANGED <<up, open, proc, backlog, slot, packets, buf, queue, pipe, post, sent, quit, fault>>
    BY <1>3 DEF StopSending
  <2> QED BY <1>t, <2>2, <2>4, <2>5, <2>6 DEF TypeOK
<1> QED BY <1>1, <1>2, <1>3 DEF SendStep

LEMMA DropTypes ==
  ASSUME TypeOK, NEW i \in Connected, Drop(i), srv' \in Servers,
         UNCHANGED <<pipe, post, sent, quit, fault>>
  PROVE  TypeOK'
<1>1. /\ slot' = [slot EXCEPT ![i] = None] /\ packets' = [packets EXCEPT ![i] = <<>>]
      /\ queue' = [queue EXCEPT ![i] = <<>>] /\ open' = [open EXCEPT ![slot[i]] = FALSE]
  BY DEF Drop, Cleared
<1>2. slot' \in [Slot -> Conn \cup {None}]
  BY <1>1 DEF TypeOK
<1>3. packets' \in [Slot -> Seq(Seq(Unit))]
  <2>1. <<>> \in Seq(Seq(Unit))
    OBVIOUS
  <2> QED BY <1>1, <2>1 DEF TypeOK
<1>4. queue' \in [Slot -> Seq(Conn)]
  <2>1. <<>> \in Seq(Conn)
    OBVIOUS
  <2> QED BY <1>1, <2>1 DEF TypeOK
<1>5. open' \in [Conn -> BOOLEAN]
  BY <1>1 DEF TypeOK
<1> QED BY <1>2, <1>3, <1>4, <1>5 DEF Drop, TypeOK

\* A command: there is none, and the client is dropped; or it is one of these.
NoCommand(j) ==
  up[slot[j]] = <<>> /\ Handling(j, "drop") /\ UNCHANGED <<up, lock, queue, post, sent, quit>>

Answers(j, us) == Reply(j, us) /\ UNCHANGED <<queue, post, sent, quit>>
Sets(j) == /\ Handling(j, "serve") /\ StartPost("server", "event", "server", Slot)
           /\ UNCHANGED <<queue, quit>>
Asks(j) == /\ Handling(j, "serve") /\ queue' = [queue EXCEPT ![j] = Append(@, slot[j])]
           /\ UNCHANGED <<post, sent, quit>>
Leaves(j) == Handling(j, "drop") /\ UNCHANGED <<queue, post, sent>>

Takes(j, cmd) ==
  /\ up[slot[j]] # <<>> /\ cmd = Head(up[slot[j]])
  /\ up' = [up EXCEPT ![slot[j]] = Tail(@)]
  /\ \/ cmd = "get" /\ lock[j] = None /\ lock' = [lock EXCEPT ![j] = "server"] /\ Answers(j, Answer)
     \/ /\ cmd # "get" /\ lock' = lock
        /\ \/ cmd = "ping" /\ Answers(j, Pong)
           \/ cmd = "set" /\ Sets(j)
           \/ cmd = "tags" /\ Asks(j)
           \/ cmd = "disconnect" /\ Leaves(j) /\ quit' = quit
           \/ cmd = "quit" /\ Leaves(j) /\ quit' = TRUE

LEMMA CommandTaken ==
  ASSUME IInv, HandleCommand
  PROVE  /\ Serving /\ UNCHANGED <<down, open, proc, backlog, slot, packets, buf, pipe, fault>>
         /\ \E j \in srv.read : /\ j \in Connected
                                /\ NoCommand(j) \/ \E cmd \in Cmd : Takes(j, cmd)
<1> DEFINE j == Least(srv.read)
           c == slot[j]
           cmd == Head(up[c])
<1>t. TypeOK /\ srv.read \in SUBSET Slot
  BY DEF IInv, TypeOK, Servers
<1>1. j \in srv.read /\ j \in Connected
  BY <1>t, LeastIn DEF HandleCommand, IInv, ServerInv
<1>2. Serving /\ UNCHANGED <<down, open, proc, backlog, slot, packets, buf, pipe, fault>>
  BY DEF HandleCommand
<1>3. CASE up[c] = <<>>
  <2>1. NoCommand(j)
    BY <1>3 DEF HandleCommand, NoCommand
  <2> HIDE DEF j
  <2> QED BY <1>1, <1>2, <2>1
<1>4. CASE up[c] # <<>>
  <2>1. cmd \in Cmd
    BY <1>t, <1>1, <1>4, SlotTypes, HeadTailProperties
  <2>2. /\ up' = [up EXCEPT ![c] = Tail(@)]
        /\ TakesLock(cmd) => lock[j] = None
        /\ lock' = IF TakesLock(cmd) THEN [lock EXCEPT ![j] = "server"] ELSE lock
    BY <1>4 DEF HandleCommand
  <2>3. \/ cmd = "ping" /\ Answers(j, Pong)
        \/ cmd = "get" /\ Answers(j, Answer)
        \/ cmd = "set" /\ Sets(j)
        \/ cmd = "tags" /\ Asks(j)
        \/ cmd = "disconnect" /\ Leaves(j) /\ quit' = quit
        \/ cmd = "quit" /\ Leaves(j) /\ quit' = TRUE
    BY <1>4, <2>1 DEF HandleCommand, Cmd, Pong, Answers, Sets, Asks, Leaves
  <2> HIDE DEF j, cmd
  <2>4. Takes(j, cmd)
    BY <1>4, <2>2, <2>3 DEF Takes, TakesLock, cmd
  <2> QED BY <1>1, <1>2, <2>1, <2>4
<1> QED BY <1>3, <1>4

LEMMA ReplyTypes ==
  ASSUME IInv, ReplyStep
  PROVE  TypeOK'
<1> DEFINE i == srv.i
<1>t. /\ TypeOK /\ srv \in Servers /\ srv.i \in Slot /\ srv.read \in SUBSET Slot
      /\ srv.left \in Seq(Unit)
  BY DEF IInv, TypeOK, Servers
<1>1. CASE HandleCommand
  <2>1. PICK j \in srv.read : /\ j \in Connected
                              /\ NoCommand(j) \/ \E cmd \in Cmd : Takes(j, cmd)
    BY <1>1, CommandTaken
  <2> DEFINE c == slot[j]
  <2>2. c \in Conn /\ j \in Slot /\ up[c] \in Seq(Cmd) /\ queue[j] \in Seq(Conn)
    BY <1>t, <2>1, SlotTypes
  <2>3. UNCHANGED <<down, open, proc, backlog, slot, packets, buf, pipe, fault>>
    BY <1>1, CommandTaken
  <2>h. ASSUME NEW pc \in {"drop", "serve"}, Handling(j, pc) PROVE srv' \in Servers
    BY <1>t, <2>2, <2>h DEF Handling, Forget, Servers
  <2>4. CASE NoCommand(j)
    BY <1>t, <2>3, <2>4, <2>h DEF TypeOK, NoCommand
  <2>5. ASSUME NEW cmd \in Cmd, Takes(j, cmd) PROVE TypeOK'
    <3>r. ASSUME NEW us \in Seq(Unit), Reply(j, us) PROVE srv' \in Servers
      BY <1>t, <2>2, <3>r DEF Reply, Forget, Servers
    <3>1. /\ Tail(up[c]) \in Seq(Cmd) /\ Len(up[c]) \in Nat
          /\ Len(Tail(up[c])) = Len(up[c]) - 1 /\ Len(up[c]) <= Cap
      BY <1>t, <2>2, <2>5, HeadTailProperties, LenProperties DEF TypeOK, Takes
    <3>2. up' = [up EXCEPT ![c] = Tail(up[c])]
      BY <2>5 DEF Takes
    <3>4. lock' \in [Slot -> Thread \cup {None}]
      BY <1>t, <2>2, <2>5 DEF TypeOK, Thread, Takes
    <3>7. srv' \in Servers
      BY <2>5, <2>h, <3>r, Replies DEF Takes, Answers, Sets, Asks, Leaves
    <3>8. post' \in [Thread -> Posts] /\ sent' \in [Thread -> Nat]
      <4>1. CASE StartPost("server", "event", "server", Slot)
        BY <1>t, <4>1, NewPost DEF Thread
      <4> QED BY <1>t, <2>5, <4>1 DEF TypeOK, Takes, Answers, Sets, Asks, Leaves
    <3>9. queue' \in [Slot -> Seq(Conn)] /\ quit' \in BOOLEAN
      <4>1. Append(queue[j], c) \in Seq(Conn)
        BY <2>2, AppendProperties
      <4> QED BY <1>t, <2>5, <4>1 DEF TypeOK, Takes, Answers, Sets, Asks, Leaves
    <3> HIDE DEF c
    <3>5. up' \in [Conn -> Seq(Cmd)]
      BY <1>t, <2>2, <3>1, <3>2 DEF TypeOK
    <3>6. ASSUME NEW d \in Conn PROVE Len(up'[d]) <= Cap
      BY <1>t, <2>2, <3>1, <3>2, ServerAssumption DEF TypeOK
    <3> QED BY <1>t, <2>3, <3>4, <3>5, <3>6, <3>7, <3>8, <3>9 DEF TypeOK
  <2> QED BY <2>1, <2>4, <2>5
<1>s. ASSUME ServerAt("reply") PROVE i \in Connected
  BY <1>s DEF ServerAt, IInv, ServerInv
<1>2. CASE SendReply
  <2>1. i \in Connected /\ srv.left # <<>> /\ SendUnit(i, Head(srv.left))
    BY <1>2, <1>s DEF SendReply
  <2>2. Head(srv.left) \in Unit /\ Tail(srv.left) \in Seq(Unit)
    BY <1>t, <2>1, HeadTailProperties
  <2>3. srv' \in Servers
    BY <1>2, <1>t, <2>2 DEF SendReply, Servers
  <2>4. UNCHANGED <<up, open, proc, backlog, slot, packets, lock, queue, pipe, post, sent, quit, fault>>
    BY <1>2 DEF SendReply
  <2> QED BY <1>t, <2>1, <2>2, <2>3, <2>4, UnitTypes DEF TypeOK
<1>3. CASE ReplySent
  <2>1. srv' \in Servers
    BY <1>3, <1>t DEF ReplySent, Servers
  <2>2. lock' \in [Slot -> Thread \cup {None}]
    BY <1>3, <1>t, UnlockedTypes DEF ReplySent
  <2> QED BY <1>3, <1>t, <2>1, <2>2 DEF ReplySent, TypeOK, sockets
<1>4. CASE ReplyFails
  <2>1. srv' \in Servers
    <3>1. srv' = [srv EXCEPT !.left = <<>>, !.pc = "drop"] /\ <<>> \in Seq(Unit)
      BY <1>4 DEF ReplyFails
    <3> QED BY <1>t, <3>1 DEF Servers
  <2>2. lock' \in [Slot -> Thread \cup {None}]
    BY <1>4, <1>t, UnlockedTypes DEF ReplyFails
  <2> QED BY <1>4, <1>t, <2>1, <2>2 DEF ReplyFails, TypeOK, sockets
<1> QED BY <1>1, <1>2, <1>3, <1>4 DEF ReplyStep

LEMMA ExitTypes ==
  ASSUME IInv, ExitStep \/ DropClient
  PROVE  TypeOK'
<1>t. TypeOK /\ srv \in Servers
  BY DEF IInv, TypeOK
<1>1. CASE SendExit
  <2> DEFINE i == Least(Connected)
  <2>1. i \in Connected
    BY <1>1, LeastIn DEF SendExit, Connected
  <2>2. srv' = [srv EXCEPT !.pc = "bye", !.i = i]
    BY <1>1 DEF SendExit
  <2>3. \/ UNCHANGED <<down, buf>>
        \/ SendUnit(i, Plain("exit"))
    BY <1>1 DEF SendExit
  <2> HIDE DEF i
  <2>4. srv' \in Servers
    BY <1>t, <2>1, <2>2 DEF Servers, Connected
  <2>5. /\ buf' \in [Slot -> Seq(Unit)] /\ down' \in [Conn -> Seq(Unit)]
        /\ \A c \in Conn : Len(down'[c]) <= Cap
    <3>1. CASE UNCHANGED <<down, buf>>
      BY <1>t, <3>1 DEF TypeOK
    <3>2. CASE SendUnit(i, Plain("exit"))
      <4>1. Plain("exit") \in Unit
        BY PlainUnits
      <4> QED BY <1>t, <2>1, <3>2, <4>1, UnitTypes
    <3> QED BY <2>3, <3>1, <3>2
  <2>6. UNCHANGED <<up, open, proc, backlog, slot, packets, lock, queue, pipe, post, sent, quit, fault>>
    BY <1>1 DEF SendExit
  <2> QED BY <1>t, <2>4, <2>5, <2>6 DEF TypeOK
<1>2. CASE DropExiting
  <2>1. srv.i \in Connected
    BY <1>2 DEF DropExiting, ServerAt, IInv, ServerInv
  <2>2. srv' \in Servers
    BY <1>2, <1>t DEF DropExiting, Servers
  <2> QED BY <1>2, <1>t, <2>1, <2>2, DropTypes DEF DropExiting
<1>3. CASE DropClient
  <2>1. srv.i \in Connected
    BY <1>3 DEF DropClient, ServerAt, IInv, ServerInv
  <2>2. srv' \in Servers
    BY <1>3, <1>t DEF DropClient, Forget, Servers
  <2> QED BY <1>3, <1>t, <2>1, <2>2, DropTypes DEF DropClient
<1>4. CASE ShutDown
  <2>1. srv' \in Servers /\ backlog' \in Seq(Conn)
    BY <1>4, <1>t DEF ShutDown, Servers
  <2> QED BY <1>4, <1>t, <2>1 DEF ShutDown, TypeOK, slots
<1> QED BY <1>1, <1>2, <1>3, <1>4 DEF ExitStep

\* A message that is read leaves what comes after it.
LEMMA ReadRest ==
  ASSUME NEW s \in Seq(Unit), Len(s) > 1
  PROVE  /\ SubSeq(s, 3, Len(s)) \in Seq(Unit)
         /\ Len(SubSeq(s, 3, Len(s))) = Len(s) - 2
         /\ \A k \in 1..Len(s) - 2 : SubSeq(s, 3, Len(s))[k] = s[k + 2]
         /\ s[1] \in Unit /\ s[2] \in Unit
<1>1. Len(s) \in Nat /\ 2 \in 0..Len(s) /\ 1 \in 1..Len(s) /\ 2 \in 1..Len(s)
  BY LenProperties
<1>2. /\ SubSeq(s, 2 + 1, Len(s)) \in Seq(Unit)
      /\ Len(SubSeq(s, 2 + 1, Len(s))) = Len(s) - 2
      /\ \A k \in 1..Len(s) - 2 : SubSeq(s, 2 + 1, Len(s))[k] = s[2 + k]
  BY <1>1, SplitSeq
<1>3. s[1] \in Unit /\ s[2] \in Unit
  BY <1>1, ElementOfSeq
<1> QED BY <1>1, <1>2, <1>3

LEMMA ReadTypes ==
  ASSUME TypeOK, NEW c \in Conn, ReadMessage(c)
  PROVE  proc' \in [Conn -> Processes] /\ down' \in [Conn -> Seq(Unit)]
         /\ \A d \in Conn : Len(down'[d]) <= Cap
<1> DEFINE s == down[c]
           whole == Complete(s[1], s[2])
           last == IF s[1].by \in Thread THEN [proc[c].last EXCEPT ![s[1].by] = s[1].n]
                                         ELSE proc[c].last
           at == IF whole /\ s[1].k = "data" THEN "open" ELSE proc[c].at
<1>1. s \in Seq(Unit) /\ Len(s) > 1 /\ proc[c] \in Processes /\ Len(s) <= Cap
  BY DEF ReadMessage, TypeOK
<1>2. s[1] \in Unit /\ s[2] \in Unit /\ Len(s) \in Nat
  BY <1>1, ReadRest, LenProperties
<1>3. last \in [Thread -> Nat]
  BY <1>1, <1>2 DEF Unit, Processes
<1>4. proc' = [proc EXCEPT ![c] = [proc[c] EXCEPT !.garbled = ~whole, !.last = last, !.at = at]]
  BY DEF ReadMessage, TypeOK
<1>5. down' = [down EXCEPT ![c] = SubSeq(s, 3, Len(s))]
  BY DEF ReadMessage
<1>6. SubSeq(s, 3, Len(s)) \in Seq(Unit) /\ Len(SubSeq(s, 3, Len(s))) <= Cap
  BY <1>1, <1>2, ReadRest, ServerAssumption
<1>7. at \in {"out", "pinging", "open", "sending", "waiting", "leaving", "gone"}
  BY <1>1 DEF Processes
<1>9. (~whole) \in BOOLEAN
  OBVIOUS
<1> HIDE DEF s, whole, last, at
<1>8. [proc[c] EXCEPT !.garbled = ~whole, !.last = last, !.at = at] \in Processes
  BY <1>1, <1>3, <1>7, <1>9 DEF Processes
<1> QED BY <1>4, <1>5, <1>6, <1>8, RoomTypes DEF TypeOK

LEMMA StepTypes ==
  ASSUME IInv, NEW c \in Conn, Step(c)
  PROVE  TypeOK'
<1>t. TypeOK
  BY DEF IInv
<1>p. proc[c] \in Processes /\ up[c] \in Seq(Cmd) /\ down[c] \in Seq(Unit)
  BY <1>t DEF TypeOK
<1>g. ASSUME Gone(c)
      PROVE  /\ proc' \in [Conn -> Processes] /\ down' \in [Conn -> Seq(Unit)]
             /\ \A d \in Conn : Len(down'[d]) <= Cap
  <2>1. proc' = [proc EXCEPT ![c] = [proc[c] EXCEPT !.at = "gone", !.last = [t \in Thread |-> 0]]]
    BY <1>t, <1>g DEF Gone, TypeOK
  <2>2. [proc[c] EXCEPT !.at = "gone", !.last = [t \in Thread |-> 0]] \in Processes
    BY <1>p DEF Processes
  <2>3. <<>> \in Seq(Unit) /\ Len(<<>>) <= Cap /\ down' = [down EXCEPT ![c] = <<>>]
    BY <1>g, ServerAssumption DEF Gone
  <2> QED BY <1>t, <2>1, <2>2, <2>3, RoomTypes DEF TypeOK
<1>a. ASSUME NEW at \in {"pinging", "open"}, Goes(c, at) PROVE proc' \in [Conn -> Processes]
  <2>1. [proc[c] EXCEPT !.at = at] \in Processes
    BY <1>p DEF Processes
  <2> QED BY <1>t, <1>a, <2>1 DEF Goes, TypeOK
<1>u. ASSUME NEW s \in Seq(Cmd), Len(s) <= Cap, up' = [up EXCEPT ![c] = s]
      PROVE  up' \in [Conn -> Seq(Cmd)] /\ \A d \in Conn : Len(up'[d]) <= Cap
  <2>1. up' \in [Conn -> Seq(Cmd)]
    BY <1>t, <1>u DEF TypeOK
  <2>2. ASSUME NEW d \in Conn PROVE Len(up'[d]) <= Cap
    BY <1>t, <1>u DEF TypeOK
  <2> QED BY <2>1, <2>2
<1>1. CASE Connect(c)
  <2>1. proc' \in [Conn -> Processes]
    BY <1>1, <1>a DEF Connect
  <2>2. <<"ping">> \in Seq(Cmd) /\ Len(<<"ping">>) <= Cap
    BY ServerAssumption DEF Cmd
  <2>3. up' \in [Conn -> Seq(Cmd)] /\ \A d \in Conn : Len(up'[d]) <= Cap
    BY <1>1, <1>u, <2>2 DEF Connect
  <2>4. backlog' \in Seq(Conn)
    BY <1>t, <1>1, AppendProperties DEF Connect, TypeOK
  <2> QED BY <1>t, <1>1, <2>1, <2>3, <2>4 DEF Connect, TypeOK, Others, slots
<1>2. CASE ReadPong(c)
  <2>1. /\ proc' \in [Conn -> Processes] /\ down' \in [Conn -> Seq(Unit)]
        /\ \A d \in Conn : Len(down'[d]) <= Cap
    <3>1. CASE Head(down[c]).k = "pong"
      <4>1. down[c] # <<>> /\ Goes(c, "open") /\ down' = [down EXCEPT ![c] = Tail(down[c])]
        BY <1>2, <3>1 DEF ReadPong
      <4>2. /\ Tail(down[c]) \in Seq(Unit) /\ Len(Tail(down[c])) = Len(down[c]) - 1
            /\ Len(down[c]) \in Nat /\ Len(down[c]) <= Cap
        BY <1>t, <1>p, <4>1, HeadTailProperties, LenProperties DEF TypeOK
      <4>3. Len(Tail(down[c])) <= Cap
        BY <4>2, ServerAssumption
      <4> QED BY <1>t, <1>a, <4>1, <4>2, <4>3, RoomTypes
    <3>2. CASE Head(down[c]).k # "pong"
      BY <1>2, <1>g, <3>2 DEF ReadPong
    <3> QED BY <3>1, <3>2
  <2> QED BY <1>t, <1>2, <2>1 DEF ReadPong, TypeOK, Others, slots
<1>3. CASE SendCommand(c)
  <2> DEFINE cmd == proc[c].cmd
             at == CASE cmd = "get" -> "waiting" [] cmd \in {"disconnect", "quit"} -> "leaving"
                     [] OTHER -> "open"
  <2>1. cmd \in Cmd /\ Len(up[c]) < Cap /\ Len(up[c]) \in Nat
    BY <1>3, <1>p, LenProperties DEF SendCommand, IInv, PingInv, Pinged
  <2>2. Append(up[c], cmd) \in Seq(Cmd) /\ Len(Append(up[c], cmd)) <= Cap
    BY <1>p, <2>1, AppendProperties, ServerAssumption
  <2>3. up' = [up EXCEPT ![c] = Append(up[c], cmd)]
    BY <1>3 DEF SendCommand
  <2>4. up' \in [Conn -> Seq(Cmd)] /\ \A d \in Conn : Len(up'[d]) <= Cap
    BY <1>u, <2>2, <2>3
  <2>5. at \in {"waiting", "leaving", "open"}
    OBVIOUS
  <2>6. proc' = [proc EXCEPT ![c] = [proc[c] EXCEPT !.at = at, !.cmd = "none"]]
    BY <1>t, <1>3 DEF SendCommand, TypeOK
  <2> HIDE DEF at
  <2>7. [proc[c] EXCEPT !.at = at, !.cmd = "none"] \in Processes
    BY <1>p, <2>5 DEF Processes
  <2>8. proc' \in [Conn -> Processes]
    BY <1>t, <2>6, <2>7 DEF TypeOK
  <2> QED BY <1>t, <1>3, <2>4, <2>8 DEF SendCommand, TypeOK, Others, slots
<1>4. CASE ReadMessage(c)
  BY <1>t, <1>4, ReadTypes DEF ReadMessage, TypeOK, Others, slots
<1>5. CASE Ends(c)
  BY <1>t, <1>5, <1>g DEF Ends, TypeOK, Others, slots
<1>6. CASE Die(c)
  BY <1>t, <1>6, <1>g DEF Die, TypeOK, Others, slots
<1>7. ASSUME NEW cmd \in Commands[c], Wants(c, cmd) PROVE TypeOK'
  <2>1. cmd \in Cmd /\ proc[c].cmds + 1 \in Nat
    BY <1>p, <1>7, ServerAssumption DEF Cmd, Processes
  <2>2. [proc[c] EXCEPT !.at = "sending", !.cmds = @ + 1, !.cmd = cmd] \in Processes
    BY <1>p, <2>1 DEF Processes
  <2>3. proc' = [proc EXCEPT ![c] = [proc[c] EXCEPT !.at = "sending", !.cmds = @ + 1, !.cmd = cmd]]
    BY <1>t, <1>7 DEF Wants, TypeOK
  <2>4. proc' \in [Conn -> Processes]
    BY <1>t, <2>2, <2>3 DEF TypeOK
  <2> QED BY <1>t, <1>7, <2>4 DEF Wants, TypeOK, Others, slots
<1> QED BY <1>1, <1>2, <1>3, <1>4, <1>5, <1>6, <1>7 DEF Step


LEMMA TypeStep ==
  ASSUME IInv, [Next]_vars
  PROVE  TypeOK'
<1>1. CASE UNCHANGED vars
  BY <1>1 DEF IInv, TypeOK, vars, sockets, slots
<1> QED BY <1>1, Steps, ThreadTypes, MoreTypes, LoopTypes, SendTypes, ReplyTypes, ExitTypes,
           StepTypes

-----------------------------------------------------------------------------
(* Threads, slots and processes                                            *)

\* Who changes what of the threads' events.
LEMMA PostsSame ==
  ASSUME \/ Turn \/ SignalQuit \/ Select \/ DropClient \/ SendStep \/ ExitStep
         \/ SendReply \/ ReplySent \/ ReplyFails \/ \E c \in Conn : Step(c)
         \/ UNCHANGED vars
  PROVE  UNCHANGED <<post, sent>>
BY DEF Turn, SignalQuit, Select, DropClient, SendStep, SendEvents, SendPacket, StopSending,
       ExitStep, SendExit, DropExiting, ShutDown, SendReply, ReplySent, ReplyFails, Step,
       Connect, ReadPong, SendCommand, ReadMessage, Ends, Die, Wants, Others, vars

LEMMA StartedPost ==
  ASSUME IInv, NEW t \in Thread, NEW k, NEW who, NEW todo, StartPost(t, k, who, todo),
         IF t = "tags" THEN k = "tags" /\ who \in Conn ELSE k = "event" /\ who = t
  PROVE  PostInv'
<1>t. post \in [Thread -> Posts] /\ sent \in [Thread -> Nat]
  BY DEF IInv, TypeOK
<1>1. /\ sent'[t] = sent[t] + 1 /\ sent'[t] > 0
      /\ post'[t] = [ev |-> U(k, who, sent'[t]), todo |-> todo, at |-> "check", added |-> FALSE]
  BY <1>t DEF StartPost
<1>2. ASSUME NEW r \in Thread \ {t} PROVE post'[r] = post[r] /\ sent'[r] = sent[r]
  BY <1>t DEF StartPost
<1>3. U(k, who, sent'[t]).k = k /\ U(k, who, sent'[t]).by = who
  BY DEF U
<1>4. ASSUME NEW r \in Thread
      PROVE  /\ post'[r].at = "idle" => post'[r] = Idle
             /\ post'[r].at # "idle" =>
                  /\ sent'[r] > 0
                  /\ r = "tags" => post'[r].ev.k = "tags" /\ post'[r].ev.by \in Conn
                  /\ r # "tags" => post'[r].ev = U("event", r, sent'[r])
             /\ post'[r].at \in {"fill", "finish"} => post'[r].todo # {}
  <2>1. CASE r = t
    BY <1>1, <1>3, <2>1
  <2>2. CASE r # t
    BY <1>2, <2>2 DEF IInv, PostInv
  <2> QED BY <2>1, <2>2
<1> QED BY <1>4 DEF PostInv

LEMMA PostStep ==
  ASSUME IInv, [Next]_vars
  PROVE  PostInv'
<1>t. post \in [Thread -> Posts] /\ sent \in [Thread -> Nat] /\ queue \in [Slot -> Seq(Conn)]
  BY DEF IInv, TypeOK
<1>1. ASSUME NEW t \in Thread, ThreadStep(t) PROVE PostInv'
  <2>1. sent' = sent /\ \A r \in Thread \ {t} : post'[r] = post[r]
    BY <1>t, <1>1 DEF ThreadStep, PostCheck, PostFill, PostFinish, PostWake
  <2>2. \/ post'[t] = post[t] \/ post'[t] = Idle
        \/ /\ post'[t].ev = post[t].ev /\ post[t].at # "idle"
           /\ \/ post'[t].at = "check"
              \/ post'[t].at \in {"fill", "finish"} /\ post'[t].todo = post[t].todo /\ post[t].todo # {}
    <3>1. CASE PostCheck(t)
      BY <1>t, <3>1 DEF PostCheck, Done1, Posts
    <3>2. CASE PostFill(t)
      BY <1>t, <3>2 DEF PostFill, Posts, IInv, PostInv
    <3>3. CASE PostFinish(t)
      BY <1>t, <3>3 DEF PostFinish, Done1, Posts
    <3>4. CASE PostWake(t)
      BY <1>t, <3>4 DEF PostWake
    <3> QED BY <1>1, <3>1, <3>2, <3>3, <3>4 DEF ThreadStep
  <2>3. Idle.at = "idle"
    BY DEF Idle
  <2>4. ASSUME NEW r \in Thread
        PROVE  /\ post'[r].at = "idle" => post'[r] = Idle
               /\ post'[r].at # "idle" =>
                    /\ sent'[r] > 0
                    /\ r = "tags" => post'[r].ev.k = "tags" /\ post'[r].ev.by \in Conn
                    /\ r # "tags" => post'[r].ev = U("event", r, sent'[r])
               /\ post'[r].at \in {"fill", "finish"} => post'[r].todo # {}
    <3>1. CASE r # t \/ post'[t] = post[t]
      <4>1. post'[r] = post[r] /\ sent'[r] = sent[r]
        BY <2>1, <3>1
      <4> QED BY <4>1 DEF IInv, PostInv
    <3>2. CASE r = t /\ post'[t] = Idle
      BY <2>3, <3>2
    <3>3. CASE /\ r = t /\ post'[t].ev = post[t].ev /\ post[t].at # "idle"
               /\ \/ post'[t].at = "check"
                  \/ post'[t].at \in {"fill", "finish"} /\ post'[t].todo = post[t].todo /\ post[t].todo # {}
      BY <2>1, <3>3 DEF IInv, PostInv
    <3> QED BY <2>2, <3>1, <3>2, <3>3
  <2> QED BY <2>4 DEF PostInv
<1>2. CASE PlayerEvent
  BY <1>2, StartedPost DEF PlayerEvent, Thread
<1>3. ASSUME NEW i \in Slot, TagsAnswer(i) PROVE PostInv'
  <2>1. Head(queue[i]) \in Conn
    BY <1>t, <1>3, HeadTailProperties DEF TagsAnswer
  <2> QED BY <1>3, <2>1, StartedPost DEF TagsAnswer, Thread
<1>4. CASE HandleCommand
  <2>1. StartPost("server", "event", "server", Slot) \/ UNCHANGED <<post, sent>>
    BY <1>4, CommandTaken DEF NoCommand, Takes, Answers, Sets, Asks, Leaves
  <2>2. CASE StartPost("server", "event", "server", Slot)
    BY <2>2, StartedPost DEF Thread
  <2>3. CASE UNCHANGED <<post, sent>>
    BY <2>3 DEF IInv, PostInv
  <2> QED BY <2>1, <2>2, <2>3
<1>5. CASE UNCHANGED <<post, sent>>
  BY <1>5 DEF IInv, PostInv
<1> QED BY <1>1, <1>2, <1>3, <1>4, <1>5, PostsSame, Steps DEF ReplyStep

\* What select() does with a new client.
Admits(f, c) ==
  /\ slot' = [slot EXCEPT ![f] = c] /\ packets' = [packets EXCEPT ![f] = <<>>]
  /\ queue' = [queue EXCEPT ![f] = <<>>] /\ open' = [open EXCEPT ![c] = TRUE]
  /\ down' = down
Turns(c) ==
  /\ down' = [down EXCEPT ![c] = <<Plain("busy")>>]
  /\ UNCHANGED <<slot, packets, queue, open>>

LEMMA SlotTaken ==
  ASSUME IInv, Select
  PROVE  \/ UNCHANGED <<slot, packets, queue, down, open, backlog>>
         \/ /\ backlog # <<>> /\ Head(backlog) = backlog[1] /\ backlog[1] \in Conn
            /\ 1 \in DOMAIN backlog /\ backlog' = Tail(backlog)
            /\ Turns(backlog[1]) \/ \E f \in Slot \ Connected : Admits(f, backlog[1])
<1> DEFINE c == Head(backlog)
           f == Least(Slot \ Connected)
<1>1. CASE UNCHANGED <<slot, packets, queue, down, open, backlog>>
  BY <1>1
<1>2. CASE Accept /\ backlog # <<>>
  <2>1. backlog \in Seq(Conn)
    BY DEF IInv, TypeOK
  <2>2. c = backlog[1] /\ 1 \in DOMAIN backlog /\ c \in Conn
    BY <1>2, <2>1, EmptySeq, LenProperties
  <2>3. backlog' = Tail(backlog)
    BY <1>2 DEF Accept
  <2>4. CASE Slot \ Connected # {}
    <3>1. f \in Slot \ Connected
      BY <2>4, LeastIn
    <3>2. Admits(f, c)
      BY <1>2, <2>4 DEF Accept, Cleared, Admits
    <3> HIDE DEF c, f
    <3> QED BY <1>2, <2>2, <2>3, <3>1, <3>2 DEF c
  <2>5. CASE Slot \ Connected = {}
    <3>1. /\ down' = [down EXCEPT ![c] = Append(@, Plain("busy"))]
          /\ UNCHANGED <<slot, packets, queue, open>>
      BY <1>2, <2>5 DEF Accept
    <3>2. down[c] = <<>>
      BY <2>2 DEF IInv, PlaceInv
    <3>3. Append(down[c], Plain("busy")) = <<Plain("busy")>>
      BY <3>2
    <3>4. Turns(c)
      BY <3>1, <3>3 DEF Turns
    <3> HIDE DEF c
    <3> QED BY <1>2, <2>2, <2>3, <3>4 DEF c
  <2> QED BY <2>4, <2>5
<1>3. CASE Accept /\ backlog = <<>>
  BY <1>3 DEF Accept
<1> QED BY <1>1, <1>2, <1>3 DEF Select

\* What the processes, and the others that only queue events, leave alone.
LEMMA SlotsSame ==
  ASSUME PlayerEvent \/ (\E c \in Conn : Step(c)) \/ UNCHANGED vars
  PROVE  UNCHANGED <<slot, packets, buf, lock, queue, srv>>
BY DEF PlayerEvent, Step, Connect, ReadPong, SendCommand, ReadMessage, Ends, Die, Wants, Others,
       slots, vars

LEMMA ServerStays ==
  ASSUME ServerInv, UNCHANGED <<slot, lock, srv>>, post'["server"].at = post["server"].at
  PROVE  ServerInv'
BY DEF ServerInv, Connected

LEMMA ServerInvStep ==
  ASSUME IInv, [Next]_vars
  PROVE  ServerInv'
<1>t. /\ slot \in [Slot -> Conn \cup {None}] /\ lock \in [Slot -> Thread \cup {None}]
      /\ post \in [Thread -> Posts] /\ srv \in Servers /\ srv.i \in Slot /\ srv.fds \in SUBSET Slot
      /\ srv.write \in SUBSET Slot /\ srv.read \in SUBSET Slot
  BY DEF IInv, TypeOK, Servers
<1>s. ServerInv /\ PostInv /\ BufInv
  BY DEF IInv
<1>n. None \notin Thread /\ "server" \in Thread
  BY DEF Thread, None
<1>d. Idle.at = "idle"
  BY DEF Idle
<1>1. ASSUME NEW t \in Thread, ThreadStep(t) PROVE ServerInv'
  <2>1. UNCHANGED <<srv, slot>>
    BY <1>1 DEF ThreadStep, PostCheck, PostFill, PostFinish, PostWake, sockets, slots
  <2>2. post'["server"].at # "idle" => post["server"].at # "idle"
    <3>1. t # "server" => post'["server"] = post["server"]
      BY <1>1, <1>t, <1>n DEF ThreadStep, PostCheck, PostFill, PostFinish, PostWake
    <3>2. post[t].at = "idle" => post'[t] = Idle
      BY <1>1, <1>t, <1>s DEF ThreadStep, PostCheck, PostFill, PostFinish, PostWake, PostInv
    <3> QED BY <1>d, <3>1, <3>2
  <2>3. ASSUME srv.pc = "send" PROVE lock'[srv.i] = "server"
    <3>1. lock[srv.i] = "server" /\ post["server"].at = "idle"
      BY <1>s, <2>3 DEF ServerInv
    <3>2. CASE PostFill(t)
      BY <1>t, <1>n, <3>1, <3>2 DEF PostFill
    <3>3. CASE PostFinish(t)
      <4>1. Filling(t, Next1(post[t])) /\ post[t].todo # {}
        BY <1>s, <3>3 DEF Filling, PostFinish, PostInv
      <4>2. Next1(post[t]) \in Slot
        BY <1>t, <4>1, LeastIn DEF Next1, Posts
      <4>3. lock[Next1(post[t])] = t
        BY <1>s, <4>1, <4>2 DEF BufInv
      <4>4. Next1(post[t]) # srv.i
        BY <3>1, <3>3, <4>3 DEF PostFinish
      <4>5. lock' = [lock EXCEPT ![Next1(post[t])] = None]
        BY <3>3 DEF PostFinish
      <4> QED BY <1>t, <3>1, <4>4, <4>5
    <3>4. CASE lock' = lock
      BY <3>1, <3>4
    <3> QED BY <1>1, <3>2, <3>3, <3>4 DEF ThreadStep, PostCheck, PostWake, slots
  <2> QED BY <1>s, <2>1, <2>2, <2>3 DEF ServerInv, Connected
<1>2. CASE PlayerEvent
  <2>1. post'["server"] = post["server"]
    BY <1>2, <1>t DEF PlayerEvent, StartPost
  <2> QED BY <1>2, <1>s, <2>1, SlotsSame, ServerStays
<1>3. ASSUME NEW i \in Slot, TagsAnswer(i) PROVE ServerInv'
  <2>1. post'["server"] = post["server"] /\ UNCHANGED <<slot, lock, srv>>
    BY <1>3, <1>t DEF TagsAnswer, StartPost
  <2> QED BY <1>s, <2>1, ServerStays
<1>4. CASE Turn
  <2>1. UNCHANGED <<slot, lock, post>> /\ post["server"].at = "idle"
    BY <1>4, <1>d DEF Turn, Serving, ServerAt, slots
  <2>2. srv.read = {} /\ srv.write = {} /\ srv.pc = "serve"
    BY <1>4 DEF Turn, Serving, ServerAt
  <2>3. /\ srv'.read = {} /\ srv'.write = {} /\ srv'.pc \in {"exit", "select"}
        /\ srv'.left = srv.left /\ (srv'.pc = "select" => srv'.fds \subseteq Connected)
    BY <1>4, <1>t, <2>2 DEF Turn, Servers
  <2> QED BY <1>s, <2>1, <2>2, <2>3 DEF ServerInv, Connected
<1>5. CASE SignalQuit
  <2>1. UNCHANGED <<slot, lock, post>> /\ srv.read = {} /\ srv.write = {}
    BY <1>5 DEF SignalQuit, slots
  <2>2. srv' = srv \/ (srv.pc = "select" /\ srv' = [srv EXCEPT !.pc = "exit"])
    BY <1>5 DEF SignalQuit
  <2>3. CASE srv' = srv
    BY <1>s, <2>1, <2>3, ServerStays
  <2>4. CASE srv.pc = "select" /\ srv' = [srv EXCEPT !.pc = "exit"]
    <3>1. srv'.read = {} /\ srv'.write = {} /\ srv'.pc = "exit" /\ srv'.left = srv.left
      BY <1>t, <2>1, <2>4 DEF Servers
    <3> QED BY <1>s, <2>1, <2>4, <3>1 DEF ServerInv, Connected
  <2> QED BY <2>2, <2>3, <2>4
<1>6. CASE Select
  <2>1. UNCHANGED <<lock, post>> /\ srv.pc = "select" /\ post["server"].at = "idle"
    BY <1>6, <1>d DEF Select, ServerAt
  <2>2. Connected \subseteq Connected'
    <3>1. slot' = slot \/ \E f \in Slot \ Connected, c \in Conn : slot' = [slot EXCEPT ![f] = c]
      BY <1>6, SlotTaken DEF Admits, Turns
    <3> QED BY <1>t, <3>1, ServerAssumption DEF Connected
  <2>3. /\ srv'.read \subseteq Connected /\ srv'.write \subseteq Connected
        /\ \/ srv'.pc = "serve"
           \/ srv'.pc = "exit" /\ srv'.read = {} /\ srv'.write = {}
        /\ srv'.left = srv.left
    <3>1. CASE quit
      <4>1. srv' = [srv EXCEPT !.pc = "exit"]
        BY <1>6, <3>1 DEF Select
      <4> QED BY <1>s, <1>t, <2>1, <4>1 DEF ServerInv, Servers
    <3>2. CASE ~quit
      <4> DEFINE W == {i \in srv.fds : Writable(i)}
                 R == {i \in Connected : Readable(i)}
      <4>1. srv' = [srv EXCEPT !.pc = "serve", !.write = W, !.read = R, !.fds = {}, !.i = 0]
        BY <1>6, <3>2 DEF Select
      <4>2. W \subseteq Connected /\ R \subseteq Connected
        BY <1>s, <2>1 DEF ServerInv
      <4> HIDE DEF W, R
      <4> QED BY <1>t, <4>1, <4>2 DEF Servers
    <3> QED BY <3>1, <3>2
  <2> QED BY <1>s, <2>1, <2>2, <2>3 DEF ServerInv
<1>7. CASE SendEvents
  <2> DEFINE j == Least(srv.write)
  <2>1. j \in srv.write
    BY <1>7, <1>t, LeastIn DEF SendEvents
  <2>2. /\ srv' = [srv EXCEPT !.pc = "send", !.write = @ \ {j}, !.i = j]
        /\ lock' = [lock EXCEPT ![j] = "server"] /\ UNCHANGED <<slot, post>>
        /\ srv.pc = "serve" /\ post["server"].at = "idle"
    BY <1>7, <1>d DEF SendEvents, ServerAt
  <2> HIDE DEF j
  <2>3. /\ srv'.pc = "send" /\ srv'.write = srv.write \ {j} /\ srv'.i = j
        /\ srv'.read = srv.read /\ srv'.left = srv.left
    BY <1>t, <2>2 DEF Servers
  <2>4. lock'[j] = "server"
    BY <1>t, <2>1, <2>2
  <2> QED BY <1>s, <2>1, <2>2, <2>3, <2>4 DEF ServerInv, Connected
<1>8. CASE SendPacket
  BY <1>8, <1>s, ServerStays DEF SendPacket
<1>9. CASE StopSending
  <2>1. PICK pc \in {"drop", "serve"} : srv' = [srv EXCEPT !.pc = pc]
    BY <1>9 DEF StopSending, DropIf
  <2>2. UNCHANGED <<slot, post>> /\ srv.pc = "send" /\ post["server"].at = "idle"
    BY <1>9, <1>d DEF StopSending, ServerAt
  <2>3. /\ srv'.pc = pc /\ srv'.write = srv.write /\ srv'.i = srv.i
        /\ srv'.read = srv.read /\ srv'.left = srv.left
    BY <1>t, <2>1 DEF Servers
  <2> QED BY <1>s, <2>1, <2>2, <2>3 DEF ServerInv, Connected
<1>10. CASE DropClient
  <2>1. /\ srv.pc = "drop" /\ post["server"].at = "idle" /\ UNCHANGED post
        /\ slot' = [slot EXCEPT ![srv.i] = None]
    BY <1>10, <1>d DEF DropClient, Drop, ServerAt
  <2>2. srv' = [srv EXCEPT !.read = @ \ {srv.i}, !.pc = "serve"]
    BY <1>10 DEF DropClient, Forget
  <2>3. /\ srv'.pc = "serve" /\ srv'.write = srv.write /\ srv'.read = srv.read \ {srv.i}
        /\ srv'.left = srv.left
    BY <1>t, <2>2 DEF Servers
  <2>4. \A i \in Slot \ {srv.i} : slot'[i] = slot[i]
    BY <1>t, <2>1
  <2>5. srv'.write \subseteq Connected' /\ srv'.read \subseteq Connected'
    BY <1>s, <1>t, <2>1, <2>3, <2>4 DEF ServerInv, Connected
  <2>6. srv.i \notin srv.write /\ srv.left = <<>>
    BY <1>s, <2>1 DEF ServerInv
  <2> QED BY <1>d, <2>1, <2>3, <2>5, <2>6 DEF ServerInv
<1>11. CASE HandleCommand
  <2>1. PICK j \in srv.read : /\ j \in Connected
                              /\ NoCommand(j) \/ \E cmd \in Cmd : Takes(j, cmd)
    BY <1>11, CommandTaken
  <2>2. /\ UNCHANGED slot /\ srv.pc = "serve" /\ srv.write = {} /\ post["server"].at = "idle"
    BY <1>11, <1>d, CommandTaken DEF Serving, ServerAt
  <2>3. \/ \E pc \in {"drop", "serve"} : Handling(j, pc)
        \/ (\E us : Reply(j, us)) /\ UNCHANGED post
    BY <2>1 DEF NoCommand, Takes, Answers, Sets, Asks, Leaves
  <2>4. /\ srv'.write = {} /\ srv'.read = srv.read \ {j} /\ srv'.i = j
        /\ srv'.pc \in {"drop", "serve", "reply"} /\ (srv'.left # <<>> => srv'.pc = "reply")
    <3>1. srv.left = <<>>
      BY <1>s, <2>2 DEF ServerInv
    <3>2. ASSUME NEW pc, Handling(j, pc)
          PROVE  /\ srv'.write = {} /\ srv'.read = srv.read \ {j} /\ srv'.i = j
                 /\ srv'.pc = pc /\ srv'.left = srv.left
      BY <1>t, <2>2, <3>2 DEF Handling, Forget, Servers
    <3>3. ASSUME NEW us, Reply(j, us)
          PROVE  /\ srv'.write = {} /\ srv'.read = srv.read \ {j} /\ srv'.i = j
                 /\ srv'.pc = "reply"
      BY <1>t, <2>2, <3>3 DEF Reply, Forget, Servers
    <3> QED BY <2>3, <3>1, <3>2, <3>3
  <2>5. post' = post \/ srv'.pc = "serve"
    <3>1. Handling(j, "serve") => srv'.pc = "serve"
      BY <1>t DEF Handling, Forget, Servers
    <3> QED BY <2>1, <3>1 DEF NoCommand, Takes, Answers, Sets, Asks, Leaves
  <2> QED BY <1>s, <2>1, <2>2, <2>4, <2>5 DEF ServerInv, Connected
<1>12. CASE SendReply \/ ReplySent \/ ReplyFails
  <2>1. UNCHANGED <<slot, post>> /\ srv.pc = "reply" /\ post["server"].at = "idle"
    BY <1>12, <1>d DEF SendReply, ReplySent, ReplyFails, ServerAt, slots
  <2>2. /\ srv'.write = srv.write /\ srv'.read = srv.read /\ srv'.i = srv.i
        /\ srv'.pc \in {"reply", "serve", "drop"} /\ (srv'.left # <<>> => srv'.pc = "reply")
    <3>1. CASE SendReply
      BY <1>t, <2>1, <3>1 DEF SendReply, Servers
    <3>2. CASE ReplySent
      BY <1>t, <2>1, <3>2 DEF ReplySent, Servers
    <3>3. CASE ReplyFails
      BY <1>t, <2>1, <3>3 DEF ReplyFails, Servers
    <3> QED BY <1>12, <3>1, <3>2, <3>3
  <2> QED BY <1>s, <2>1, <2>2 DEF ServerInv, Connected
<1>13. CASE SendExit
  <2> DEFINE j == Least(Connected)
  <2>1. j \in Connected
    BY <1>13, LeastIn DEF SendExit, Connected
  <2>2. /\ srv' = [srv EXCEPT !.pc = "bye", !.i = j] /\ UNCHANGED <<slot, post>>
        /\ srv.pc = "exit" /\ post["server"].at = "idle"
    BY <1>13, <1>d DEF SendExit, ServerAt
  <2> HIDE DEF j
  <2>3. /\ srv'.pc = "bye" /\ srv'.write = srv.write /\ srv'.i = j
        /\ srv'.read = srv.read /\ srv'.left = srv.left
    BY <1>t, <2>2 DEF Servers
  <2> QED BY <1>s, <2>1, <2>2, <2>3 DEF ServerInv, Connected
<1>14. CASE DropExiting
  <2>1. /\ srv.pc = "bye" /\ post["server"].at = "idle" /\ UNCHANGED post
        /\ srv' = [srv EXCEPT !.pc = "exit"]
    BY <1>14, <1>d DEF DropExiting, ServerAt
  <2>2. /\ srv'.pc = "exit" /\ srv'.write = srv.write /\ srv'.read = srv.read
        /\ srv'.left = srv.left
    BY <1>t, <2>1 DEF Servers
  <2> QED BY <1>s, <2>1, <2>2 DEF ServerInv
<1>15. CASE ShutDown
  <2>1. /\ srv.pc = "exit" /\ UNCHANGED <<slot, post>> /\ srv' = [srv EXCEPT !.pc = "done"]
        /\ post["server"].at = "idle"
    BY <1>15, <1>d DEF ShutDown, ServerAt, slots
  <2>2. /\ srv'.pc = "done" /\ srv'.write = srv.write /\ srv'.read = srv.read
        /\ srv'.left = srv.left
    BY <1>t, <2>1 DEF Servers
  <2> QED BY <1>s, <2>1, <2>2 DEF ServerInv
<1>16. CASE (\E c \in Conn : Step(c)) \/ UNCHANGED vars
  <2>1. UNCHANGED post
    BY <1>16, PostsSame
  <2> QED BY <1>16, <1>s, <2>1, SlotsSame, ServerStays
<1> QED BY <1>1, <1>2, <1>3, <1>4, <1>5, <1>6, <1>7, <1>8, <1>9, <1>10, <1>11, <1>12, <1>13,
           <1>14, <1>15, <1>16, Steps DEF SendStep, ReplyStep, ExitStep

\* A packet that is put together stays as it is, as long as its thread, its
\* slot and its lock do.
LEMMA BufStays ==
  ASSUME BufInv, UNCHANGED buf,
         \A t \in Thread : post'[t] = post[t] \/ (post[t].at # "finish" /\ post'[t].at # "finish"),
         \A t \in Thread, i \in Slot : Filling(t, i) => lock'[i] = lock[i] /\ slot'[i] = slot[i]
  PROVE  BufInv'
<1>1. ASSUME NEW t \in Thread, NEW i \in Slot
      PROVE  /\ Filling(t, i)' <=> Filling(t, i)
             /\ Filling(t, i) => post'[t] = post[t]
  BY DEF Filling
<1>2. ASSUME NEW i \in Slot
      PROVE  /\ buf'[i] # <<>> => \E t \in Thread : Filling(t, i)'
             /\ \A t \in Thread : Filling(t, i)' => /\ lock'[i] = t /\ slot'[i] # None
                                                    /\ buf'[i] # <<>> /\ buf'[i][1] = post'[t].ev
             /\ \A k \in 2..Len(buf'[i]) : buf'[i][k].k \in {"pong", "exit"}
  BY <1>1 DEF BufInv
<1> QED BY <1>2 DEF BufInv

\* What is sent to a client whose packet is put together gets into the packet.
LEMMA BufGrows ==
  ASSUME TypeOK, BufInv, NEW i \in Connected, NEW u \in Unit, SendUnit(i, u),
         UNCHANGED <<post, lock, slot>>, buf[i] # <<>> => u.k \in {"pong", "exit"}
  PROVE  BufInv'
<1>1. CASE buf[i] = <<>>
  BY <1>1, BufStays DEF SendUnit
<1>2. CASE buf[i] # <<>>
  <2>1. buf[i] \in Seq(Unit) /\ i \in Slot /\ Len(buf[i]) \in Nat \ {0}
    BY <1>2, SlotTypes, EmptySeq
  <2>2. buf' = [buf EXCEPT ![i] = Append(buf[i], u)]
    BY <1>2 DEF SendUnit
  <2>3. /\ buf'[i] = Append(buf[i], u) /\ \A j \in Slot \ {i} : buf'[j] = buf[j]
    BY <2>1, <2>2 DEF TypeOK
  <2>4. /\ buf'[i] # <<>> /\ Len(buf'[i]) = Len(buf[i]) + 1
        /\ \A k \in 1..Len(buf[i]) : buf'[i][k] = buf[i][k]
        /\ buf'[i][Len(buf[i]) + 1] = u
    BY <2>1, <2>3, AppendProperties
  <2>5. buf'[i][1] = buf[i][1]
    BY <2>1, <2>4
  <2>6. \A k \in 2..Len(buf'[i]) : buf'[i][k].k \in {"pong", "exit"}
    <3>1. ASSUME NEW k \in 2..Len(buf'[i]) PROVE buf'[i][k].k \in {"pong", "exit"}
      <4>1. CASE k = Len(buf[i]) + 1
        BY <1>2, <2>4, <4>1
      <4>2. CASE k \in 2..Len(buf[i])
        BY <2>1, <2>4, <4>2 DEF BufInv
      <4> QED BY <2>1, <2>4, <4>1, <4>2
    <3> QED BY <3>1
  <2>7. ASSUME NEW j \in Slot, NEW t \in Thread PROVE Filling(t, j)' <=> Filling(t, j)
    BY DEF Filling
  <2>8. ASSUME NEW j \in Slot
        PROVE  /\ buf'[j] # <<>> => \E t \in Thread : Filling(t, j)'
               /\ \A t \in Thread : Filling(t, j)' => /\ lock'[j] = t /\ slot'[j] # None
                                                      /\ buf'[j] # <<>> /\ buf'[j][1] = post'[t].ev
               /\ \A k \in 2..Len(buf'[j]) : buf'[j][k].k \in {"pong", "exit"}
    <3>1. CASE j = i
      BY <1>2, <2>1, <2>4, <2>5, <2>6, <2>7, <3>1 DEF BufInv
    <3>2. CASE j # i
      BY <2>3, <2>7, <3>2 DEF BufInv
    <3> QED BY <3>1, <3>2
  <2> QED BY <2>8 DEF BufInv
<1> QED BY <1>1, <1>2

LEMMA BufStep ==
  ASSUME IInv, [Next]_vars
  PROVE  BufInv'
<1>t. /\ TypeOK /\ slot \in [Slot -> Conn \cup {None}] /\ lock \in [Slot -> Thread \cup {None}]
      /\ post \in [Thread -> Posts] /\ srv \in Servers /\ srv.i \in Slot
      /\ buf \in [Slot -> Seq(Unit)]
  BY DEF IInv, TypeOK, Servers
<1>s. ServerInv /\ PostInv /\ BufInv
  BY DEF IInv
<1>n. None \notin Thread /\ "server" \in Thread
  BY DEF Thread, None
<1>d. Idle.at = "idle"
  BY DEF Idle
\* Whose lock is free has no packet that is put together, nor has the
\* server's, unless it queues an event itself.
<1>l. ASSUME NEW t \in Thread, NEW i \in Slot, Filling(t, i)
      PROVE  /\ lock[i] = t /\ lock[i] # None /\ slot[i] # None
             /\ post["server"].at = "idle" => lock[i] # "server"
  BY <1>s, <1>n, <1>l DEF BufInv, Filling
<1>p. ASSUME NEW t \in Thread, NEW k, NEW who, NEW todo, StartPost(t, k, who, todo),
             post[t].at = "idle"
      PROVE  \A r \in Thread : post'[r] = post[r] \/ (post[r].at # "finish" /\ post'[r].at # "finish")
  BY <1>t, <1>p DEF StartPost
<1>1. ASSUME NEW t \in Thread, ThreadStep(t) PROVE BufInv'
  <2> DEFINE j == Next1(post[t])
  <2>1. \A r \in Thread \ {t} : post'[r] = post[r]
    BY <1>t, <1>1 DEF ThreadStep, PostCheck, PostFill, PostFinish, PostWake
  <2>2. CASE PostCheck(t)
    <3>1. post[t].at # "finish" /\ post'[t].at # "finish" /\ UNCHANGED <<buf, lock, slot>>
      BY <1>t, <2>2 DEF PostCheck, Done1, Posts, slots
    <3> QED BY <1>s, <2>1, <3>1, BufStays
  <2>3. CASE PostWake(t)
    <3>1. post[t].at # "finish" /\ post'[t].at # "finish" /\ UNCHANGED <<buf, lock, slot>>
      BY <1>t, <1>d, <2>3 DEF PostWake, slots
    <3> QED BY <1>s, <2>1, <3>1, BufStays
  <2>4. CASE PostFill(t)
    <3>1. CASE slot[j] = None
      <4>1. UNCHANGED <<post, buf, lock, slot>>
        BY <2>4, <3>1 DEF PostFill
      <4> QED BY <1>s, <4>1, BufStays
    <3>2. CASE slot[j] # None
      <4>1. /\ lock[j] = None /\ slot' = slot /\ post[t].at = "fill"
            /\ lock' = [lock EXCEPT ![j] = t] /\ buf' = [buf EXCEPT ![j] = <<post[t].ev>>]
            /\ post' = [post EXCEPT ![t] = [post[t] EXCEPT !.at = "finish"]]
        BY <1>t, <2>4, <3>2 DEF PostFill
      <4>2. post[t].todo # {} /\ post[t].todo \in SUBSET Slot
        BY <1>t, <1>s, <4>1 DEF PostInv, Posts
      <4>3. j \in Slot
        BY <4>2, LeastIn DEF Next1
      <4>4. post'[t].at = "finish" /\ post'[t].todo = post[t].todo /\ post'[t].ev = post[t].ev
        BY <1>t, <4>1 DEF Posts
      <4>5. Next1(post'[t]) = j
        BY <4>4 DEF Next1
      <4> HIDE DEF j
      <4>6. /\ lock'[j] = t /\ buf'[j] = <<post[t].ev>>
            /\ \A i \in Slot \ {j} : lock'[i] = lock[i] /\ buf'[i] = buf[i]
        BY <1>t, <4>1, <4>3
      <4>7. \A r \in Thread : ~Filling(r, j)
        BY <1>l, <4>1, <4>3
      <4>8. ASSUME NEW r \in Thread, NEW i \in Slot
            PROVE  Filling(r, i)' <=> (r = t /\ i = j) \/ (i # j /\ Filling(r, i))
        <5>1. CASE r = t
          BY <4>1, <4>4, <4>5, <4>7, <5>1 DEF Filling
        <5>2. CASE r # t
          BY <2>1, <4>7, <5>2 DEF Filling
        <5> QED BY <5>1, <5>2
      <4>9. ASSUME NEW i \in Slot
            PROVE  /\ buf'[i] # <<>> => \E r \in Thread : Filling(r, i)'
                   /\ \A r \in Thread : Filling(r, i)' => /\ lock'[i] = r /\ slot'[i] # None
                                                          /\ buf'[i] # <<>> /\ buf'[i][1] = post'[r].ev
                   /\ \A k \in 2..Len(buf'[i]) : buf'[i][k].k \in {"pong", "exit"}
        <5>1. CASE i = j
          <6>1. ASSUME NEW e PROVE <<e>> # <<>> /\ Len(<<e>>) = 1 /\ <<e>>[1] = e
            OBVIOUS
          <6>2. buf'[i] # <<>> /\ Len(buf'[i]) = 1 /\ buf'[i][1] = post[t].ev
            BY Zenon, <4>6, <5>1, <6>1
          <6>3. \A k \in 2..Len(buf'[i]) : FALSE
            BY <6>2
          <6> QED BY <3>2, <4>1, <4>4, <4>6, <4>8, <5>1, <6>2, <6>3
        <5>2. CASE i # j
          <6>1. ASSUME NEW r \in Thread, Filling(r, i) PROVE post'[r] = post[r]
            BY <2>1, <4>1, <6>1 DEF Filling
          <6> QED BY <1>s, <4>1, <4>6, <4>8, <5>2, <6>1 DEF BufInv
        <5> QED BY <5>1, <5>2
      <4> QED BY <4>9 DEF BufInv
    <3> QED BY <3>1, <3>2
  <2>5. CASE PostFinish(t)
    <3>1. /\ slot' = slot /\ post[t].at = "finish"
          /\ lock' = [lock EXCEPT ![j] = None] /\ buf' = [buf EXCEPT ![j] = <<>>]
          /\ post' = [post EXCEPT ![t] = Done1(post[t], TRUE)]
      BY <2>5 DEF PostFinish
    <3>2. post[t].todo # {} /\ post[t].todo \in SUBSET Slot
      BY <1>t, <1>s, <3>1 DEF PostInv, Posts
    <3>3. j \in Slot
      BY <3>2, LeastIn DEF Next1
    <3>4. post'[t].at = "check"
      BY <1>t, <3>1 DEF Done1, Posts
    <3>5. Filling(t, j)
      BY <3>1 DEF Filling
    <3> HIDE DEF j
    <3>6. /\ buf'[j] = <<>> /\ \A i \in Slot \ {j} : lock'[i] = lock[i] /\ buf'[i] = buf[i]
      BY <1>t, <3>1, <3>3
    <3>7. ASSUME NEW r \in Thread, NEW i \in Slot
          PROVE  Filling(r, i)' <=> i # j /\ Filling(r, i)
      <4>1. CASE r = t
        BY <3>4, <3>5, <4>1 DEF Filling
      <4>2. CASE r # t
        <5>1. ~Filling(r, j)
          BY <1>l, <3>3, <3>5, <4>2
        <5> QED BY <2>1, <4>2, <5>1 DEF Filling
      <4> QED BY <4>1, <4>2
    <3>8. ASSUME NEW i \in Slot
          PROVE  /\ buf'[i] # <<>> => \E r \in Thread : Filling(r, i)'
                 /\ \A r \in Thread : Filling(r, i)' => /\ lock'[i] = r /\ slot'[i] # None
                                                        /\ buf'[i] # <<>> /\ buf'[i][1] = post'[r].ev
                 /\ \A k \in 2..Len(buf'[i]) : buf'[i][k].k \in {"pong", "exit"}
      <4>1. CASE i = j
        <5>1. Len(buf'[i]) = 0
          BY <3>6, <4>1
        <5>2. \A k \in 2..Len(buf'[i]) : FALSE
          BY <5>1
        <5>3. buf'[i] = <<>> /\ \A r \in Thread : ~Filling(r, i)'
          BY <3>6, <3>7, <4>1
        <5> QED BY Zenon, <5>2, <5>3
      <4>2. CASE i # j
        <5>1. ASSUME NEW r \in Thread, Filling(r, i) PROVE post'[r] = post[r]
          BY <2>1, <3>5, <4>2, <5>1 DEF Filling
        <5>2. lock'[i] = lock[i] /\ buf'[i] = buf[i] /\ slot'[i] = slot[i]
          BY <3>1, <3>6, <4>2
        <5>3. \A r \in Thread : Filling(r, i)' <=> Filling(r, i)
          BY <3>7, <4>2
        <5> QED BY <1>s, <5>1, <5>2, <5>3 DEF BufInv
      <4> QED BY <4>1, <4>2
    <3> QED BY <3>8 DEF BufInv
  <2> QED BY <1>1, <2>2, <2>3, <2>4, <2>5 DEF ThreadStep
<1>2. CASE PlayerEvent
  <2>1. UNCHANGED <<buf, lock, slot>> /\ post["player"].at = "idle"
    BY <1>2, <1>d DEF PlayerEvent, slots
  <2> QED BY <1>2, <1>p, <1>s, <2>1, BufStays DEF PlayerEvent, Thread
<1>3. ASSUME NEW i \in Slot, TagsAnswer(i) PROVE BufInv'
  <2>1. UNCHANGED <<buf, lock, slot>> /\ post["tags"].at = "idle"
    BY <1>3, <1>d DEF TagsAnswer
  <2> QED BY <1>3, <1>p, <1>s, <2>1, BufStays DEF TagsAnswer, Thread
<1>4. CASE UNCHANGED <<post, buf, lock, slot>>
  BY <1>4, <1>s, BufStays
<1>5. CASE Select
  <2>1. UNCHANGED <<post, buf, lock>>
    BY <1>5 DEF Select
  <2>2. slot' = slot \/ \E f \in Slot \ Connected, c \in Conn : slot' = [slot EXCEPT ![f] = c]
    BY <1>5, SlotTaken DEF Admits, Turns
  <2>3. \A i \in Connected : slot'[i] = slot[i]
    BY <1>t, <2>2 DEF Connected
  <2> QED BY <1>l, <1>s, <2>1, <2>3, BufStays DEF Connected
<1>6. CASE SendEvents
  <2>1. PICK j \in Slot : lock[j] = None /\ lock' = [lock EXCEPT ![j] = "server"]
    BY <1>6, <1>t, LeastIn DEF SendEvents, Servers
  <2>2. UNCHANGED <<post, buf, slot>>
    BY <1>6 DEF SendEvents
  <2>3. \A i \in Slot : lock[i] # None => lock'[i] = lock[i]
    BY <1>t, <2>1
  <2> QED BY <1>l, <1>s, <2>2, <2>3, BufStays
<1>7. CASE StopSending \/ ReplySent \/ ReplyFails
  <2>1. UNCHANGED <<post, buf, slot>> /\ post["server"].at = "idle" /\ lock' = Unlocked(srv.i)
    BY <1>7, <1>d DEF StopSending, ReplySent, ReplyFails, ServerAt
  <2>2. \A i \in Slot : lock[i] # "server" => lock'[i] = lock[i]
    BY <1>t, <2>1 DEF Unlocked
  <2> QED BY <1>l, <1>s, <2>1, <2>2, BufStays
<1>8. CASE DropClient \/ DropExiting
  <2>1. UNCHANGED <<post, buf, lock>> /\ lock[srv.i] = None /\ slot' = [slot EXCEPT ![srv.i] = None]
    BY <1>8 DEF DropClient, DropExiting, Drop
  <2>2. \A i \in Slot : lock[i] # None => slot'[i] = slot[i]
    BY <1>t, <2>1
  <2> QED BY <1>l, <1>s, <2>1, <2>2, BufStays
<1>9. CASE HandleCommand
  <2>1. PICK j \in srv.read : /\ j \in Connected
                              /\ NoCommand(j) \/ \E cmd \in Cmd : Takes(j, cmd)
    BY <1>9, CommandTaken
  <2>2. UNCHANGED <<slot, buf>> /\ post["server"].at = "idle"
    BY <1>9, <1>d, CommandTaken DEF Serving, ServerAt
  <2>3. post' = post \/ StartPost("server", "event", "server", Slot)
    BY <2>1 DEF NoCommand, Takes, Answers, Sets, Asks, Leaves
  <2>4. lock' = lock \/ (lock[j] = None /\ lock' = [lock EXCEPT ![j] = "server"])
    BY <2>1 DEF NoCommand, Takes
  <2>5. \A i \in Slot : lock[i] # None => lock'[i] = lock[i]
    BY <1>t, <2>4
  <2>6. \A r \in Thread : post'[r] = post[r] \/ (post[r].at # "finish" /\ post'[r].at # "finish")
    BY <1>n, <1>p, <2>2, <2>3
  <2> QED BY <1>l, <1>s, <2>2, <2>5, <2>6, BufStays
<1>10. CASE SendReply
  <2> DEFINE i == srv.i
  <2>1. /\ i \in Connected /\ srv.pc = "reply" /\ post["server"].at = "idle" /\ srv.left # <<>>
        /\ SendUnit(i, Head(srv.left)) /\ UNCHANGED <<post, lock, slot>>
    BY <1>10, <1>s, <1>d DEF SendReply, ServerAt, ServerInv
  <2>2. srv.left \in {Pong, Answer, Rest} /\ (srv.left \in {Answer, Rest} => lock[i] = "server")
    BY <2>1 DEF IInv, PingInv, Answering, Replying
  <2>3. Head(srv.left) \in Unit /\ (srv.left = Pong => Head(srv.left).k = "pong")
    BY <2>2, Replies, PlainUnits
  <2>4. buf[i] # <<>> => srv.left = Pong
    <3>1. i \in Slot
      BY <1>t
    <3> QED BY <1>l, <1>s, <2>1, <2>2, <3>1 DEF BufInv
  <2> QED BY <1>t, <1>s, <2>1, <2>3, <2>4, BufGrows
<1>11. CASE SendExit
  <2> DEFINE i == Least(Connected)
  <2>1. i \in Connected
    BY <1>11, LeastIn DEF SendExit, Connected
  <2>2. UNCHANGED <<post, lock, slot>> /\ (buf' = buf \/ SendUnit(i, Plain("exit")))
    BY <1>11 DEF SendExit
  <2>3. Plain("exit") \in Unit /\ Plain("exit").k = "exit"
    BY PlainUnits
  <2> HIDE DEF i
  <2> QED BY <1>t, <1>s, <2>1, <2>2, <2>3, BufStays, BufGrows
<1>12. CASE Turn \/ SignalQuit \/ SendPacket \/ ShutDown \/ (\E c \in Conn : Step(c)) \/ UNCHANGED vars
  <2>1. UNCHANGED post
    BY <1>12, PostsSame DEF SendStep, ExitStep
  <2>2. UNCHANGED <<buf, lock, slot>>
    BY <1>12, SlotsSame DEF Turn, SignalQuit, SendPacket, ShutDown, slots
  <2> QED BY <1>4, <2>1, <2>2
<1> QED BY <1>1, <1>2, <1>3, <1>5, <1>6, <1>7, <1>8, <1>9, <1>10, <1>11, <1>12, Steps
        DEF SendStep, ReplyStep, ExitStep

\* Slots that lose their clients, and what is sent to and read from clients.
LEMMA PlaceStays ==
  ASSUME TypeOK, PlaceInv, UNCHANGED <<proc, backlog>>,
         \A i \in Slot : slot'[i] = slot[i] \/ slot'[i] = None,
         \A d \in Conn : (\A i \in Slot : slot[i] # d) => down'[d] = down[d] /\ up'[d] = up[d]
  PROVE  PlaceInv'
<1>1. \A k \in DOMAIN backlog : backlog[k] \in Conn
  BY ElementOfSeq, LenProperties DEF TypeOK
<1>2. \A i \in Connected' : i \in Connected /\ slot'[i] = slot[i]
  BY DEF Connected
<1>3. \A i, j \in Connected' : slot'[i] = slot'[j] => i = j
  BY <1>2 DEF PlaceInv
<1>4. \A k \in DOMAIN backlog : \A i \in Slot : slot'[i] # backlog[k]
  BY <1>1, ServerAssumption DEF PlaceInv
<1>5. \A k \in DOMAIN backlog :
        /\ proc[backlog[k]].at \in {"pinging", "gone"} /\ down'[backlog[k]] = <<>>
        /\ proc[backlog[k]].at = "pinging" => up'[backlog[k]] = <<"ping">>
  BY <1>1 DEF PlaceInv
<1>6. \A c \in Conn : proc[c].at = "out" => /\ \A i \in Slot : slot'[i] # c
                                           /\ down'[c] = <<>> /\ up'[c] = <<>>
  BY ServerAssumption DEF PlaceInv
<1> QED BY <1>3, <1>4, <1>5, <1>6 DEF PlaceInv, Past

\* A step of a process that has its place.
LEMMA PlaceMoves ==
  ASSUME TypeOK, PlaceInv, NEW c \in Conn, UNCHANGED <<slot, backlog>>,
         \A d \in Conn \ {c} : proc'[d] = proc[d] /\ down'[d] = down[d] /\ up'[d] = up[d],
         proc'[c].at # "out", Past(c)' \/ proc'[c].last = [t \in Thread |-> 0],
         (\A k \in DOMAIN backlog : backlog[k] # c) \/ (proc'[c].at = "gone" /\ down'[c] = <<>>)
  PROVE  PlaceInv'
<1>1. \A k \in DOMAIN backlog : backlog[k] \in Conn
  BY ElementOfSeq, LenProperties DEF TypeOK
<1>2. \A i, j \in Connected' : slot'[i] = slot'[j] => i = j
  BY DEF Connected, PlaceInv
<1>3. \A k \in DOMAIN backlog :
        /\ proc'[backlog[k]].at \in {"pinging", "gone"} /\ down'[backlog[k]] = <<>>
        /\ proc'[backlog[k]].at = "pinging" => up'[backlog[k]] = <<"ping">>
  BY <1>1 DEF PlaceInv
<1>4. \A d \in Conn : proc'[d].at = "out" => /\ \A i \in Slot : slot'[i] # d
                                            /\ down'[d] = <<>> /\ up'[d] = <<>>
  BY DEF PlaceInv
<1>5. ASSUME NEW d \in Conn, ~Past(d)' PROVE proc'[d].last = [t \in Thread |-> 0]
  BY <1>5 DEF PlaceInv, Past
<1>6. \A j, k \in DOMAIN backlog' : backlog'[j] = backlog'[k] => j = k
  BY DEF PlaceInv
<1>7. \A k \in DOMAIN backlog' : \A i \in Slot : slot'[i] # backlog'[k]
  BY DEF PlaceInv
<1> QED BY <1>2, <1>3, <1>4, <1>5, <1>6, <1>7 DEF PlaceInv

LEMMA PlaceStep ==
  ASSUME IInv, [Next]_vars
  PROVE  PlaceInv'
<1>t. /\ TypeOK /\ slot \in [Slot -> Conn \cup {None}] /\ backlog \in Seq(Conn)
      /\ down \in [Conn -> Seq(Unit)] /\ up \in [Conn -> Seq(Cmd)]
      /\ srv \in Servers /\ srv.i \in Slot /\ proc \in [Conn -> Processes]
  BY DEF IInv, TypeOK, Servers
<1>s. PlaceInv /\ ServerInv
  BY DEF IInv
<1>b. /\ Len(backlog) \in Nat /\ DOMAIN backlog = 1..Len(backlog)
      /\ \A k \in DOMAIN backlog : backlog[k] \in Conn
  BY <1>t, ElementOfSeq, LenProperties
<1>1. CASE UNCHANGED <<proc, backlog, slot, down, up>>
  BY <1>1, <1>s, <1>t, PlaceStays
<1>2. CASE SendPacket \/ StopSending \/ SendReply \/ SendExit
  <2>1. UNCHANGED <<proc, backlog, slot, up>>
    BY <1>2 DEF SendPacket, StopSending, SendReply, SendExit
  <2>2. \E i \in Slot : \E s : down' = down \/ down' = [down EXCEPT ![slot[i]] = s]
    <3>1. CASE SendPacket \/ StopSending
      BY <1>t, <3>1 DEF SendPacket, StopSending
    <3>2. CASE SendReply
      BY <1>t, <3>2 DEF SendReply, SendUnit
    <3>3. CASE SendExit
      <4>1. Least(Connected) \in Slot
        BY <3>3, LeastIn DEF SendExit, Connected
      <4>2. down' = down \/ SendUnit(Least(Connected), Plain("exit"))
        BY <3>3 DEF SendExit
      <4> QED BY <4>1, <4>2 DEF SendUnit
    <3> QED BY <1>2, <3>1, <3>2, <3>3
  <2>3. \A d \in Conn : (\A i \in Slot : slot[i] # d) => down'[d] = down[d]
    BY <1>t, <2>2
  <2> QED BY <1>s, <1>t, <2>1, <2>3, PlaceStays
<1>3. CASE HandleCommand
  <2>1. PICK j \in srv.read : /\ j \in Connected
                              /\ NoCommand(j) \/ \E cmd \in Cmd : Takes(j, cmd)
    BY <1>3, CommandTaken
  <2>2. UNCHANGED <<proc, backlog, slot, down>>
    BY <1>3, CommandTaken
  <2>3. \E s : up' = up \/ up' = [up EXCEPT ![slot[j]] = s]
    BY <2>1 DEF NoCommand, Takes
  <2>4. \A d \in Conn : (\A i \in Slot : slot[i] # d) => up'[d] = up[d]
    BY <1>t, <2>1, <2>3 DEF Connected
  <2> QED BY <1>s, <1>t, <2>2, <2>4, PlaceStays
<1>4. CASE DropClient \/ DropExiting
  <2>1. UNCHANGED <<proc, backlog, down, up>> /\ slot' = [slot EXCEPT ![srv.i] = None]
    BY <1>4 DEF DropClient, DropExiting, Drop
  <2>2. \A i \in Slot : slot'[i] = slot[i] \/ slot'[i] = None
    BY <1>t, <2>1
  <2> QED BY <1>s, <1>t, <2>1, <2>2, PlaceStays
<1>5. CASE ShutDown
  <2>1. UNCHANGED <<proc, down, up, slot>> /\ DOMAIN backlog' = {}
    BY <1>5 DEF ShutDown, slots
  <2> QED BY <1>s, <2>1 DEF PlaceInv, Past, Connected
<1>6. CASE Select
  <2>1. UNCHANGED <<proc, up>>
    BY <1>6 DEF Select
  <2>2. CASE UNCHANGED <<slot, packets, queue, down, open, backlog>>
    BY <1>1, <2>1, <2>2
  <2>3. CASE /\ backlog # <<>> /\ backlog[1] \in Conn /\ 1 \in DOMAIN backlog
             /\ backlog' = Tail(backlog)
             /\ Turns(backlog[1]) \/ \E f \in Slot \ Connected : Admits(f, backlog[1])
    <3> DEFINE c == backlog[1]
    <3>1. \A k \in DOMAIN backlog' : /\ k + 1 \in DOMAIN backlog /\ k \in Nat
                                     /\ backlog'[k] = backlog[k + 1] /\ backlog'[k] # c
                                     /\ backlog'[k] \in Conn
      <4>1. /\ Tail(backlog) \in Seq(Conn) /\ Len(Tail(backlog)) = Len(backlog) - 1
            /\ \A k \in 1..Len(Tail(backlog)) : Tail(backlog)[k] = backlog[k + 1]
        BY <1>t, <2>3, HeadTailProperties
      <4>2. DOMAIN backlog' = 1..Len(backlog) - 1
        BY <2>3, <4>1, LenProperties
      <4>3. ASSUME NEW k \in 1..Len(backlog) - 1
            PROVE  /\ k + 1 \in DOMAIN backlog /\ k \in Nat /\ k + 1 # 1
                   /\ backlog'[k] = backlog[k + 1]
        BY <1>b, <2>3, <4>1
      <4> QED BY <1>b, <1>s, <2>3, <4>2, <4>3 DEF PlaceInv
    <3>2. \A j, k \in DOMAIN backlog' : backlog'[j] = backlog'[k] => j = k
      BY <1>s, <3>1 DEF PlaceInv
    <3>3. /\ proc[c].at \in {"pinging", "gone"} /\ \A i \in Slot : slot[i] # c
      BY <1>s, <2>3 DEF PlaceInv
    <3>4. CASE Turns(c)
      <4>1. slot' = slot /\ \A d \in Conn \ {c} : down'[d] = down[d]
        BY <1>t, <3>4 DEF Turns
      <4> HIDE DEF c
      <4>2. \A k \in DOMAIN backlog' : \A i \in Slot : slot'[i] # backlog'[k]
        BY <1>s, <3>1, <4>1 DEF PlaceInv
      <4>3. \A k \in DOMAIN backlog' :
              /\ proc[backlog'[k]].at \in {"pinging", "gone"} /\ down'[backlog'[k]] = <<>>
              /\ proc[backlog'[k]].at = "pinging" => up[backlog'[k]] = <<"ping">>
        BY <1>s, <3>1, <4>1 DEF PlaceInv
      <4>4. \A d \in Conn : proc[d].at = "out" => /\ \A i \in Slot : slot'[i] # d
                                                 /\ down'[d] = <<>> /\ up[d] = <<>>
        BY <1>s, <3>3, <4>1 DEF PlaceInv
      <4>5. \A i, j \in Connected' : slot'[i] = slot'[j] => i = j
        BY <1>s, <4>1 DEF PlaceInv, Connected
      <4>6. \A d \in Conn : ~Past(d)' => proc'[d].last = [t \in Thread |-> 0]
        BY <1>s, <2>1 DEF PlaceInv, Past
      <4> QED BY <2>1, <3>2, <4>2, <4>3, <4>4, <4>5, <4>6 DEF PlaceInv
    <3>5. ASSUME NEW f \in Slot \ Connected, Admits(f, c) PROVE PlaceInv'
      <4>1. /\ slot'[f] = c /\ down' = down /\ \A i \in Slot \ {f} : slot'[i] = slot[i]
        BY <1>t, <3>5 DEF Admits
      <4> HIDE DEF c
      <4>2. \A k \in DOMAIN backlog' : \A i \in Slot : slot'[i] # backlog'[k]
        BY <1>s, <3>1, <4>1 DEF PlaceInv
      <4>3. \A k \in DOMAIN backlog' :
              /\ proc[backlog'[k]].at \in {"pinging", "gone"} /\ down'[backlog'[k]] = <<>>
              /\ proc[backlog'[k]].at = "pinging" => up[backlog'[k]] = <<"ping">>
        BY <1>s, <3>1, <4>1 DEF PlaceInv
      <4>4. \A d \in Conn : proc[d].at = "out" => /\ \A i \in Slot : slot'[i] # d
                                                 /\ down'[d] = <<>> /\ up[d] = <<>>
        BY <1>s, <3>3, <4>1 DEF PlaceInv
      <4>5. ASSUME NEW i \in Connected', NEW j \in Connected', slot'[i] = slot'[j] PROVE i = j
        <5>1. i \in Slot /\ j \in Slot /\ slot'[i] # None
          BY DEF Connected
        <5>2. CASE i = f \/ j = f
          BY <3>3, <4>1, <4>5, <5>1, <5>2
        <5>3. CASE i # f /\ j # f
          BY <1>s, <4>1, <4>5, <5>1, <5>3 DEF PlaceInv, Connected
        <5> QED BY <5>2, <5>3
      <4>6. \A d \in Conn : ~Past(d)' => proc'[d].last = [t \in Thread |-> 0]
        BY <1>s, <2>1 DEF PlaceInv, Past
      <4>7. \A i, j \in Connected' : slot'[i] = slot'[j] => i = j
        BY <4>5
      <4> QED BY <2>1, <3>2, <4>2, <4>3, <4>4, <4>6, <4>7 DEF PlaceInv
    <3> QED BY <2>3, <3>4, <3>5
  <2> QED BY <1>6, <2>2, <2>3, SlotTaken
<1>7. ASSUME NEW c \in Conn, Step(c) PROVE PlaceInv'
  <2>1. slot' = slot
    BY <1>7, SlotsSame
  <2>2. proc[c] \in Processes
    BY <1>t
  <2>g. ASSUME Gone(c)
        PROVE  /\ proc'[c].at = "gone" /\ proc'[c].last = [t \in Thread |-> 0] /\ down'[c] = <<>>
               /\ \A d \in Conn \ {c} : proc'[d] = proc[d] /\ down'[d] = down[d]
    BY <1>t, <2>2, <2>g DEF Gone, Processes
  <2>3. CASE Connect(c)
    <3>1. /\ proc[c].at = "out" /\ proc' = [proc EXCEPT ![c] = [proc[c] EXCEPT !.at = "pinging"]]
          /\ backlog' = Append(backlog, c) /\ up' = [up EXCEPT ![c] = <<"ping">>] /\ down' = down
      BY <1>t, <2>3 DEF Connect, Goes
    <3>2. /\ proc'[c].at = "pinging" /\ proc'[c].last = proc[c].last /\ up'[c] = <<"ping">>
          /\ \A d \in Conn \ {c} : proc'[d] = proc[d] /\ up'[d] = up[d]
      BY <1>t, <2>2, <3>1 DEF Processes
    <3>3. /\ \A i \in Slot : slot[i] # c
          /\ down[c] = <<>> /\ proc[c].last = [t \in Thread |-> 0]
      BY <1>s, <3>1 DEF PlaceInv, Past
    <3>4. \A k \in DOMAIN backlog : backlog[k] # c
      BY <1>s, <3>1 DEF PlaceInv
    <3>5. /\ DOMAIN backlog' = 1..Len(backlog) + 1 /\ backlog'[Len(backlog) + 1] = c
          /\ \A k \in DOMAIN backlog : backlog'[k] = backlog[k]
      BY <1>t, <1>b, <3>1, AppendProperties, LenProperties
    <3>6. \A k \in DOMAIN backlog' : k \in DOMAIN backlog \/ k = Len(backlog) + 1
      BY <1>b, <3>5
    <3>7. \A j, k \in DOMAIN backlog' : backlog'[j] = backlog'[k] => j = k
      BY <1>s, <3>4, <3>5, <3>6 DEF PlaceInv
    <3>8. \A k \in DOMAIN backlog' : \A i \in Slot : slot'[i] # backlog'[k]
      BY <1>s, <2>1, <3>3, <3>5, <3>6 DEF PlaceInv
    <3>9. \A k \in DOMAIN backlog' :
            /\ proc'[backlog'[k]].at \in {"pinging", "gone"} /\ down'[backlog'[k]] = <<>>
            /\ proc'[backlog'[k]].at = "pinging" => up'[backlog'[k]] = <<"ping">>
      <4>1. ASSUME NEW k \in DOMAIN backlog
            PROVE  /\ proc'[backlog'[k]] = proc[backlog[k]] /\ down'[backlog'[k]] = down[backlog[k]]
                   /\ up'[backlog'[k]] = up[backlog[k]]
        BY <1>b, <3>1, <3>2, <3>4, <3>5
      <4> QED BY <1>s, <3>1, <3>2, <3>3, <3>5, <3>6, <4>1 DEF PlaceInv
    <3>10. \A d \in Conn : proc'[d].at = "out" => /\ \A i \in Slot : slot'[i] # d
                                                 /\ down'[d] = <<>> /\ up'[d] = <<>>
      BY <1>s, <2>1, <3>1, <3>2 DEF PlaceInv
    <3>11. \A d \in Conn : ~Past(d)' => proc'[d].last = [t \in Thread |-> 0]
      BY <1>s, <3>2, <3>3 DEF PlaceInv, Past
    <3>12. \A i, j \in Connected' : slot'[i] = slot'[j] => i = j
      BY <1>s, <2>1 DEF PlaceInv, Connected
    <3> QED BY <3>7, <3>8, <3>9, <3>10, <3>11, <3>12 DEF PlaceInv
  <2>4. CASE ReadPong(c)
    <3>1. down[c] # <<>> /\ UNCHANGED <<up, backlog>>
      BY <2>4 DEF ReadPong
    <3>2. \A k \in DOMAIN backlog : backlog[k] # c
      BY <1>s, <3>1 DEF PlaceInv
    <3>3. CASE Gone(c)
      BY <1>s, <1>t, <2>1, <2>g, <3>1, <3>2, <3>3, PlaceMoves
    <3>4. CASE Goes(c, "open") /\ down' = [down EXCEPT ![c] = Tail(@)]
      <4>1. /\ proc'[c].at = "open" /\ \A d \in Conn \ {c} : proc'[d] = proc[d] /\ down'[d] = down[d]
        BY <1>t, <2>2, <3>4 DEF Goes, Processes
      <4>2. Past(c)'
        BY <4>1 DEF Past
      <4> QED BY <1>s, <1>t, <2>1, <3>1, <3>2, <4>1, <4>2, PlaceMoves
    <3> QED BY <2>4, <3>3, <3>4 DEF ReadPong
  <2>5. CASE SendCommand(c) \/ ReadMessage(c) \/ \E cmd \in Commands[c] : Wants(c, cmd)
    <3>1. Past(c) /\ backlog' = backlog
      BY <2>5 DEF SendCommand, ReadMessage, Wants, Past
    <3>2. \A k \in DOMAIN backlog : backlog[k] # c
      BY <1>s, <3>1 DEF PlaceInv, Past
    <3>3. \A d \in Conn \ {c} : proc'[d] = proc[d] /\ down'[d] = down[d] /\ up'[d] = up[d]
      BY <1>t, <2>5 DEF SendCommand, ReadMessage, Wants
    <3>4. Past(c)'
      BY <1>t, <2>2, <2>5 DEF SendCommand, ReadMessage, Wants, Past, Processes
    <3>5. proc'[c].at # "out"
      BY <3>4 DEF Past
    <3> QED BY <1>s, <1>t, <2>1, <3>1, <3>2, <3>3, <3>4, <3>5, PlaceMoves
  <2>6. CASE Ends(c) \/ Die(c)
    <3>1. Gone(c) /\ UNCHANGED <<up, backlog>>
      BY <2>6 DEF Ends, Die
    <3> QED BY <1>s, <1>t, <2>1, <2>g, <3>1, PlaceMoves
  <2> QED BY <1>7, <2>3, <2>4, <2>5, <2>6 DEF Step
<1>8. CASE \/ \E t \in Thread : ThreadStep(t)
           \/ PlayerEvent \/ \E i \in Slot : TagsAnswer(i)
           \/ Turn \/ SignalQuit \/ SendEvents \/ ReplySent \/ ReplyFails \/ UNCHANGED vars
  <2>1. UNCHANGED <<proc, backlog, slot, down, up>>
    BY <1>8 DEF ThreadStep, PostCheck, PostFill, PostFinish, PostWake, PlayerEvent, TagsAnswer,
                Turn, SignalQuit, SendEvents, ReplySent, ReplyFails, vars, sockets, slots
  <2> QED BY <1>1, <2>1
<1> QED BY <1>2, <1>3, <1>4, <1>5, <1>6, <1>7, <1>8, Steps DEF SendStep, ReplyStep, ExitStep

\* Requests are asked by the slot's client, and are gone with it.
LEMMA QueueStep ==
  ASSUME IInv, [Next]_vars
  PROVE  QueueIsOwn'
<1>t. /\ slot \in [Slot -> Conn \cup {None}] /\ queue \in [Slot -> Seq(Conn)] /\ srv.i \in Slot
  BY DEF IInv, TypeOK, Servers
<1>s. QueueIsOwn
  BY DEF IInv
<1>1. CASE UNCHANGED <<slot, queue>>
  BY <1>1, <1>s DEF QueueIsOwn
<1>c. ASSUME NEW i \in Slot, NEW c, slot' = [slot EXCEPT ![i] = c], queue' = [queue EXCEPT ![i] = <<>>]
      PROVE  QueueIsOwn'
  <2>1. queue'[i] = <<>> /\ \A j \in Slot \ {i} : queue'[j] = queue[j] /\ slot'[j] = slot[j]
    BY <1>t, <1>c
  <2>2. DOMAIN queue'[i] = {}
    BY <2>1
  <2> QED BY <1>s, <2>1, <2>2 DEF QueueIsOwn
<1>2. CASE Select
  <2>1. UNCHANGED <<slot, queue>> \/ \E f \in Slot \ Connected : Admits(f, backlog[1])
    BY <1>2, SlotTaken DEF Turns
  <2> QED BY <1>1, <1>c, <2>1 DEF Admits
<1>3. CASE DropClient \/ DropExiting
  <2>1. Drop(srv.i)
    BY <1>3 DEF DropClient, DropExiting
  <2> QED BY <1>c, <1>t, <2>1 DEF Drop, Cleared
<1>4. ASSUME NEW i \in Slot, TagsAnswer(i) PROVE QueueIsOwn'
  <2>1. queue[i] # <<>> /\ slot' = slot /\ queue' = [queue EXCEPT ![i] = Tail(queue[i])]
    BY <1>4 DEF TagsAnswer
  <2>2. /\ Tail(queue[i]) \in Seq(Conn) /\ Len(Tail(queue[i])) = Len(queue[i]) - 1
        /\ \A k \in 1..Len(Tail(queue[i])) : Tail(queue[i])[k] = queue[i][k + 1]
        /\ Len(queue[i]) \in Nat /\ DOMAIN queue[i] = 1..Len(queue[i])
    BY <1>t, <2>1, HeadTailProperties, LenProperties
  <2>3. queue'[i] = Tail(queue[i]) /\ \A j \in Slot \ {i} : queue'[j] = queue[j]
    BY <1>t, <2>1
  <2>4. \A k \in DOMAIN queue'[i] : k + 1 \in DOMAIN queue[i] /\ queue'[i][k] = queue[i][k + 1]
    BY <2>2, <2>3, LenProperties
  <2> QED BY <1>s, <2>1, <2>3, <2>4 DEF QueueIsOwn
<1>5. CASE HandleCommand
  <2>1. PICK j \in srv.read : /\ j \in Connected
                              /\ NoCommand(j) \/ \E cmd \in Cmd : Takes(j, cmd)
    BY <1>5, CommandTaken
  <2>2. slot' = slot /\ j \in Slot /\ slot[j] \in Conn
    BY <1>5, <1>t, <2>1, CommandTaken DEF Connected
  <2>3. queue' = queue \/ queue' = [queue EXCEPT ![j] = Append(queue[j], slot[j])]
    BY <2>1 DEF NoCommand, Takes, Answers, Sets, Asks, Leaves
  <2>4. CASE queue' = [queue EXCEPT ![j] = Append(queue[j], slot[j])]
    <3>1. queue'[j] = Append(queue[j], slot[j]) /\ \A i \in Slot \ {j} : queue'[i] = queue[i]
      BY <1>t, <2>2, <2>4
    <3>2. /\ Len(queue[j]) \in Nat /\ DOMAIN queue[j] = 1..Len(queue[j])
          /\ DOMAIN queue'[j] = 1..Len(queue[j]) + 1
          /\ \A k \in DOMAIN queue[j] : queue'[j][k] = queue[j][k]
          /\ queue'[j][Len(queue[j]) + 1] = slot[j]
      BY <1>t, <2>2, <3>1, AppendProperties, LenProperties
    <3>3. \A k \in DOMAIN queue'[j] : k \in DOMAIN queue[j] \/ k = Len(queue[j]) + 1
      BY <3>2
    <3> QED BY <1>s, <2>2, <3>1, <3>2, <3>3 DEF QueueIsOwn
  <2> QED BY <1>1, <2>2, <2>3, <2>4
<1>6. CASE \/ \E t \in Thread : ThreadStep(t)
           \/ PlayerEvent \/ Turn \/ SignalQuit \/ SendStep \/ SendReply \/ ReplySent \/ ReplyFails
           \/ SendExit \/ ShutDown \/ (\E c \in Conn : Step(c)) \/ UNCHANGED vars
  <2>1. UNCHANGED <<slot, queue>>
    BY <1>6, SlotsSame DEF ThreadStep, PostCheck, PostFill, PostFinish, PostWake, Turn, SignalQuit,
       SendStep, SendEvents, SendPacket, StopSending, SendReply, ReplySent, ReplyFails, SendExit,
       ShutDown, sockets, slots
  <2> QED BY <1>1, <2>1
<1> QED BY <1>2, <1>3, <1>4, <1>5, <1>6, Steps DEF ReplyStep, ExitStep

-----------------------------------------------------------------------------
(* What is put on a socket                                                 *)

Grows(c, s) == down' = [down EXCEPT ![c] = down[c] \o s]

LEMMA GrownSocket ==
  ASSUME TypeOK, NEW c \in Conn, NEW s \in Seq(Unit), Grows(c, s)
  PROVE  /\ down'[c] = down[c] \o s /\ \A d \in Conn \ {c} : down'[d] = down[d]
         /\ down[c] \in Seq(Unit) /\ Len(down[c]) \in Nat /\ Len(s) \in Nat
         /\ down'[c] \in Seq(Unit) /\ Len(down'[c]) = Len(down[c]) + Len(s)
         /\ \A k \in 1..Len(down[c]) : down'[c][k] = down[c][k]
         /\ \A k \in 1..Len(s) : down'[c][Len(down[c]) + k] = s[k]
         /\ down[c] = <<>> <=> Len(down[c]) = 0
         /\ s = <<>> <=> Len(s) = 0
         /\ down'[c] = <<>> <=> Len(down'[c]) = 0
<1>1. down'[c] = down[c] \o s /\ \A d \in Conn \ {c} : down'[d] = down[d]
  BY DEF TypeOK, Grows
<1>2. down[c] \in Seq(Unit) /\ Len(down[c]) \in Nat /\ Len(s) \in Nat
  BY LenProperties DEF TypeOK
<1>3. PICK r : r = down[c] \o s
  OBVIOUS
<1>4. /\ r \in Seq(Unit) /\ Len(r) = Len(down[c]) + Len(s)
      /\ \A k \in 1..Len(down[c]) + Len(s) :
           r[k] = IF k <= Len(down[c]) THEN down[c][k] ELSE s[k - Len(down[c])]
  BY <1>2, <1>3, ConcatProperties
<1>5. \A k \in 1..Len(down[c]) : r[k] = down[c][k]
  BY <1>2, <1>4
<1>6. ASSUME NEW k \in 1..Len(s) PROVE r[Len(down[c]) + k] = s[k]
  <2>1. PICK n \in Nat : n = Len(down[c])
    BY <1>2
  <2>2. n + k \in 1..n + Len(s) /\ ~(n + k <= n) /\ n + k - n = k
    BY <1>2
  <2>3. \A j \in 1..n + Len(s) : r[j] = IF j <= n THEN down[c][j] ELSE s[j - n]
    BY <1>4, <2>1, Zenon
  <2>4. r[n + k] = s[k]
    BY <2>2, <2>3
  <2> QED BY <2>1, <2>4
<1>7. /\ down[c] = <<>> <=> Len(down[c]) = 0
      /\ s = <<>> <=> Len(s) = 0
      /\ r = <<>> <=> Len(r) = 0
  BY <1>2, <1>4, EmptySeq
<1> QED BY <1>1, <1>2, <1>3, <1>4, <1>5, <1>6, <1>7

LEMMA SentUnit ==
  ASSUME TypeOK, NEW i \in Connected, NEW u \in Unit, SendUnit(i, u)
  PROVE  /\ <<u>> \in Seq(Unit) /\ <<u>> # <<>> /\ <<u>>[1] = u /\ Len(<<u>>) = 1
         /\ \/ buf[i] = <<>> /\ buf' = buf /\ Grows(slot[i], <<u>>)
            \/ buf[i] # <<>> /\ buf' = [buf EXCEPT ![i] = Append(buf[i], u)] /\ down' = down
<1>1. <<u>> \in Seq(Unit) /\ <<u>> # <<>> /\ <<u>>[1] = u /\ Len(<<u>>) = 1
  OBVIOUS
<1>2. Append(down[slot[i]], u) = down[slot[i]] \o <<u>>
  BY SlotTypes, AppendIsConcat
<1> QED BY <1>1, <1>2 DEF SendUnit, Grows

\* A packet that is to be sent next.
LEMMA FirstPacket ==
  ASSUME TypeOK, PacketInv, NEW i \in Slot, packets[i] # <<>>
  PROVE  /\ Head(packets[i]) \in Seq(Unit) /\ Head(packets[i]) = packets[i][1]
         /\ 1 \in DOMAIN packets[i] /\ Packet(packets[i][1])
<1>1. packets[i] \in Seq(Seq(Unit)) /\ Len(packets[i]) \in Nat /\ Len(packets[i]) > 0
  BY EmptySeq, LenProperties DEF TypeOK
<1>2. 1 \in DOMAIN packets[i] /\ packets[i][1] \in Seq(Unit) /\ Head(packets[i]) = packets[i][1]
  BY <1>1, ElementOfSeq, LenProperties
<1> QED BY <1>2 DEF PacketInv

\* What each action that sends does to the socket.
LEMMA PacketSent ==
  ASSUME IInv, SendPacket
  PROVE  /\ srv.pc = "send" /\ srv.i \in Connected /\ packets[srv.i] # <<>>
         /\ packets[srv.i][1] \in Seq(Unit) /\ Packet(packets[srv.i][1])
         /\ 1 \in DOMAIN packets[srv.i]
         /\ Grows(slot[srv.i], packets[srv.i][1])
         /\ packets' = [packets EXCEPT ![srv.i] = Tail(packets[srv.i])]
         /\ UNCHANGED <<up, proc, backlog, slot, buf, lock, srv, post, sent>>
<1>1. srv.pc = "send" /\ srv.i \in Connected /\ packets[srv.i] # <<>>
  BY DEF SendPacket, ServerAt, IInv, ServerInv
<1>2. srv.i \in Slot
  BY <1>1 DEF Connected
<1>3. /\ packets[srv.i][1] \in Seq(Unit) /\ Head(packets[srv.i]) = packets[srv.i][1]
      /\ Packet(packets[srv.i][1]) /\ 1 \in DOMAIN packets[srv.i]
  BY <1>1, <1>2, FirstPacket DEF IInv
<1>4. down' = [down EXCEPT ![slot[srv.i]] = @ \o packets[srv.i][1]]
  BY <1>3, Zenon DEF SendPacket
<1> QED BY <1>1, <1>3, <1>4 DEF SendPacket, Grows, Unsent

LEMMA SendingStopped ==
  ASSUME IInv, StopSending
  PROVE  /\ srv.pc = "send" /\ srv.i \in Connected /\ srv'.i = srv.i
         /\ UNCHANGED <<up, proc, backlog, slot, packets, buf, post, sent>>
         /\ \/ down' = down /\ srv'.pc \in {"serve", "drop"}
            \/ /\ srv'.pc = "drop" /\ packets[srv.i] # <<>> /\ 1 \in DOMAIN packets[srv.i]
               /\ packets[srv.i][1] \in Seq(Unit) /\ Packet(packets[srv.i][1])
               /\ \E m \in 0..Len(packets[srv.i][1]) :
                     Grows(slot[srv.i], SubSeq(packets[srv.i][1], 1, m))
<1> DEFINE c == slot[srv.i]
           ps == packets[srv.i]
           p == ps[1]
<1>1. srv.pc = "send" /\ srv.i \in Connected /\ srv.i \in Slot /\ srv \in Servers /\ TypeOK
  BY DEF StopSending, ServerAt, IInv, ServerInv, TypeOK, Servers
<1>2. UNCHANGED <<up, proc, backlog, slot, packets, buf, post, sent>>
  BY DEF StopSending
<1>3. /\ srv' = [srv EXCEPT !.pc = DropIf(ps # <<>> /\ (Hangup(c) \/ Len(down[c]) < Cap))]
  BY DEF StopSending
<1>4. /\ srv'.i = srv.i /\ srv'.pc \in {"serve", "drop"}
      /\ ps # <<>> /\ (Hangup(c) \/ Len(down[c]) < Cap) => srv'.pc = "drop"
  BY <1>1, <1>3 DEF DropIf, Servers
<1>5. CASE ps = <<>> \/ Hangup(c)
  <2>1. down' = down
    BY <1>5 DEF StopSending
  <2> QED BY <1>1, <1>2, <1>4, <2>1
<1>6. CASE ~(ps = <<>> \/ Hangup(c))
  <2>1. p \in Seq(Unit) /\ Head(ps) = p /\ Packet(p) /\ 1 \in DOMAIN ps
    BY <1>1, <1>6, FirstPacket DEF IInv
  <2>2. c \in Conn /\ down[c] \in Seq(Unit) /\ Len(down[c]) \in 0..Cap /\ Cap \in Nat
    BY <1>1, SlotTypes, ServerAssumption
  <2>3. Len(p) \in Nat
    BY <2>1, LenProperties
  <2>4. down' = [down EXCEPT ![c] = SubSeq(down[c] \o p, 1, Cap)]
    BY <1>6, <2>1 DEF StopSending
  <2>5. ~(Len(down[c]) + Len(p) <= Cap)
    BY <1>6, <2>1 DEF StopSending, Sends
  <2>6. PICK m \in Nat : m = Cap - Len(down[c]) /\ m <= Len(p)
    <3> HIDE DEF p, c
    <3> QED BY <2>2, <2>3, <2>5
  <2> HIDE DEF p, c, ps
  <2>7. SubSeq(down[c] \o p, 1, Cap) = down[c] \o SubSeq(p, 1, m)
    <3>1. /\ down[c] \o p \in Seq(Unit) /\ Len(down[c] \o p) = Len(down[c]) + Len(p)
          /\ \A k \in 1..Len(down[c]) + Len(p) :
               (down[c] \o p)[k] = IF k <= Len(down[c]) THEN down[c][k] ELSE p[k - Len(down[c])]
      BY <2>1, <2>2, ConcatProperties
    <3>2. m \in 0..Len(p) /\ Cap \in 0..Len(down[c]) + Len(p) /\ Cap = Len(down[c]) + m
      BY <2>2, <2>3, <2>6
    <3>3. /\ SubSeq(p, 1, m) \in Seq(Unit) /\ Len(SubSeq(p, 1, m)) = m
          /\ \A k \in 1..m : SubSeq(p, 1, m)[k] = p[k]
      BY <2>1, <3>2, SplitSeq
    <3>4. /\ SubSeq(down[c] \o p, 1, Cap) \in Seq(Unit) /\ Len(SubSeq(down[c] \o p, 1, Cap)) = Cap
          /\ \A k \in 1..Cap : SubSeq(down[c] \o p, 1, Cap)[k] = (down[c] \o p)[k]
      <4>1. Cap \in 0..Len(down[c] \o p)
        BY Zenon, <3>1, <3>2
      <4> QED BY <3>1, <4>1, SplitSeq
    <3>5. PICK l : l = SubSeq(p, 1, m)
      OBVIOUS
    <3>6. /\ down[c] \o l \in Seq(Unit) /\ Len(down[c] \o l) = Len(down[c]) + m
          /\ \A k \in 1..Len(down[c]) + m :
               (down[c] \o l)[k] = IF k <= Len(down[c]) THEN down[c][k] ELSE l[k - Len(down[c])]
      <4>1. l \in Seq(Unit) /\ Len(l) = m
        BY <3>3, <3>5
      <4>2. /\ down[c] \o l \in Seq(Unit) /\ Len(down[c] \o l) = Len(down[c]) + Len(l)
            /\ \A k \in 1..Len(down[c]) + Len(l) :
                 (down[c] \o l)[k] = IF k <= Len(down[c]) THEN down[c][k] ELSE l[k - Len(down[c])]
        BY <2>2, <4>1, ConcatProperties
      <4> QED BY <4>1, <4>2
    <3>7. ASSUME NEW k \in 1..Cap
          PROVE  SubSeq(down[c] \o p, 1, Cap)[k] = (down[c] \o l)[k]
      <4>1. CASE k <= Len(down[c])
        BY <2>2, <2>3, <2>6, <3>1, <3>2, <3>4, <3>6, <4>1
      <4>2. CASE ~(k <= Len(down[c]))
        <5>1. k - Len(down[c]) \in 1..m
          BY <2>2, <3>2, <4>2
        <5>2. l[k - Len(down[c])] = p[k - Len(down[c])]
          BY <3>3, <3>5, <5>1
        <5>3. (down[c] \o p)[k] = p[k - Len(down[c])]
          BY <2>2, <2>3, <3>1, <3>2, <4>2
        <5>4. (down[c] \o l)[k] = l[k - Len(down[c])]
          BY <2>2, <3>2, <3>6, <4>2
        <5> QED BY <3>4, <5>2, <5>3, <5>4
      <4> QED BY <4>1, <4>2
    <3> QED BY <3>2, <3>4, <3>5, <3>6, <3>7, SeqEqual
  <2>8. Grows(c, SubSeq(p, 1, m)) /\ m \in 0..Len(p)
    <3>1. Grows(c, SubSeq(p, 1, m))
      BY <2>4, <2>7, Zenon DEF Grows
    <3> QED BY <2>3, <2>6, <3>1
  <2>9. CASE m = 0
    <3>1. SubSeq(p, 1, m) = <<>>
      BY <2>9, SubSeqEmpty
    <3>2. down' = [down EXCEPT ![c] = down[c]]
      BY <2>2, <2>8, <3>1, ConcatEmptySeq DEF Grows
    <3>3. down' = down
      BY <1>1, <3>2 DEF TypeOK
    <3> QED BY <1>1, <1>2, <1>4, <3>3
  <2>10. CASE m # 0
    <3>1. Len(down[c]) < Cap
      BY <2>2, <2>6, <2>10
    <3>2. srv'.pc = "drop"
      BY <1>4, <1>6, <3>1 DEF c, ps
    <3> QED BY <1>1, <1>2, <1>4, <1>6, <2>1, <2>8, <3>2 DEF p, c, ps
  <2> QED BY <2>9, <2>10
<1> QED BY <1>5, <1>6

\* What the server's thread is sending as it answers.
LEMMA ReplySends ==
  ASSUME IInv, SendReply
  PROVE  /\ srv.pc = "reply" /\ srv.i \in Connected /\ Replying(srv.i)
         /\ srv.left \in {Pong, Answer, Rest} /\ Head(srv.left) \in Unit
         /\ SendUnit(srv.i, Head(srv.left))
         /\ srv'.pc = "reply" /\ srv'.i = srv.i /\ srv'.left = Tail(srv.left)
         /\ UNCHANGED <<up, proc, backlog, slot, packets, lock, post, sent>>
         /\ srv.left \in {Answer, Rest} => lock[srv.i] = "server" /\ buf[srv.i] = <<>>
<1>1. srv.pc = "reply" /\ srv.i \in Connected /\ Replying(srv.i) /\ srv.left # <<>> /\ srv \in Servers
  BY DEF SendReply, ServerAt, IInv, ServerInv, Replying, TypeOK
<1>2. srv.left \in {Pong, Answer, Rest} /\ (srv.left \in {Answer, Rest} => lock[srv.i] = "server")
  BY <1>1 DEF IInv, PingInv, Answering
<1>3. Head(srv.left) \in Unit
  BY <1>2, Replies, PlainUnits
<1>4. srv' = [srv EXCEPT !.left = Tail(srv.left)]
  BY DEF SendReply
<1>5. srv'.pc = "reply" /\ srv'.i = srv.i /\ srv'.left = Tail(srv.left)
  BY <1>1, <1>4 DEF Servers
<1>6. ASSUME lock[srv.i] = "server" PROVE buf[srv.i] = <<>>
  <2>1. post["server"].at # "finish" /\ srv.i \in Slot
    BY <1>1 DEF SendReply, ServerAt, Idle, Connected
  <2>2. \A t \in Thread : ~Filling(t, srv.i)
    BY <1>6, <2>1 DEF Filling, IInv, BufInv
  <2> QED BY <2>1, <2>2 DEF IInv, BufInv
<1> QED BY <1>1, <1>2, <1>3, <1>5, <1>6 DEF SendReply

LEMMA ExitSends ==
  ASSUME IInv, SendExit
  PROVE  /\ srv.pc = "exit" /\ srv'.pc = "bye" /\ srv'.i \in Connected
         /\ Plain("exit") \in Unit /\ Plain("exit").k = "exit"
         /\ SendUnit(srv'.i, Plain("exit")) \/ UNCHANGED <<down, buf>>
         /\ UNCHANGED <<up, proc, backlog, slot, packets, lock, post, sent>>
<1> DEFINE i == Least(Connected)
<1>1. i \in Connected /\ srv \in Servers /\ srv.pc = "exit"
  BY LeastIn DEF SendExit, ServerAt, Connected, IInv, TypeOK
<1>2. srv' = [srv EXCEPT !.pc = "bye", !.i = i]
  BY DEF SendExit
<1>3. SendUnit(i, Plain("exit")) \/ UNCHANGED <<down, buf>>
  BY DEF SendExit
<1> HIDE DEF i
<1>4. srv'.pc = "bye" /\ srv'.i = i
  BY <1>1, <1>2 DEF Servers
<1> QED BY <1>1, <1>3, <1>4, PlainUnits DEF SendExit

-----------------------------------------------------------------------------
(* The ping and its answer                                                 *)

\* What is not a pong leaves a pong to be read where it is.
LEMMA FirstStays ==
  ASSUME TypeOK, NEW c \in Conn, NEW s \in Seq(Unit), Grows(c, s), UNCHANGED proc,
         s # <<>> => s[1].k # "pong", NEW d \in Conn
  PROVE  PongAhead(d)' <=> PongAhead(d)
<1>1. CASE d # c
  BY <1>1, GrownSocket DEF PongAhead
<1>2. CASE d = c /\ down[c] # <<>>
  <2>1. Len(down[c]) \in Nat /\ Len(down[c]) > 0 /\ Len(s) \in Nat /\ down'[c][1] = down[c][1]
    BY <1>2, GrownSocket
  <2>2. down'[c] # <<>>
    BY <2>1, GrownSocket
  <2> QED BY <1>2, <2>1, <2>2 DEF PongAhead
<1>3. CASE d = c /\ down[c] = <<>>
  <2>1. Len(down[c]) = 0 /\ Len(s) \in Nat
    BY <1>3, GrownSocket
  <2>2. CASE s = <<>>
    <3>1. Len(s) = 0
      BY <2>2
    <3>2. Len(down'[c]) = Len(down[c]) + Len(s)
      BY GrownSocket
    <3>3. down'[c] = <<>>
      BY <2>1, <3>1, <3>2, GrownSocket
    <3> QED BY <1>3, <3>3 DEF PongAhead
  <2>3. CASE s # <<>>
    <3>1. down'[c][1] = s[1]
      BY <2>1, <2>3, GrownSocket
    <3> QED BY <1>3, <2>3, <3>1 DEF PongAhead
  <2> QED BY <2>2, <2>3
<1> QED BY <1>1, <1>2, <1>3

LEMMA PingStays ==
  ASSUME PingInv, UNCHANGED <<proc, up>>,
         \A c \in Conn : PongAhead(c)' => PongAhead(c) \/ up[c] = <<>>,
         srv'.pc # "reply" \/ UNCHANGED <<srv, slot, lock, down>>
  PROVE  PingInv'
<1>1. \A c \in Conn : Pinged(c)'
  BY DEF PingInv, Pinged, Past
<1>2. ASSUME NEW i \in Connected', Replying(i)' PROVE Answering(i)'
  <2>1. UNCHANGED <<srv, slot, lock, down>> /\ i \in Connected /\ Replying(i)
    BY <1>2 DEF Replying, Connected
  <2> QED BY <2>1 DEF PingInv, Answering, Past, PongAhead
<1> QED BY <1>1, <1>2 DEF PingInv, Answering

LEMMA PingMoves ==
  ASSUME PingInv, PlaceInv, NEW c \in Conn, UNCHANGED <<srv, slot, lock>>, slot \in [Slot -> Conn \cup {None}],
         \A d \in Conn \ {c} : proc'[d] = proc[d] /\ down'[d] = down[d] /\ up'[d] = up[d],
         Pinged(c)',
         \A i \in Connected : slot[i] = c /\ Replying(i) =>
           /\ proc'[c].at # "pinging"
           /\ srv.left = Pong => ~Past(c)'
  PROVE  PingInv'
<1>1. ASSUME NEW d \in Conn \ {c} PROVE Pinged(d)'
  BY <1>1 DEF PingInv, Pinged, Past, PongAhead
<1>2. ASSUME NEW i \in Connected, slot[i] = c PROVE Answering(i)'
  <2>1. Answering(i)
    BY DEF PingInv
  <2>2. Replying(i)' <=> Replying(i)
    BY DEF Replying
  <2> QED BY <1>2, <2>1, <2>2 DEF Answering, PongAhead
<1>3. ASSUME NEW i \in Connected, slot[i] # c PROVE Answering(i)'
  <2>1. Answering(i) /\ slot[i] \in Conn \ {c}
    BY <1>3 DEF PingInv, Connected
  <2>2. Replying(i)' <=> Replying(i)
    BY DEF Replying
  <2> QED BY <1>3, <2>1, <2>2 DEF Answering, Past, PongAhead
<1>4. Connected' = Connected
  BY DEF Connected
<1> QED BY <1>1, <1>2, <1>3, <1>4 DEF PingInv

LEMMA PingOfCommand ==
  ASSUME IInv, HandleCommand
  PROVE  PingInv'
<1>t. TypeOK /\ srv \in Servers /\ up \in [Conn -> Seq(Cmd)] /\ PingInv
  BY DEF IInv, TypeOK
<1>1. PICK j \in srv.read : /\ j \in Connected
                            /\ NoCommand(j) \/ \E cmd \in Cmd : Takes(j, cmd)
  BY CommandTaken
<1>2. Serving /\ UNCHANGED <<down, proc, slot>>
  BY CommandTaken
<1>3. CASE NoCommand(j)
  <2>1. srv'.pc # "reply" /\ up' = up
    BY <1>t, <1>3 DEF NoCommand, Handling, Forget, Servers
  <2>2. \A c \in Conn : PongAhead(c)' => PongAhead(c)
    BY <1>2 DEF PongAhead
  <2> QED BY <1>2, <1>t, <2>1, <2>2, PingStays
<1>4. ASSUME NEW cmd \in Cmd, Takes(j, cmd) PROVE PingInv'
  <2>c. PICK c : c = slot[j]
    OBVIOUS
  <2>1. /\ c \in Conn /\ up[c] # <<>> /\ up[c] \in Seq(Cmd) /\ cmd = up[c][1] /\ 1 \in DOMAIN up[c]
        /\ up'[c] = Tail(up[c]) /\ \A d \in Conn \ {c} : up'[d] = up[d]
    <3>1. c \in Conn /\ up[c] # <<>> /\ up[c] \in Seq(Cmd)
      BY <1>1, <1>4, <1>t, <2>c, SlotTypes DEF Takes
    <3>2. Head(up[c]) = up[c][1] /\ 1 \in DOMAIN up[c]
      BY <3>1, EmptySeq, LenProperties
    <3> QED BY <1>4, <1>t, <2>c, <3>1, <3>2 DEF Takes
  <2>2. /\ Len(Tail(up[c])) = Len(up[c]) - 1 /\ Len(up[c]) \in Nat
        /\ DOMAIN up[c] = 1..Len(up[c]) /\ DOMAIN Tail(up[c]) = 1..Len(up[c]) - 1
        /\ \A k \in 1..Len(up[c]) - 1 : Tail(up[c])[k] = up[c][k + 1]
    BY <2>1, HeadTailProperties, LenProperties
  <2>3. Pinged(c) /\ ~PongAhead(c)
    BY <1>t, <2>1 DEF PingInv, Pinged
  <2>4. ASSUME proc[c].at = "pinging" PROVE cmd = "ping" /\ up'[c] = <<>>
    <3>1. up[c] = <<"ping">>
      BY <2>1, <2>3, <2>4 DEF Pinged
    <3>2. cmd = "ping" /\ Len(Tail(up[c])) = 0 /\ Tail(up[c]) \in Seq(Cmd)
      BY <2>1, <2>2, <3>1, HeadTailProperties
    <3> QED BY <2>1, <3>2, EmptySeq
  <2>5. Past(c) => cmd # "ping" /\ \A k \in DOMAIN up'[c] : up'[c][k] # "ping"
    <3>1. ASSUME Past(c) PROVE \A k \in DOMAIN up[c] : up[c][k] # "ping"
      BY <2>3, <3>1 DEF Pinged
    <3>2. \A k \in 1..Len(up[c]) - 1 : k + 1 \in DOMAIN up[c]
      BY <2>2
    <3> QED BY <2>1, <2>2, <3>1, <3>2
  <2>6. \A d \in Conn : Pinged(d)'
    <3>1. Pinged(c)'
      BY <1>2, <2>3, <2>4, <2>5 DEF Pinged, Past, PongAhead
    <3>2. \A d \in Conn \ {c} : Pinged(d)'
      BY <1>2, <1>t, <2>1 DEF PingInv, Pinged, Past, PongAhead
    <3> QED BY <3>1, <3>2
  <2>7. ASSUME NEW i \in Connected', Replying(i)' PROVE Answering(i)'
    <3>1. CASE /\ cmd = "get" /\ lock[j] = None /\ lock' = [lock EXCEPT ![j] = "server"]
               /\ Answers(j, Answer)
      <4>1. srv'.i = j /\ srv'.left = Answer
        BY <1>t, <3>1 DEF Answers, Reply, Forget, Servers
      <4>2. i = j /\ lock'[i] = "server" /\ slot'[i] = c
        BY <1>1, <1>2, <1>t, <2>7, <2>c, <3>1, <4>1 DEF Replying, Connected, TypeOK
      <4>3. proc[c].at # "pinging"
        BY <2>4, <3>1
      <4> QED BY <1>2, <4>1, <4>2, <4>3, Replies DEF Answering
    <3>2. CASE cmd = "ping" /\ Answers(j, Pong)
      <4>1. srv'.i = j /\ srv'.left = Pong
        BY <1>t, <3>2 DEF Answers, Reply, Forget, Servers
      <4>2. i = j /\ slot'[i] = c
        BY <1>2, <2>7, <2>c, <4>1 DEF Replying
      <4>3. ~Past(c)' /\ ~PongAhead(c)'
        BY <1>2, <2>3, <2>5, <3>2 DEF Past, PongAhead
      <4> QED BY <1>2, <2>4, <4>1, <4>2, <4>3, Replies DEF Answering
    <3>3. CASE Sets(j) \/ Asks(j) \/ Leaves(j)
      <4>1. srv'.pc # "reply"
        BY <1>t, <3>3 DEF Sets, Asks, Leaves, Handling, Forget, Servers
      <4> QED BY <2>7, <4>1 DEF Replying
    <3> QED BY <1>4, <3>1, <3>2, <3>3 DEF Takes
  <2> QED BY <2>6, <2>7 DEF PingInv, Answering
<1> QED BY <1>1, <1>3, <1>4

LEMMA PingOfProcess ==
  ASSUME IInv, NEW c \in Conn, Step(c)
  PROVE  PingInv'
<1>t. /\ TypeOK /\ slot \in [Slot -> Conn \cup {None}] /\ proc \in [Conn -> Processes]
      /\ down \in [Conn -> Seq(Unit)] /\ up \in [Conn -> Seq(Cmd)] /\ proc[c] \in Processes
  BY DEF IInv, TypeOK
<1>s. PingInv /\ PlaceInv /\ UNCHANGED <<srv, slot, lock>>
  BY SlotsSame DEF IInv
<1>p. Pinged(c) /\ \A i \in Connected : Answering(i)
  BY <1>s DEF PingInv
<1>g. ASSUME Gone(c), up' = up PROVE PingInv'
  <2>1. /\ proc'[c].at = "gone" /\ down'[c] = <<>>
        /\ \A d \in Conn \ {c} : proc'[d] = proc[d] /\ down'[d] = down[d]
    BY <1>t, <1>g DEF Gone, Processes
  <2>2. Pinged(c)' /\ ~Past(c)'
    BY <2>1 DEF Pinged, Past, PongAhead
  <2> QED BY <1>g, <1>s, <1>t, <2>1, <2>2, PingMoves
<1>1. CASE Connect(c)
  <2>1. /\ proc[c].at = "out" /\ proc' = [proc EXCEPT ![c] = [proc[c] EXCEPT !.at = "pinging"]]
        /\ up' = [up EXCEPT ![c] = <<"ping">>] /\ down' = down
    BY <1>t, <1>1 DEF Connect, Goes
  <2>2. /\ proc'[c].at = "pinging" /\ up'[c] = <<"ping">>
        /\ \A d \in Conn \ {c} : proc'[d] = proc[d] /\ up'[d] = up[d]
    BY <1>t, <2>1 DEF Processes
  <2>3. down[c] = <<>> /\ \A i \in Slot : slot[i] # c
    BY <1>s, <2>1 DEF PlaceInv
  <2>4. Pinged(c)'
    BY <2>1, <2>2, <2>3 DEF Pinged, Past, PongAhead
  <2> QED BY <1>s, <1>t, <2>1, <2>2, <2>3, <2>4, PingMoves DEF Connected
<1>2. CASE ReadPong(c)
  <2>1. down[c] # <<>> /\ up' = up /\ proc[c].at = "pinging"
    BY <1>2 DEF ReadPong
  <2>2. CASE /\ Head(down[c]).k = "pong" /\ Goes(c, "open")
             /\ down' = [down EXCEPT ![c] = Tail(down[c])]
    <3>1. /\ proc'[c].at = "open"
          /\ \A d \in Conn \ {c} : proc'[d] = proc[d] /\ down'[d] = down[d]
      BY <1>t, <2>2 DEF Goes, Processes
    <3>2. Head(down[c]) = down[c][1]
      BY <1>t, <2>1
    <3>3. PongAhead(c) /\ up[c] = <<>>
      BY <1>p, <2>1, <2>2, <3>2 DEF PongAhead, Pinged
    <3>4. Pinged(c)'
      BY <2>1, <3>1, <3>3 DEF Pinged, Past, PongAhead
    <3>5. \A i \in Connected : slot[i] = c /\ Replying(i) => srv.left # Pong
      BY <1>p, <3>3 DEF Answering
    <3> QED BY <1>s, <1>t, <2>1, <3>1, <3>4, <3>5, PingMoves
  <2> QED BY <1>2, <1>g, <2>1, <2>2 DEF ReadPong
<1>3. CASE SendCommand(c)
  <2>1. /\ proc[c].at = "sending" /\ up' = [up EXCEPT ![c] = Append(up[c], proc[c].cmd)]
        /\ down' = down
    BY <1>3 DEF SendCommand
  <2>2. /\ \A d \in Conn \ {c} : proc'[d] = proc[d] /\ up'[d] = up[d]
        /\ proc'[c].at \in {"waiting", "leaving", "open"}
    BY <1>t, <1>3 DEF SendCommand, Processes
  <2>3. proc[c].cmd \in Cmd \ {"ping"} /\ Past(c) /\ Past(c)'
    BY <1>p, <2>1, <2>2 DEF Pinged, Past
  <2>4. \A k \in DOMAIN up'[c] : up'[c][k] # "ping"
    <3>1. \A k \in DOMAIN up[c] : up[c][k] # "ping"
      BY <1>p, <2>3 DEF Pinged
    <3>2. /\ up'[c] = Append(up[c], proc[c].cmd) /\ Len(up[c]) \in Nat
          /\ DOMAIN up[c] = 1..Len(up[c])
      BY <1>t, <2>1, LenProperties
    <3>3. /\ DOMAIN up'[c] = 1..Len(up[c]) + 1 /\ up'[c][Len(up[c]) + 1] = proc[c].cmd
          /\ \A k \in 1..Len(up[c]) : up'[c][k] = up[c][k]
      BY <1>t, <2>3, <3>2, AppendProperties, LenProperties
    <3> QED BY <2>3, <3>1, <3>2, <3>3
  <2>5. Pinged(c)'
    BY <2>2, <2>3, <2>4 DEF Pinged, PongAhead
  <2>6. \A i \in Connected : slot[i] = c /\ Replying(i) => srv.left # Pong
    BY <1>p, <2>3 DEF Answering
  <2> QED BY <1>s, <1>t, <2>1, <2>2, <2>5, <2>6, PingMoves
<1>4. CASE ReadMessage(c) \/ \E cmd \in Commands[c] : Wants(c, cmd)
  <2>1. Past(c) /\ up' = up
    BY <1>4 DEF ReadMessage, Wants, Past
  <2>2. \A d \in Conn \ {c} : proc'[d] = proc[d] /\ down'[d] = down[d]
    BY <1>t, <1>4 DEF ReadMessage, Wants
  <2>3. /\ Past(c)' /\ proc'[c].at # "pinging"
        /\ proc'[c].at = "sending" => proc'[c].cmd \in Cmd \ {"ping"}
    <3>1. CASE ReadMessage(c)
      BY <1>t, <3>1 DEF ReadMessage, Processes, Past
    <3>2. ASSUME NEW cmd \in Commands[c], Wants(c, cmd)
          PROVE  proc'[c].at = "sending" /\ proc'[c].cmd \in Cmd \ {"ping"}
      <4>1. cmd \in Cmd \ {"ping"}
        BY ServerAssumption DEF Cmd
      <4>2. proc'[c].at = "sending" /\ proc'[c].cmd = cmd
        BY <1>t, <3>2 DEF Wants, Processes
      <4> QED BY <4>1, <4>2
    <3> QED BY <1>4, <3>1, <3>2 DEF Past
  <2>4. Pinged(c)'
    BY <1>p, <2>1, <2>3 DEF Pinged, PongAhead
  <2>5. \A i \in Connected : slot[i] = c /\ Replying(i) => srv.left # Pong
    BY <1>p, <2>1 DEF Answering
  <2> QED BY <1>s, <1>t, <2>1, <2>2, <2>3, <2>4, <2>5, PingMoves
<1>5. CASE Ends(c) \/ Die(c)
  BY <1>5, <1>g DEF Ends, Die
<1> QED BY <1>1, <1>2, <1>3, <1>4, <1>5 DEF Step

LEMMA PingStep ==
  ASSUME IInv, [Next]_vars
  PROVE  PingInv'
<1>t. /\ TypeOK /\ slot \in [Slot -> Conn \cup {None}] /\ srv \in Servers /\ PingInv
  BY DEF IInv, TypeOK
<1>c. \A i \in Connected : slot[i] \in Conn
  BY <1>t DEF Connected
<1>1. CASE \/ \E t \in Thread : ThreadStep(t)
           \/ PlayerEvent \/ (\E i \in Slot : TagsAnswer(i)) \/ UNCHANGED vars
  <2>1. UNCHANGED <<proc, up, down, srv, slot>>
    BY <1>1 DEF ThreadStep, PostCheck, PostFill, PostFinish, PostWake, PlayerEvent, TagsAnswer,
                vars, sockets, slots
  <2>2. \A c \in Conn : Pinged(c)'
    BY <1>t, <2>1 DEF PingInv, Pinged, Past, PongAhead
  <2>3. ASSUME NEW i \in Connected', Replying(i)' PROVE Answering(i)'
    <3>1. i \in Connected /\ Replying(i) /\ Answering(i) /\ i \in Slot
      BY <1>t, <2>1, <2>3 DEF Connected, Replying, PingInv
    <3>2. post["server"].at = "idle"
      BY <3>1 DEF Replying, IInv, ServerInv
    <3>3. lock[i] = "server" => lock'[i] = "server"
      <4>1. CASE PlayerEvent \/ (\E j \in Slot : TagsAnswer(j)) \/ UNCHANGED vars
        BY <4>1 DEF PlayerEvent, TagsAnswer, vars, slots
      <4>2. ASSUME NEW t \in Thread, ThreadStep(t), lock[i] = "server" PROVE lock'[i] = "server"
        <5>1. t = "server" => ~Filling(t, i)
          BY <3>2 DEF Filling
        <5>2. Filling(t, i) => lock[i] = t
          BY <3>1 DEF IInv, BufInv
        <5>3. ~Filling(t, i)
          BY <4>2, <5>1, <5>2
        <5>4. CASE PostFinish(t)
          <6>1. i # Next1(post[t]) /\ lock' = [lock EXCEPT ![Next1(post[t])] = None]
            BY <5>3, <5>4 DEF PostFinish, Filling
          <6> QED BY <1>t, <3>1, <4>2, <6>1 DEF TypeOK
        <5>5. CASE PostFill(t)
          <6>1. lock[Next1(post[t])] = None
            BY <5>5 DEF PostFill
          <6>2. i # Next1(post[t])
            BY <4>2, <6>1 DEF None
          <6>3. lock' = lock \/ lock' = [lock EXCEPT ![Next1(post[t])] = t]
            BY <5>5 DEF PostFill
          <6> QED BY <1>t, <3>1, <4>2, <6>2, <6>3 DEF TypeOK
        <5>6. CASE PostCheck(t) \/ PostWake(t)
          BY <4>2, <5>6 DEF PostCheck, PostWake, slots
        <5> QED BY <4>2, <5>4, <5>5, <5>6 DEF ThreadStep
      <4> QED BY <1>1, <4>1, <4>2
    <3> QED BY <2>1, <2>3, <3>1, <3>3 DEF Answering, Past, PongAhead
  <2> QED BY <2>2, <2>3 DEF PingInv, Answering
<1>2. CASE Turn \/ SignalQuit \/ SendEvents \/ ReplySent \/ ReplyFails \/ DropClient \/ DropExiting \/ ShutDown
  <2>1. UNCHANGED <<proc, up, down>> /\ srv'.pc # "reply"
    BY <1>2, <1>t DEF Turn, SignalQuit, SendEvents, ReplySent, ReplyFails, DropClient, DropExiting,
       ShutDown, Drop, Forget, sockets, slots, Servers
  <2>2. \A c \in Conn : PongAhead(c)' => PongAhead(c)
    BY <2>1 DEF PongAhead
  <2> QED BY <1>t, <2>1, <2>2, PingStays
<1>3. CASE Select
  <2>1. UNCHANGED <<proc, up>> /\ srv'.pc # "reply"
    BY <1>3, <1>t DEF Select, Servers
  <2>2. \A d \in Conn : PongAhead(d)' => PongAhead(d)
    <3>1. CASE down' = down
      BY <2>1, <3>1 DEF PongAhead
    <3>2. CASE backlog[1] \in Conn /\ Turns(backlog[1])
      <4>1. PICK c : c = backlog[1]
        OBVIOUS
      <4>2. down'[c] = <<Plain("busy")>> /\ \A d \in Conn \ {c} : down'[d] = down[d]
        BY <1>t, <3>2, <4>1 DEF Turns, TypeOK
      <4>3. down'[c][1].k # "pong"
        BY <4>2, PlainUnits
      <4> QED BY <2>1, <4>2, <4>3 DEF PongAhead
    <3> QED BY <1>3, <3>1, <3>2, SlotTaken DEF Admits
  <2> QED BY <1>t, <2>1, <2>2, PingStays
<1>4. CASE SendPacket
  <2>1. packets[srv.i][1] # <<>> => packets[srv.i][1][1].k # "pong"
    BY <1>4, PacketSent DEF Packet
  <2>2. \A d \in Conn : PongAhead(d)' <=> PongAhead(d)
    BY <1>4, <1>t, <1>c, <2>1, PacketSent, FirstStays
  <2>3. UNCHANGED <<proc, up>> /\ srv'.pc # "reply"
    BY <1>4, PacketSent
  <2> QED BY <1>t, <2>2, <2>3, PingStays
<1>5. CASE StopSending
  <2> DEFINE p == packets[srv.i][1]
  <2>1. UNCHANGED <<proc, up>> /\ srv'.pc # "reply"
    BY <1>5, SendingStopped
  <2>2. CASE down' = down
    <3>1. \A c \in Conn : PongAhead(c)' => PongAhead(c)
      BY <2>1, <2>2 DEF PongAhead
    <3> QED BY <1>t, <2>1, <3>1, PingStays
  <2>3. ASSUME NEW m \in 0..Len(p), Grows(slot[srv.i], SubSeq(p, 1, m)), p \in Seq(Unit), Packet(p)
        PROVE  PingInv'
    <3>1. /\ SubSeq(p, 1, m) \in Seq(Unit) /\ Len(SubSeq(p, 1, m)) = m
          /\ \A k \in 1..m : SubSeq(p, 1, m)[k] = p[k]
      BY <2>3, SplitSeq
    <3>2. SubSeq(p, 1, m) # <<>> => SubSeq(p, 1, m)[1].k # "pong"
      <4>1. p[1].k # "pong"
        BY <2>3 DEF Packet
      <4> HIDE DEF p
      <4>2. SubSeq(p, 1, m) # <<>> => m \in Nat /\ m > 0
        BY <3>1, EmptySeq, LenProperties
      <4> QED BY <3>1, <4>1, <4>2
    <3>3. slot[srv.i] \in Conn
      BY <1>5, <1>c, SendingStopped
    <3> HIDE DEF p
    <3>4. \A d \in Conn : PongAhead(d)' <=> PongAhead(d)
      BY <1>t, <2>1, <2>3, <3>1, <3>2, <3>3, FirstStays
    <3> QED BY <1>t, <2>1, <3>4, PingStays
  <2> QED BY <1>5, <2>2, <2>3, SendingStopped
<1>6. CASE SendReply
  <2>1. /\ srv.i \in Connected /\ srv'.left = Tail(srv.left) /\ Answering(srv.i)
        /\ UNCHANGED <<proc, up, slot, lock>> /\ Replying(srv.i)
        /\ Head(srv.left) \in Unit /\ SendUnit(srv.i, Head(srv.left)) /\ srv'.i = srv.i
        /\ srv.left \in {Pong, Answer, Rest} /\ srv'.pc = "reply"
    BY <1>6, <1>t, ReplySends DEF PingInv
  <2>2. PICK c : c = slot[srv.i]
    OBVIOUS
  <2>3. c \in Conn
    BY <1>c, <2>1, <2>2
  <2>4. \A d \in Conn : PongAhead(d)' => PongAhead(d) \/ up[d] = <<>>
    <3>1. CASE srv.left = Pong
      <4>1. proc[c].at = "pinging" => up[c] = <<>>
        BY <2>1, <2>2, <3>1 DEF Answering
      <4>2. \A d \in Conn \ {c} : down'[d] = down[d]
        BY <1>t, <2>1, <2>2, <2>3, SentUnit, GrownSocket
      <4> QED BY <2>1, <4>1, <4>2 DEF PongAhead
    <3>2. CASE srv.left # Pong
      <4>1. Head(srv.left).k # "pong"
        BY <2>1, <3>2, Replies, PlainUnits
      <4>2. CASE down' = down
        BY <2>1, <4>2 DEF PongAhead
      <4>3. CASE Grows(c, <<Head(srv.left)>>)
        BY <1>t, <2>1, <2>3, <4>1, <4>3, SentUnit, FirstStays
      <4> QED BY <1>t, <2>1, <2>2, <4>2, <4>3, SentUnit
    <3> QED BY <3>1, <3>2
  <2>5. \A d \in Conn : Pinged(d)'
    BY <1>t, <2>1, <2>4 DEF PingInv, Pinged, Past
  <2>6. ASSUME NEW i \in Connected', Replying(i)' PROVE Answering(i)'
    <3>1. i = srv.i
      BY <2>1, <2>6 DEF Replying
    <3>2. srv'.left \in {<<>>, Rest} /\ (srv'.left = Rest => srv.left = Answer)
      BY <2>1, Replies
    <3>3. srv'.left # Pong
      BY <3>2, Replies
    <3>4. srv.left = Answer => proc[slot[i]].at # "pinging" /\ lock[i] = "server"
      BY <2>1, <3>1, Replies DEF Answering
    <3> QED BY <2>1, <3>1, <3>2, <3>3, <3>4, Replies DEF Answering
  <2> QED BY <2>5, <2>6 DEF PingInv, Answering
<1>7. CASE SendExit
  <2>1. PICK i \in Connected : SendUnit(i, Plain("exit")) \/ UNCHANGED <<down, buf>>
    BY <1>7, ExitSends
  <2>2. UNCHANGED <<proc, up>> /\ srv'.pc # "reply"
    BY <1>7, ExitSends
  <2>3. \A d \in Conn : PongAhead(d)' => PongAhead(d)
    <3>1. CASE down' = down
      BY <2>2, <3>1 DEF PongAhead
    <3>2. CASE Grows(slot[i], <<Plain("exit")>>)
      <4>1. /\ <<Plain("exit")>> \in Seq(Unit) /\ slot[i] \in Conn
            /\ <<Plain("exit")>>[1].k # "pong"
        BY <1>c, PlainUnits
      <4> QED BY <1>t, <2>2, <3>2, <4>1, FirstStays
    <3> QED BY <1>t, <2>1, <3>1, <3>2, SentUnit, PlainUnits
  <2> QED BY <1>t, <2>2, <2>3, PingStays
<1> QED BY <1>1, <1>2, <1>3, <1>4, <1>5, <1>6, <1>7, Steps, PingOfCommand, PingOfProcess
        DEF SendStep, ReplyStep, ExitStep

-----------------------------------------------------------------------------
(* Packets                                                                 *)

\* The packet a thread puts together: the event, what got into it, the rest.
LEMMA PacketMade ==
  ASSUME IInv, NEW t \in Thread, PostFinish(t)
  PROVE  LET i == Next1(post[t])
             p == buf[i] \o Tail(EventPacket(post[t].ev))
         IN  /\ i \in Connected /\ i \in post[t].todo /\ post[t].at = "finish"
             /\ packets' = [packets EXCEPT ![i] = Append(packets[i], p)]
             /\ buf' = [buf EXCEPT ![i] = <<>>] /\ post' = [post EXCEPT ![t] = Done1(post[t], TRUE)]
             /\ UNCHANGED <<up, down, proc, backlog, slot, srv, sent>>
             /\ p \in Seq(Unit) /\ Packet(p) /\ p[1] = post[t].ev
             /\ Len(buf[i]) <= 1 => WholePacket(p)
<1> DEFINE i == Next1(post[t])
           q == Tail(EventPacket(post[t].ev))
           p == buf[i] \o q
<1>t. TypeOK /\ post[t] \in Posts /\ post[t].ev \in Unit /\ post[t].todo \subseteq Slot
  BY DEF IInv, TypeOK, Posts
<1>1. post[t].at = "finish" /\ post[t].todo # {}
  BY DEF PostFinish, IInv, PostInv
<1>2. i \in post[t].todo /\ i \in Slot
  BY <1>t, <1>1, LeastIn DEF Next1
<1>3. Filling(t, i)
  BY <1>1 DEF Filling
<1>4. /\ slot[i] # None /\ buf[i] # <<>> /\ buf[i][1] = post[t].ev
      /\ \A k \in 2..Len(buf[i]) : buf[i][k].k \in {"pong", "exit"}
  BY <1>2, <1>3 DEF IInv, BufInv
<1>5. post[t].ev.k \in {"event", "tags"}
  <2>1. t # "tags" => post[t].ev = U("event", t, sent[t])
    BY <1>1 DEF IInv, PostInv
  <2>2. t = "tags" => post[t].ev.k = "tags"
    BY <1>1 DEF IInv, PostInv
  <2> QED BY <2>1, <2>2 DEF U
<1>6. PICK v : v = [post[t].ev EXCEPT !.k = "part"]
  OBVIOUS
<1>7. v \in Unit /\ v.k = "part"
  BY <1>t, <1>5, <1>6 DEF Unit
<1>8. q = <<v>>
  BY <1>6 DEF EventPacket
<1>9. q \in Seq(Unit) /\ Len(q) = 1 /\ q[1] = v
  <2>1. <<v>> \in Seq(Unit) /\ Len(<<v>>) = 1 /\ <<v>>[1] = v
    BY <1>7
  <2> HIDE DEF q
  <2> QED BY <1>8, <2>1, Zenon
<1>10. /\ buf[i] \in Seq(Unit) /\ Len(buf[i]) \in Nat /\ Len(buf[i]) > 0
  BY <1>t, <1>2, <1>4, EmptySeq, LenProperties DEF TypeOK
<1>11. PICK l : l = buf[i]
  OBVIOUS
<1>12. PICK r : r = p
  OBVIOUS
<1> HIDE DEF p, q, i
<1>13. /\ r \in Seq(Unit) /\ Len(r) = Len(l) + 1
       /\ \A k \in 1..Len(l) + 1 : r[k] = IF k <= Len(l) THEN l[k] ELSE q[k - Len(l)]
  <2>1. /\ p \in Seq(Unit) /\ Len(p) = Len(l) + Len(q)
        /\ \A k \in 1..Len(l) + Len(q) : p[k] = IF k <= Len(l) THEN l[k] ELSE q[k - Len(l)]
    BY <1>9, <1>10, <1>11, ConcatProperties DEF p
  <2> QED BY <1>9, <1>12, <2>1
<1>14. PICK n \in Nat : n = Len(l) /\ n > 0
  BY <1>10, <1>11
<1>15. /\ Len(r) = n + 1 /\ \A k \in 1..n : r[k] = l[k]
       /\ r[n + 1] = v
  <2>1. \A k \in 1..n + 1 : r[k] = IF k <= n THEN l[k] ELSE q[k - n]
    BY <1>13, <1>14, Zenon
  <2>2. n + 1 \in 1..n + 1 /\ ~(n + 1 <= n) /\ n + 1 - n = 1
    BY <1>14
  <2> QED BY <1>9, <1>13, <1>14, <2>1, <2>2
<1>16. r[1] = post[t].ev
  BY <1>4, <1>11, <1>14, <1>15
<1>17. \A k \in 2..Len(r) : r[k].k \in {"part", "pong", "exit"}
  <2>1. \A k \in 2..n : l[k].k \in {"pong", "exit"}
    BY <1>4, <1>11, <1>14
  <2>2. \A k \in 2..n + 1 : k = n + 1 \/ (k \in 2..n /\ k \in 1..n)
    BY <1>14
  <2> QED BY <1>7, <1>15, <2>1, <2>2
<1>18. Packet(r)
  BY <1>5, <1>14, <1>15, <1>16, <1>17 DEF Packet
<1>19. ASSUME Len(l) <= 1 PROVE WholePacket(r)
  <2>1. n = 1
    BY <1>14, <1>19
  <2>2. Len(r) = 2 /\ r[2] = v
    BY <1>15, <2>1
  <2>3. Complete(r[1], r[2]) /\ r[1].k # "data"
    BY <1>5, <1>6, <1>16, <2>2 DEF Complete
  <2> QED BY <2>2, <2>3 DEF WholePacket
<1>20. packets' = [packets EXCEPT ![i] = Append(packets[i], p)]
  BY DEF PostFinish, Queued, p, q, i
<1>21. /\ buf' = [buf EXCEPT ![i] = <<>>] /\ post' = [post EXCEPT ![t] = Done1(post[t], TRUE)]
       /\ UNCHANGED <<up, down, proc, backlog, slot, srv, sent>>
  BY DEF PostFinish, i, sockets
<1>22. i \in Connected
  BY <1>2, <1>4 DEF Connected
<1> QED BY <1>1, <1>2, <1>11, <1>12, <1>13, <1>16, <1>18, <1>19, <1>20, <1>21, <1>22 DEF p, q, i

LEMMA PacketStep ==
  ASSUME IInv, [Next]_vars
  PROVE  PacketInv'
<1>t. TypeOK /\ PacketInv /\ packets \in [Slot -> Seq(Seq(Unit))] /\ srv.i \in Slot
  BY DEF IInv, TypeOK, Servers
<1>1. CASE packets' = packets
  BY <1>1, <1>t DEF PacketInv
<1>2. ASSUME NEW i \in Slot, packets' = [packets EXCEPT ![i] = <<>>] PROVE PacketInv'
  <2>1. DOMAIN packets'[i] = {} /\ \A j \in Slot \ {i} : packets'[j] = packets[j]
    BY <1>t, <1>2
  <2> QED BY <1>t, <2>1 DEF PacketInv
<1>3. ASSUME NEW t \in Thread, PostFinish(t) PROVE PacketInv'
  <2>1. PICK i \in Connected, p \in Seq(Unit) :
           Packet(p) /\ packets' = [packets EXCEPT ![i] = Append(packets[i], p)]
    BY <1>3, PacketMade
  <2>2. i \in Slot /\ packets[i] \in Seq(Seq(Unit)) /\ Len(packets[i]) \in Nat
    BY <1>t, LenProperties DEF Connected
  <2>3. packets'[i] = Append(packets[i], p) /\ \A j \in Slot \ {i} : packets'[j] = packets[j]
    BY <1>t, <2>1, <2>2
  <2>4. /\ DOMAIN packets[i] = 1..Len(packets[i]) /\ DOMAIN packets'[i] = 1..Len(packets[i]) + 1
        /\ packets'[i][Len(packets[i]) + 1] = p
        /\ \A k \in 1..Len(packets[i]) : packets'[i][k] = packets[i][k]
    BY <2>2, <2>3, AppendProperties, LenProperties
  <2>5. \A k \in DOMAIN packets'[i] : k \in DOMAIN packets[i] \/ k = Len(packets[i]) + 1
    BY <2>2, <2>4
  <2> QED BY <1>t, <2>1, <2>2, <2>3, <2>4, <2>5 DEF PacketInv
<1>4. CASE SendPacket
  <2>1. PICK i \in Slot : packets[i] # <<>> /\ packets' = [packets EXCEPT ![i] = Tail(packets[i])]
    BY <1>4, <1>t, PacketSent
  <2>2. packets'[i] = Tail(packets[i]) /\ \A j \in Slot \ {i} : packets'[j] = packets[j]
    BY <1>t, <2>1
  <2>3. /\ packets[i] \in Seq(Seq(Unit)) /\ Len(packets[i]) \in Nat
        /\ DOMAIN packets[i] = 1..Len(packets[i])
    BY <1>t, LenProperties
  <2>4. /\ Tail(packets[i]) \in Seq(Seq(Unit)) /\ Len(Tail(packets[i])) = Len(packets[i]) - 1
        /\ \A k \in 1..Len(Tail(packets[i])) : Tail(packets[i])[k] = packets[i][k + 1]
    BY <2>1, <2>3, HeadTailProperties
  <2>5. \A k \in DOMAIN packets'[i] : k + 1 \in DOMAIN packets[i] /\ packets'[i][k] = packets[i][k + 1]
    BY <2>2, <2>3, <2>4, LenProperties
  <2> QED BY <1>t, <2>2, <2>5 DEF PacketInv
<1>5. CASE DropClient \/ DropExiting
  BY <1>5, <1>2, <1>t DEF DropClient, DropExiting, Drop
<1>6. CASE Select
  BY <1>6, <1>1, <1>2, SlotTaken DEF Admits, Turns
<1>7. CASE \/ \E t \in Thread : ThreadStep(t) /\ ~PostFinish(t)
           \/ PlayerEvent \/ (\E i \in Slot : TagsAnswer(i))
           \/ Turn \/ SignalQuit \/ SendEvents \/ StopSending \/ SendReply \/ ReplySent \/ ReplyFails
           \/ SendExit \/ ShutDown \/ UNCHANGED vars
  <2>1. packets' = packets
    BY <1>7 DEF ThreadStep, PostCheck, PostFill, PostWake, PlayerEvent, TagsAnswer, Turn, SignalQuit,
       SendEvents, StopSending, SendReply, ReplySent, ReplyFails, SendExit, ShutDown,
       vars, sockets, slots
  <2> QED BY <1>1, <2>1
<1>8. CASE HandleCommand \/ \E c \in Conn : Step(c)
  BY <1>1, <1>8, CommandTaken, SlotsSame
<1> QED BY <1>3, <1>4, <1>5, <1>6, <1>7, <1>8, Steps DEF SendStep, ReplyStep, ExitStep

-----------------------------------------------------------------------------
(* Whole messages                                                          *)

LEMMA AlignedConcat ==
  ASSUME NEW s \in Seq(Unit), NEW r \in Seq(Unit), Aligned(s), Aligned(r), AtEnd(s)
  PROVE  Aligned(s \o r) /\ (AtEnd(r) => AtEnd(s \o r))
<1> DEFINE m == Len(s)  n == Len(r)
<1>1. /\ m \in Nat /\ n \in Nat /\ (s = <<>> <=> m = 0) /\ (r = <<>> <=> n = 0)
  BY EmptySeq, LenProperties
<1>2. PICK q : q = s \o r
  OBVIOUS
<1>3. /\ q \in Seq(Unit) /\ Len(q) = m + n
      /\ \A k \in 1..m + n : q[k] = IF k <= m THEN s[k] ELSE r[k - m]
  BY <1>2, ConcatProperties
<1>4. q = <<>> <=> m + n = 0
  BY <1>3, EmptySeq
<1> HIDE DEF m, n
<1>5. (\A k \in 1..m : q[k] = s[k]) /\ \A k \in m + 1..m + n : q[k] = r[k - m] /\ k - m \in 1..n
  BY <1>1, <1>3
<1>6. ASSUME NEW k \in 1..m + n - 1 PROVE Follows(q[k], q[k + 1])
  <2>1. CASE k <= m - 1
    BY <1>1, <1>5, <1>6, <2>1 DEF Aligned, m
  <2>2. CASE k = m
    <3>1. q[k] = s[m] /\ q[k + 1] = r[1] /\ s # <<>> /\ r # <<>>
      BY <1>1, <1>5, <1>6, <2>2
    <3>2. Closes(s[m]) /\ ~Closes(r[1])
      BY <3>1 DEF AtEnd, Aligned, m
    <3> QED BY <3>1, <3>2 DEF Follows, Opens, Closes
  <2>3. CASE k > m
    <3>1. k - m \in 1..n - 1 /\ k \in m + 1..m + n /\ k + 1 \in m + 1..m + n /\ k + 1 - m = k - m + 1
      BY <1>1, <1>6, <2>3
    <3>2. q[k] = r[k - m]
      BY <1>5, <3>1
    <3>3. q[k + 1] = r[k - m + 1]
      <4>1. PICK j : j = k + 1
        OBVIOUS
      <4>2. q[j] = r[j - m]
        BY <1>5, <3>1, <4>1
      <4>3. j - m = k - m + 1
        BY <1>1, <1>6, <4>1
      <4> QED BY Zenon, <4>1, <4>2, <4>3
    <3> QED BY <3>1, <3>2, <3>3 DEF Aligned, n
  <2> QED BY <1>1, <1>6, <2>1, <2>2, <2>3
<1>7. q # <<>> => ~Closes(q[1])
  <2>1. CASE m = 0
    BY <1>1, <1>4, <1>5, <2>1 DEF Aligned
  <2>2. CASE m # 0
    BY <1>1, <1>5, <2>2 DEF Aligned
  <2> QED BY <2>1, <2>2
<1>8. AtEnd(r) => AtEnd(q)
  <2>1. CASE n = 0
    <3>1. m + n = m
      BY <1>1, <2>1
    <3>2. q # <<>> => s # <<>> /\ q[m] = s[m]
      BY <1>1, <1>4, <1>5, <3>1
    <3> QED BY <1>3, <3>1, <3>2 DEF AtEnd, m
  <2>2. CASE n # 0
    <3>1. m + n \in m + 1..m + n /\ m + n - m = n
      BY <1>1, <2>2
    <3>2. q[m + n] = r[n] /\ r # <<>>
      BY <1>1, <1>5, <2>2, <3>1
    <3> QED BY <1>3, <3>2 DEF AtEnd, n
  <2> QED BY <2>1, <2>2
<1>9. \A k \in 1..Len(q) - 1 : Follows(q[k], q[k + 1])
  <2>1. Len(q) - 1 = m + n - 1
    BY <1>1, <1>3
  <2> QED BY Zenon, <1>6, <2>1
<1>10. Aligned(q)
  BY <1>7, <1>9 DEF Aligned
<1> QED BY <1>2, <1>8, <1>10

LEMMA AlignedPrefix ==
  ASSUME NEW s \in Seq(Unit), NEW m \in 0..Len(s), Aligned(s)
  PROVE  Aligned(SubSeq(s, 1, m)) /\ SubSeq(s, 1, m) \in Seq(Unit)
<1>1. PICK q : q = SubSeq(s, 1, m)
  OBVIOUS
<1>2. Len(s) \in Nat /\ q \in Seq(Unit) /\ Len(q) = m /\ \A k \in 1..m : q[k] = s[k]
  BY <1>1, SplitSeq, LenProperties
<1>3. q # <<>> => 1 <= m /\ s # <<>>
  BY <1>2, EmptySeq
<1>4. \A k \in 1..m - 1 : Follows(q[k], q[k + 1])
  BY <1>2 DEF Aligned
<1> QED BY <1>1, <1>2, <1>3, <1>4 DEF Aligned

LEMMA AlignedUnit ==
  ASSUME NEW u \in Unit
  PROVE  /\ <<u>> \in Seq(Unit)
         /\ ~Closes(u) => Aligned(<<u>>)
         /\ Closes(u) => AtEnd(<<u>>)
BY DEF Aligned, AtEnd

LEMMA AlignedPacket ==
  ASSUME NEW p \in Seq(Unit), WholePacket(p)
  PROVE  Aligned(p) /\ AtEnd(p)
<1>1. Len(p) = 2 /\ p[1] \in Unit /\ p[1].k \in {"event", "tags"} /\ p[2] = [p[1] EXCEPT !.k = "part"]
  BY ElementOfSeq DEF WholePacket, Complete
<1>2. p[2].k = "part"
  BY <1>1 DEF Unit
<1>3. Follows(p[1], p[2])
  BY <1>1 DEF Follows, Opens, Complete
<1>4. \A k \in 1..Len(p) - 1 : k = 1
  BY <1>1
<1> QED BY <1>1, <1>2, <1>3, <1>4 DEF Aligned, AtEnd, Closes

\* The two parts of an answer.
LEMMA AlignedAnswer ==
  ASSUME NEW s \in Seq(Unit), Aligned(s)
  PROVE  /\ AtEnd(s) => LET q == s \o <<Plain("data")>> IN
                        Aligned(q) /\ q # <<>> /\ q[Len(q)].k = "data"
         /\ s # <<>> /\ s[Len(s)].k = "data" =>
              Aligned(s \o <<Plain("answer")>>) /\ AtEnd(s \o <<Plain("answer")>>)
<1>1. /\ Plain("data") \in Unit /\ Plain("answer") \in Unit /\ Plain("data").k = "data"
      /\ Plain("answer").k = "answer"
  BY PlainUnits
<1>2. PICK m \in Nat : m = Len(s) /\ (s = <<>> <=> m = 0)
  BY EmptySeq, LenProperties
<1>n. ASSUME NEW u \in Unit
      PROVE  /\ Len(s \o <<u>>) = m + 1 /\ (s \o <<u>>)[m + 1] = u /\ s \o <<u>> # <<>>
             /\ \A k \in 1..m : (s \o <<u>>)[k] = s[k]
  <2>1. s \o <<u>> = Append(s, u)
    BY AppendIsConcat
  <2> QED BY <1>2, <2>1, AppendProperties
<1>3. ASSUME AtEnd(s)
      PROVE  LET q == s \o <<Plain("data")>> IN Aligned(q) /\ q # <<>> /\ q[Len(q)].k = "data"
  <2>1. Aligned(<<Plain("data")>>) /\ <<Plain("data")>> \in Seq(Unit)
    BY <1>1, AlignedUnit DEF Closes
  <2> QED BY <1>1, <1>3, <1>n, <2>1, AlignedConcat
<1>4. ASSUME s # <<>>, s[Len(s)].k = "data"
      PROVE  Aligned(s \o <<Plain("answer")>>) /\ AtEnd(s \o <<Plain("answer")>>)
  <2>1. PICK q : q = s \o <<Plain("answer")>>
    OBVIOUS
  <2>2. /\ Len(q) = m + 1 /\ q[m + 1] = Plain("answer") /\ \A k \in 1..m : q[k] = s[k]
        /\ m > 0
    BY <1>1, <1>2, <1>4, <1>n, <2>1
  <2>3. Follows(s[m], Plain("answer"))
    BY <1>1, <1>2, <1>4 DEF Follows, Opens, Complete
  <2>4. ASSUME NEW k \in 1..m PROVE Follows(q[k], q[k + 1])
    <3>1. CASE k = m
      BY <2>2, <2>3, <2>4, <3>1
    <3>2. CASE k # m
      <4>1. k \in 1..m - 1 /\ k + 1 \in 1..m
        BY <2>4, <3>2
      <4> QED BY <1>2, <2>2, <4>1 DEF Aligned
    <3> QED BY <3>1, <3>2
  <2>5. ~Closes(q[1]) /\ Closes(q[m + 1])
    BY <1>1, <1>4, <2>2 DEF Aligned, Closes
  <2> QED BY <2>1, <2>2, <2>4, <2>5 DEF Aligned, AtEnd
<1> QED BY <1>3, <1>4

\* A message is read: two units that begin the socket.
LEMMA AlignedRead ==
  ASSUME NEW s \in Seq(Unit), Aligned(s), Len(s) > 1
  PROVE  LET r == SubSeq(s, 3, Len(s)) IN
         /\ Complete(s[1], s[2]) /\ s[2].k \in {"part", "answer"}
         /\ Aligned(r)
         /\ AtEnd(s) => AtEnd(r)
         /\ s[Len(s)].k = "data" => r # <<>> /\ r[Len(r)].k = "data"
<1>1. PICK n \in Nat : n = Len(s) /\ n > 1
  BY LenProperties
<1>2. PICK r : r = SubSeq(s, 3, Len(s))
  OBVIOUS
<1>3. /\ r \in Seq(Unit) /\ Len(r) = n - 2 /\ \A k \in 1..n - 2 : r[k] = s[k + 2]
      /\ s[1] \in Unit /\ s[2] \in Unit
  BY <1>1, <1>2, ReadRest
<1>4. r = <<>> <=> n = 2
  BY <1>1, <1>3, EmptySeq
<1>5. ~Closes(s[1]) /\ Follows(s[1], s[2]) /\ s # <<>>
  BY <1>1 DEF Aligned
<1>6. Complete(s[1], s[2])
  BY <1>5 DEF Follows
<1>7. s[2].k \in {"part", "answer"}
  BY <1>3, <1>6 DEF Complete, Unit
<1>8. ASSUME n # 2 PROVE ~Closes(r[1])
  <2>1. Follows(s[2], s[3]) /\ r[1] = s[3]
    BY <1>1, <1>3, <1>8 DEF Aligned
  <2> QED BY <1>7, <2>1 DEF Follows, Opens
<1>9. ASSUME NEW k \in 1..n - 2 - 1 PROVE Follows(r[k], r[k + 1])
  <2>1. k + 2 \in 1..n - 1 /\ k \in 1..n - 2 /\ k + 1 \in 1..n - 2 /\ k + 1 + 2 = k + 2 + 1
    BY <1>1, <1>9
  <2>2. Follows(s[k + 2], s[k + 2 + 1])
    BY <1>1, <2>1 DEF Aligned
  <2>3. r[k] = s[k + 2] /\ r[k + 1] = s[k + 1 + 2]
    BY <1>3, <2>1
  <2>4. r[k + 1] = s[k + 2 + 1]
    BY <2>1, <2>3
  <2> QED BY <2>2, <2>3, <2>4
<1>10. n # 2 => r[n - 2] = s[n]
  <2>1. n # 2 => n - 2 \in 1..n - 2 /\ n - 2 + 2 = n
    BY <1>1
  <2> QED BY <1>3, <2>1
<1>11. Aligned(r)
  BY <1>3, <1>4, <1>8, <1>9 DEF Aligned
<1>12. AtEnd(s) => AtEnd(r)
  BY <1>1, <1>3, <1>4, <1>5, <1>10 DEF AtEnd
<1>13. s[Len(s)].k = "data" => r # <<>> /\ r[Len(r)].k = "data"
  BY <1>1, <1>3, <1>4, <1>7, <1>10
<1> QED BY <1>2, <1>6, <1>7, <1>11, <1>12, <1>13

\* Steps that send nothing, and after which no more clients count on whole
\* messages than before.
LEMMA WholeStays ==
  ASSUME WholeInv, UNCHANGED <<proc, down>>, \A c \in Conn : Fine(c)' => Fine(c),
         \A i \in Connected' :
           \/ Joined(i)'
           \/ /\ i \in Connected /\ slot[i] \in Conn
              /\ slot'[i] = slot[i] /\ packets'[i] = packets[i] /\ buf'[i] = buf[i]
              /\ ~Leaving(i)' => ~Leaving(i) /\ (Midway(i)' <=> Midway(i))
  PROVE  WholeInv'
<1>1. WholeMessages'
  BY DEF WholeInv, WholeMessages
<1>2. \A c \in Conn : Body(c)' = Body(c)
  BY DEF Body, PongAhead
<1>3. \A c \in Conn : Whole(c)'
  BY <1>2 DEF WholeInv, Whole
<1>4. ASSUME NEW i \in Connected', i \in Connected, slot[i] \in Conn,
             slot'[i] = slot[i], packets'[i] = packets[i], buf'[i] = buf[i],
             ~Leaving(i)' => ~Leaving(i) /\ (Midway(i)' <=> Midway(i))
      PROVE  Joined(i)'
  <2>1. Joined(i) /\ Body(slot[i])' = Body(slot[i])
    BY <1>2, <1>4 DEF WholeInv, Body, PongAhead
  <2>2. Fine(slot[i])' => Fine(slot[i])
    BY <1>4 DEF Fine, Past, PongAhead
  <2> QED BY <1>4, <2>1, <2>2 DEF Joined, Between
<1> QED BY <1>1, <1>3, <1>4 DEF WholeInv

\* Steps at the socket of one process.
LEMMA WholeMoves ==
  ASSUME WholeInv, slot \in [Slot -> Conn \cup {None}], slot' = slot, NEW c \in Conn,
         \A d \in Conn \ {c} : /\ proc'[d] = proc[d] /\ down'[d] = down[d]
                               /\ Fine(d)' => Fine(d),
         ~proc'[c].garbled, Whole(c)',
         \A i \in Connected : slot[i] = c => Joined(i)',
         \A i \in Connected : slot[i] # c =>
           /\ packets'[i] = packets[i] /\ buf'[i] = buf[i]
           /\ ~Leaving(i)' => ~Leaving(i) /\ (Midway(i)' <=> Midway(i))
  PROVE  WholeInv'
<1>1. WholeMessages'
  BY DEF WholeInv, WholeMessages
<1>2. ASSUME NEW d \in Conn \ {c} PROVE Body(d)' = Body(d) /\ Whole(d)'
  <2>1. Body(d)' = Body(d)
    BY <1>2 DEF Body, PongAhead
  <2> QED BY <2>1 DEF WholeInv, Whole
<1>3. ASSUME NEW i \in Connected, slot[i] # c PROVE Joined(i)'
  <2>1. PICK d : d = slot[i]
    OBVIOUS
  <2>2. d \in Conn \ {c} /\ slot'[i] = d
    BY <1>3, <2>1 DEF Connected
  <2>3. Body(d)' = Body(d) /\ (Fine(d)' => Fine(d))
    BY <1>2, <2>2
  <2>4. Joined(i)
    BY DEF WholeInv
  <2>5. Between(i)' <=> (IF Midway(i)' THEN Body(d)' # <<>> /\ Body(d)'[Len(Body(d)')].k = "data"
                         ELSE AtEnd(Body(d)'))
    BY <2>2 DEF Between, Body, PongAhead, AtEnd, Closes
  <2>6. Between(i) <=> (IF Midway(i) THEN Body(d) # <<>> /\ Body(d)[Len(Body(d))].k = "data"
                        ELSE AtEnd(Body(d)))
    BY <2>1 DEF Between
  <2>7. Fine(slot[i])' <=> Fine(d)'
    BY <2>2 DEF Fine, Past, PongAhead
  <2> QED BY <1>3, <2>1, <2>3, <2>4, <2>5, <2>6, <2>7 DEF Joined
<1>4. Connected' = Connected
  BY DEF Connected
<1> QED BY <1>1, <1>2, <1>3, <1>4 DEF WholeInv

\* Whoever is not told the pong has not more reason to count on it.
LEMMA FineFalls ==
  ASSUME NEW c, proc'[c] = proc[c], up'[c] = up[c], PongAhead(c)' => PongAhead(c),
         srv'.pc # "reply" \/ UNCHANGED <<srv, slot>>
  PROVE  Fine(c)' => Fine(c)
BY DEF Fine, Past, Replying

LEMMA BodyGrows ==
  ASSUME TypeOK, NEW c \in Conn, NEW s \in Seq(Unit), Grows(c, s), UNCHANGED proc,
         s # <<>> => s[1].k # "pong"
  PROVE  /\ PongAhead(c)' <=> PongAhead(c)
         /\ Body(c)' = Body(c) \o s
         /\ Body(c) \in Seq(Unit)
<1>1. down[c] \in Seq(Unit) /\ down'[c] = down[c] \o s
  BY GrownSocket
<1>2. PongAhead(c)' <=> PongAhead(c)
  BY FirstStays
<1>3. CASE PongAhead(c)
  <2>1. Tail(down[c] \o s) = Tail(down[c]) \o s /\ Tail(down[c]) \in Seq(Unit)
    BY <1>1, <1>3, TailOfConcat, HeadTailProperties DEF PongAhead
  <2> QED BY <1>1, <1>2, <1>3, <2>1 DEF Body
<1>4. CASE ~PongAhead(c)
  BY <1>1, <1>2, <1>4 DEF Body
<1> QED BY <1>2, <1>3, <1>4

LEMMA WholeOfThread ==
  ASSUME IInv, NEW t \in Thread, ThreadStep(t)
  PROVE  WholeInv'
<1>t. /\ TypeOK /\ WholeInv /\ buf \in [Slot -> Seq(Unit)]
      /\ packets \in [Slot -> Seq(Seq(Unit))] /\ slot \in [Slot -> Conn \cup {None}]
  BY DEF IInv, TypeOK
<1>1. UNCHANGED <<proc, down, up, srv, slot>>
  BY DEF ThreadStep, PostCheck, PostFill, PostFinish, PostWake, sockets, slots
<1>2. /\ \A c \in Conn : Fine(c)' <=> Fine(c)
      /\ \A i \in Connected' : i \in Connected /\ slot[i] \in Conn /\ i \in Slot
      /\ \A i \in Slot : (Leaving(i)' <=> Leaving(i)) /\ (Midway(i)' <=> Midway(i))
  BY <1>1, <1>t DEF Fine, Past, PongAhead, Replying, Leaving, Midway, Connected
<1>j. ASSUME NEW i \in Connected, Fine(slot[i])', ~Leaving(i)'
      PROVE  /\ \A k \in DOMAIN packets[i] : WholePacket(packets[i][k])
             /\ Len(buf[i]) <= 1 /\ Between(i)'
  <2>1. Joined(i) /\ Fine(slot[i]) /\ ~Leaving(i)
    BY <1>1, <1>2, <1>j, <1>t DEF WholeInv, Fine, Past, PongAhead, Connected, Replying, Leaving
  <2>2. Between(i) /\ (Between(i)' <=> Between(i))
    BY <1>1, <2>1 DEF Joined, Between, Body, PongAhead, Midway, Replying, AtEnd, Closes
  <2> QED BY <2>1, <2>2 DEF Joined
<1>3. CASE PostCheck(t) \/ PostWake(t)
  <2>1. UNCHANGED <<packets, buf>>
    BY <1>3 DEF PostCheck, PostWake, slots
  <2> QED BY <1>1, <1>2, <1>t, <2>1, WholeStays
<1>4. CASE PostFill(t)
  <2> DEFINE j == Next1(post[t])
  <2>1. packets' = packets /\ (buf' = buf \/ buf' = [buf EXCEPT ![j] = <<post[t].ev>>])
    BY <1>4 DEF PostFill
  <2>2. ASSUME NEW i \in Connected, Fine(slot[i])', ~Leaving(i)' PROVE Len(buf'[i]) <= 1
    <3>1. buf'[i] = buf[i] \/ buf'[i] = <<post[t].ev>>
      BY <1>t, <2>1 DEF Connected
    <3>2. Len(<<post[t].ev>>) <= 1
      OBVIOUS
    <3> QED BY <1>j, <2>2, <3>1, <3>2
  <2>3. \A i \in Connected' : Joined(i)'
    BY <1>2, <1>j, <2>1, <2>2 DEF Joined
  <2> QED BY <1>1, <1>2, <1>t, <2>3, WholeStays
<1>5. CASE PostFinish(t)
  <2>1. PICK j \in Connected, p \in Seq(Unit) :
           /\ packets' = [packets EXCEPT ![j] = Append(packets[j], p)]
           /\ buf' = [buf EXCEPT ![j] = <<>>]
           /\ Len(buf[j]) <= 1 => WholePacket(p)
    BY <1>5, PacketMade
  <2>2. j \in Slot
    BY DEF Connected
  <2>3. packets[j] \in Seq(Seq(Unit)) /\ Len(packets[j]) \in Nat /\ DOMAIN packets[j] = 1..Len(packets[j])
    BY <1>t, <2>2, LenProperties
  <2>4. /\ packets'[j] = Append(packets[j], p) /\ buf'[j] = <<>>
        /\ \A i \in Slot \ {j} : packets'[i] = packets[i] /\ buf'[i] = buf[i]
    BY <1>t, <2>1, <2>2
  <2>5. ASSUME NEW k \in DOMAIN packets'[j]
        PROVE  (k \in DOMAIN packets[j] /\ packets'[j][k] = packets[j][k]) \/ packets'[j][k] = p
    <3>1. /\ DOMAIN packets'[j] = 1..Len(packets[j]) + 1 /\ packets'[j][Len(packets[j]) + 1] = p
          /\ \A n \in 1..Len(packets[j]) : packets'[j][n] = packets[j][n]
      BY <2>3, <2>4, AppendProperties, LenProperties
    <3>2. k \in 1..Len(packets[j]) \/ k = Len(packets[j]) + 1
      BY <2>3, <2>5, <3>1
    <3> QED BY <2>3, <3>1, <3>2
  <2>6. ASSUME NEW i \in Connected', Fine(slot[i])', ~Leaving(i)'
        PROVE  (\A k \in DOMAIN packets'[i] : WholePacket(packets'[i][k])) /\ Len(buf'[i]) <= 1
    <3>1. i \in Connected /\ i \in Slot
      BY <1>2
    <3>2. (\A k \in DOMAIN packets[i] : WholePacket(packets[i][k])) /\ Len(buf[i]) <= 1
      BY <1>j, <2>6, <3>1
    <3>3. CASE i = j
      <4>1. WholePacket(p) /\ Len(buf'[i]) <= 1
        BY <2>1, <2>4, <3>2, <3>3
      <4> QED BY <2>5, <3>2, <3>3, <4>1
    <3>4. CASE i # j
      BY <2>4, <3>1, <3>2, <3>4
    <3> QED BY <3>3, <3>4
  <2>7. \A i \in Connected' : Joined(i)'
    BY <1>2, <1>j, <2>6 DEF Joined
  <2> QED BY <1>1, <1>2, <1>t, <2>7, WholeStays
<1> QED BY <1>3, <1>4, <1>5 DEF ThreadStep

\* What is sent to a slot's client, and what it has got.
LEMMA OwnSocket ==
  ASSUME IInv, NEW i \in Connected, NEW c, c = slot[i]
  PROVE  /\ c \in Conn /\ i \in Slot /\ \A j \in Connected : slot[j] = c => j = i
         /\ Fine(c) => Aligned(Body(c))
         /\ Fine(c) /\ ~Leaving(i) => /\ \A k \in DOMAIN packets[i] : WholePacket(packets[i][k])
                                      /\ Len(buf[i]) <= 1 /\ Between(i)
         /\ Between(i) /\ ~Midway(i) => AtEnd(Body(c))
         /\ Between(i) /\ Midway(i) => Body(c) # <<>> /\ Body(c)[Len(Body(c))].k = "data"
<1>1. c \in Conn /\ i \in Slot /\ \A j \in Connected : slot[j] = c => j = i
  BY DEF IInv, PlaceInv, TypeOK, Connected
<1>2. Whole(c) /\ Joined(i)
  BY <1>1 DEF IInv, WholeInv
<1> QED BY <1>1, <1>2 DEF Whole, Joined, Between

LEMMA WholeOfPacket ==
  ASSUME IInv, SendPacket \/ StopSending
  PROVE  WholeInv'
<1>i. PICK i : i = srv.i
  OBVIOUS
<1>t. /\ TypeOK /\ WholeInv /\ slot \in [Slot -> Conn \cup {None}]
      /\ packets \in [Slot -> Seq(Seq(Unit))]
  BY DEF IInv, TypeOK
<1>1. /\ srv.pc = "send" /\ i \in Connected /\ srv'.pc # "reply" /\ srv'.i = i
      /\ UNCHANGED <<up, proc, slot, buf>>
  BY <1>i, PacketSent, SendingStopped
<1>2. PICK c : c = slot[i]
  OBVIOUS
<1>o. c \in Conn /\ i \in Slot /\ \A j \in Connected : slot[j] = c => j = i
  BY <1>1, <1>2, OwnSocket
<1>w. Fine(c) => /\ Aligned(Body(c)) /\ AtEnd(Body(c)) /\ Len(buf[i]) <= 1
                 /\ \A k \in DOMAIN packets[i] : WholePacket(packets[i][k])
  <2>1. ~Leaving(i) /\ ~Midway(i)
    BY <1>1, <1>i DEF Leaving, Midway, Replying
  <2> QED BY <1>1, <1>2, <2>1, OwnSocket
<1>j. \A j \in Connected : slot[j] # c => ~Leaving(j) /\ ~Midway(j) /\ ~Midway(j)'
  BY <1>1, <1>2, <1>i DEF Leaving, Midway, Replying
<1>g. ~proc'[c].garbled
  BY <1>1, <1>o DEF IInv, WholeInv, WholeMessages
<1>3. CASE SendPacket
  <2> DEFINE p == packets[i][1]
  <2>1. /\ p \in Seq(Unit) /\ Packet(p) /\ Grows(c, p) /\ srv' = srv /\ 1 \in DOMAIN packets[i]
        /\ packets[i] # <<>> /\ packets' = [packets EXCEPT ![i] = Tail(packets[i])]
    BY <1>2, <1>3, <1>i, PacketSent
  <2>2. p # <<>> => p[1].k # "pong"
    BY <2>1 DEF Packet
  <2>3. WholePacket(p) => Aligned(p) /\ AtEnd(p)
    BY <2>1, AlignedPacket
  <2>4. PICK q : q = p
    OBVIOUS
  <2> HIDE DEF p
  <2>5. /\ PongAhead(c)' <=> PongAhead(c)
        /\ Body(c)' = Body(c) \o q /\ Body(c) \in Seq(Unit)
    BY <1>1, <1>o, <1>t, <2>1, <2>2, <2>4, BodyGrows
  <2>6. \A d \in Conn : /\ Fine(d)' => Fine(d)
                        /\ d # c => down'[d] = down[d]
    <3>1. \A d \in Conn : PongAhead(d)' => PongAhead(d)
      BY <1>1, <1>o, <1>t, <2>1, <2>2, FirstStays
    <3> QED BY <1>1, <1>o, <1>t, <2>1, <3>1, FineFalls, GrownSocket
  <2>7. Fine(c)' => Aligned(Body(c)') /\ AtEnd(Body(c)') /\ WholePacket(p)
    <3>1. Fine(c)' => Aligned(Body(c)) /\ AtEnd(Body(c)) /\ WholePacket(p)
      BY <1>o, <1>w, <2>1, <2>6 DEF p
    <3> QED BY <2>1, <2>3, <2>4, <2>5, <3>1, AlignedConcat
  <2>8. \A k \in DOMAIN packets'[i] : k + 1 \in DOMAIN packets[i] /\ packets'[i][k] = packets[i][k + 1]
    <3>1. packets[i] \in Seq(Seq(Unit)) /\ Len(packets[i]) \in Nat /\ DOMAIN packets[i] = 1..Len(packets[i])
      BY <1>o, <1>t, LenProperties
    <3>2. /\ Tail(packets[i]) \in Seq(Seq(Unit)) /\ Len(Tail(packets[i])) = Len(packets[i]) - 1
          /\ \A k \in 1..Len(Tail(packets[i])) : Tail(packets[i])[k] = packets[i][k + 1]
      BY <2>1, <3>1, HeadTailProperties
    <3>3. packets'[i] = Tail(packets[i])
      BY <1>o, <1>t, <2>1
    <3> QED BY <3>1, <3>2, <3>3, LenProperties
  <2>9. Joined(i)'
    <3>1. srv'.i = i /\ slot'[i] = c /\ ~Midway(i)'
      BY <1>1, <1>2, <2>1 DEF Midway, Replying
    <3>2. Fine(slot[i])' => Fine(c)' /\ Fine(c)
      BY <1>o, <2>6, <3>1 DEF Fine, Past, PongAhead
    <3>3. Fine(slot[i])' => AtEnd(Body(c)') /\ (Body(slot[i])' = Body(c)')
      BY <2>7, <3>1, <3>2 DEF Body, PongAhead
    <3>4. Fine(slot[i])' => Between(i)'
      BY <3>1, <3>3 DEF Between, AtEnd, Closes
    <3>5. Fine(slot[i])' => \A k \in DOMAIN packets'[i] : WholePacket(packets'[i][k])
      BY <1>w, <2>8, <3>2
    <3> QED BY <1>1, <1>w, <3>1, <3>2, <3>4, <3>5 DEF Joined
  <2>10. \A j \in Connected : slot[j] # c => packets'[j] = packets[j] /\ buf'[j] = buf[j]
    BY <1>1, <1>2, <1>t, <2>1 DEF Connected
  <2>11. \A j \in Connected : slot[j] = c => Joined(j)'
    BY <1>o, <2>9
  <2> QED BY <1>1, <1>g, <1>j, <1>o, <1>t, <2>6, <2>7, <2>10, <2>11, WholeMoves DEF Whole
<1>4. CASE StopSending
  <2> DEFINE p == packets[i][1]
  <2>1. CASE down' = down
    <3>1. \A d \in Conn : Fine(d)' => Fine(d)
      BY <1>1, <2>1, FineFalls DEF PongAhead
    <3>2. \A j \in Connected' : /\ j \in Connected /\ slot[j] \in Conn /\ slot'[j] = slot[j]
                                /\ packets'[j] = packets[j] /\ buf'[j] = buf[j]
                                /\ ~Leaving(j) /\ (Midway(j)' <=> Midway(j))
      BY <1>1, <1>4, <1>t, <1>i, SendingStopped DEF Connected, Leaving, Midway, Replying
    <3> QED BY <1>1, <1>t, <2>1, <3>1, <3>2, WholeStays
  <2>2. ASSUME NEW m \in 0..Len(p), Grows(c, SubSeq(p, 1, m)), p \in Seq(Unit), Packet(p),
               1 \in DOMAIN packets[i], srv'.pc = "drop"
        PROVE  WholeInv'
    <3>1. PICK q : q = SubSeq(p, 1, m)
      OBVIOUS
    <3>2. q \in Seq(Unit) /\ (q # <<>> => q[1].k # "pong")
      <4>1. q \in Seq(Unit) /\ Len(q) = m /\ \A k \in 1..m : q[k] = p[k]
        BY <2>2, <3>1, SplitSeq
      <4>2. p[1].k # "pong"
        BY <2>2 DEF Packet
      <4> HIDE DEF p
      <4>3. q # <<>> => m \in Nat /\ m > 0
        BY <4>1, EmptySeq, LenProperties
      <4> QED BY <4>1, <4>2, <4>3
    <3>3. WholePacket(p) => Aligned(q)
      BY <2>2, <3>1, AlignedPacket, AlignedPrefix
    <3> HIDE DEF p
    <3>g. Grows(c, q)
      BY <2>2, <3>1
    <3>4. Body(c)' = Body(c) \o q /\ Body(c) \in Seq(Unit)
      BY <1>1, <1>o, <1>t, <3>g, <3>2, BodyGrows
    <3>5. \A d \in Conn : /\ Fine(d)' => Fine(d)
                          /\ d # c => down'[d] = down[d]
      <4>1. \A d \in Conn : PongAhead(d)' => PongAhead(d)
        BY <1>1, <1>o, <1>t, <3>g, <3>2, FirstStays
      <4> QED BY <1>1, <1>o, <1>t, <3>g, <3>2, <4>1, FineFalls, GrownSocket
    <3>6. Whole(c)'
      <4>1. Fine(c)' => Aligned(Body(c)) /\ AtEnd(Body(c)) /\ WholePacket(p)
        BY <1>o, <1>w, <2>2, <3>5 DEF p
      <4>2. Fine(c)' => Aligned(Body(c)')
        BY <3>2, <3>3, <3>4, <4>1, AlignedConcat
      <4> QED BY <4>2 DEF Whole
    <3>7. Joined(i)'
      BY <1>1, <2>2 DEF Joined, Leaving
    <3>8. packets' = packets
      BY <1>4, <1>i, SendingStopped
    <3>9. \A j \in Connected : slot[j] = c => Joined(j)'
      BY <1>o, <3>7
    <3> QED BY <1>1, <1>g, <1>j, <1>o, <1>t, <3>5, <3>6, <3>8, <3>9, WholeMoves
  <2> QED BY <1>2, <1>4, <2>1, <2>2, <1>i, SendingStopped
<1> QED BY <1>3, <1>4

LEMMA WholeOfReply ==
  ASSUME IInv, SendReply
  PROVE  WholeInv'
<1>i. PICK i : i = srv.i
  OBVIOUS
<1>2. PICK c : c = slot[i]
  OBVIOUS
<1>t. /\ TypeOK /\ WholeInv /\ slot \in [Slot -> Conn \cup {None}] /\ buf \in [Slot -> Seq(Unit)]
  BY DEF IInv, TypeOK
<1>1. /\ srv.pc = "reply" /\ i \in Connected /\ Replying(i) /\ srv'.pc = "reply" /\ srv'.i = i
      /\ srv.left \in {Pong, Answer, Rest} /\ Head(srv.left) \in Unit
      /\ SendUnit(i, Head(srv.left)) /\ srv'.left = Tail(srv.left)
      /\ UNCHANGED <<up, proc, slot, packets>>
      /\ srv.left \in {Answer, Rest} => buf[i] = <<>>
  BY <1>i, ReplySends
<1>o. c \in Conn /\ i \in Slot /\ \A j \in Connected : slot[j] = c => j = i
  BY <1>1, <1>2, OwnSocket
<1>w. /\ Fine(c) => /\ Aligned(Body(c)) /\ Len(buf[i]) <= 1
                    /\ \A k \in DOMAIN packets[i] : WholePacket(packets[i][k])
      /\ Fine(c) /\ srv.left # Rest => AtEnd(Body(c))
      /\ Fine(c) /\ srv.left = Rest => Body(c) # <<>> /\ Body(c)[Len(Body(c))].k = "data"
  <2>1. ~Leaving(i) /\ (Midway(i) <=> srv.left = Rest)
    BY <1>1 DEF Leaving, Midway
  <2> QED BY <1>1, <1>2, <2>1, OwnSocket
<1>p. Answering(i)
  BY <1>1 DEF IInv, PingInv
<1>3. /\ \A d \in Conn \ {c} : down'[d] = down[d]
      /\ \A j \in Slot \ {i} : buf'[j] = buf[j]
  <2>1. PICK u \in Unit : u = Head(srv.left) /\ SendUnit(i, u)
    BY <1>1
  <2>2. PICK q \in Seq(Unit) : q = <<u>>
    <3>1. <<u>> \in Seq(Unit)
      OBVIOUS
    <3> QED BY <3>1
  <2>3. \/ buf' = buf /\ Grows(c, q)
        \/ buf' = [buf EXCEPT ![i] = Append(buf[i], u)] /\ down' = down
    BY <1>1, <1>2, <1>t, <2>1, <2>2, SentUnit
  <2>4. Grows(c, q) => \A d \in Conn \ {c} : down'[d] = down[d]
    BY <1>o, <1>t, GrownSocket
  <2> QED BY <1>t, <2>3, <2>4
<1>4. \A d \in Conn \ {c} : Fine(d)' => Fine(d)
  BY <1>1, <1>2, <1>3 DEF Fine, Past, PongAhead, Replying
<1>5. /\ ~proc'[c].garbled
      /\ \A j \in Connected : slot[j] # c => /\ packets'[j] = packets[j] /\ buf'[j] = buf[j]
                                             /\ ~Leaving(j) /\ ~Midway(j) /\ ~Midway(j)'
  BY <1>1, <1>2, <1>3, <1>o, <1>t DEF IInv, WholeInv, WholeMessages, Connected, Leaving, Midway, Replying
<1>j. ASSUME Fine(c)' => /\ Fine(c) /\ Aligned(Body(c)') /\ Len(buf'[i]) <= 1
                         /\ IF srv'.left = Rest
                            THEN Body(c)' # <<>> /\ Body(c)'[Len(Body(c)')].k = "data"
                            ELSE AtEnd(Body(c)')
      PROVE  WholeInv'
  <2>1. slot'[i] = c /\ (Midway(i)' <=> srv'.left = Rest)
    BY <1>1, <1>2 DEF Midway, Replying
  <2>2. /\ Fine(slot[i])' <=> Fine(c)'
        /\ Body(slot[i])' = Body(c)'
    BY <2>1 DEF Fine, Past, PongAhead, Body
  <2>3. Fine(slot[i])' => Between(i)'
    BY <1>j, <2>1, <2>2 DEF Between, AtEnd, Closes
  <2>4. Joined(i)'
    BY <1>1, <1>j, <1>w, <2>2, <2>3 DEF Joined
  <2>5. Whole(c)' /\ \A j \in Connected : slot[j] = c => Joined(j)'
    BY <1>j, <1>o, <2>4 DEF Whole
  <2> QED BY <1>1, <1>3, <1>4, <1>5, <1>o, <1>t, <2>5, WholeMoves
<1>6. CASE srv.left = Pong
  <2>1. /\ ~Past(c) /\ ~PongAhead(c) /\ (proc[c].at = "pinging" => up[c] = <<>>)
        /\ srv'.left = <<>> /\ <<>> # Pong /\ <<>> # Rest /\ Pong # Rest
    BY <1>1, <1>2, <1>p, <1>6, Replies DEF Answering
  <2>2. Fine(c)' => PongAhead(c)'
    <3>1. ~Past(c)' /\ ~(proc'[c].at = "pinging" /\ up'[c] = <<"ping">>) /\ srv'.left # Pong
      <4>1. ~Past(c)'
        BY <1>1, <2>1 DEF Past
      <4>2. proc[c].at = "pinging" => up'[c] # <<"ping">>
        <5>1. <<"ping">> # <<>> /\ up'[c] = up[c]
          BY <1>1
        <5>2. proc[c].at = "pinging" => up[c] = <<>>
          BY <2>1
        <5> QED BY Zenon, <5>1, <5>2
      <4>3. srv'.left # Pong
        BY <2>1
      <4> QED BY <1>1, <4>1, <4>2, <4>3
    <3> QED BY <3>1 DEF Fine
  <2>3. PongAhead(c)' => Fine(c)
    <3>1. PongAhead(c)' => proc[c].at = "pinging"
      BY <1>1 DEF PongAhead
    <3>2. slot[i] = c /\ Replying(i) /\ srv.left = Pong
      BY <1>1, <1>2, <1>6
    <3> QED BY <1>o, <3>1, <3>2 DEF Fine
  <2>4. ASSUME PongAhead(c)' PROVE Body(c)' = <<>> /\ buf'[i] = buf[i]
    <3>1. down'[c] # down[c]
      BY <1>1, <2>1, <2>4 DEF PongAhead
    <3>2. Grows(c, <<Head(srv.left)>>) /\ buf' = buf
      BY <1>1, <1>2, <1>t, <3>1, SentUnit
    <3>3. /\ <<Head(srv.left)>> \in Seq(Unit) /\ Len(<<Head(srv.left)>>) = 1
      BY <1>1
    <3>4. PICK q \in Seq(Unit) : q = <<Head(srv.left)>> /\ Len(q) = 1
      BY <3>3
    <3>5. /\ Len(down[c]) \in Nat /\ Len(down'[c]) = Len(down[c]) + 1 /\ down'[c] \in Seq(Unit)
          /\ down[c] = <<>> <=> Len(down[c]) = 0
          /\ \A k \in 1..Len(down[c]) : down'[c][k] = down[c][k]
      BY <1>o, <1>t, <3>2, <3>4, GrownSocket
    <3>6. down[c] = <<>>
      <4>1. ASSUME down[c] # <<>> PROVE FALSE
        <5>1. down'[c][1] = down[c][1]
          BY <3>5, <4>1
        <5> QED BY <1>1, <2>1, <2>4, <4>1, <5>1 DEF PongAhead
      <4> QED BY <4>1
    <3>7. Len(down'[c]) = 1 /\ down'[c] # <<>>
      <4>1. Len(down[c]) = 0
        BY <3>5, <3>6
      <4>2. Len(down'[c]) = 1
        BY <3>5, <4>1
      <4>3. down'[c] # <<>>
        BY <4>2
      <4> QED BY <4>2, <4>3
    <3>8. Tail(down'[c]) \in Seq(Unit) /\ Len(Tail(down'[c])) = 0
      BY <3>5, <3>7, HeadTailProperties
    <3>9. Tail(down'[c]) = <<>>
      BY <3>8, EmptySeq
    <3> QED BY <2>4, <3>2, <3>9 DEF Body
  <2>5. Aligned(<<>>) /\ AtEnd(<<>>)
    BY DEF Aligned, AtEnd
  <2> QED BY <1>j, <1>w, <2>1, <2>2, <2>3, <2>4, <2>5
<1>7. CASE srv.left \in {Answer, Rest}
  <2>1. PICK u \in Unit : u = Head(srv.left)
    BY <1>1
  <2>2. u.k # "pong" /\ u = IF srv.left = Rest THEN Plain("answer") ELSE Plain("data")
    BY <1>7, <2>1, Replies, PlainUnits
  <2>3. Grows(c, <<u>>) /\ buf' = buf /\ <<u>> \in Seq(Unit) /\ <<u>>[1] = u
    BY <1>1, <1>2, <1>7, <1>t, <2>1, SentUnit
  <2>4. /\ PongAhead(c)' <=> PongAhead(c)
        /\ Body(c)' = Body(c) \o <<u>> /\ Body(c) \in Seq(Unit)
    BY <1>1, <1>o, <1>t, <2>2, <2>3, BodyGrows
  <2>5. proc[c].at # "pinging"
    BY <1>1, <1>2, <1>7, <1>p, Replies DEF Answering
  <2>6. Fine(c)' => Fine(c)
    BY <1>1, <2>4, <2>5 DEF Fine, Past
  <2>7. CASE srv.left = Rest
    <3>1. srv'.left # Rest
      BY <1>1, <2>7, Replies
    <3>2. Fine(c) => Aligned(Body(c) \o <<u>>) /\ AtEnd(Body(c) \o <<u>>)
      BY <1>w, <2>2, <2>4, <2>7, AlignedAnswer
    <3> QED BY <1>j, <1>w, <2>3, <2>4, <2>6, <3>1, <3>2
  <2>8. CASE srv.left = Answer
    <3>1. srv'.left = Rest /\ srv.left # Rest
      BY <1>1, <2>8, Replies
    <3>2. PICK q : q = Body(c) \o <<u>>
      OBVIOUS
    <3>3. Fine(c) => Aligned(q) /\ q # <<>> /\ q[Len(q)].k = "data"
      BY <1>w, <2>2, <2>4, <3>1, <3>2, AlignedAnswer
    <3> QED BY <1>j, <1>w, <2>3, <2>4, <2>6, <3>1, <3>2, <3>3
  <2> QED BY <1>7, <2>7, <2>8
<1> QED BY <1>1, <1>6, <1>7

LEMMA WholeOfExit ==
  ASSUME IInv, SendExit
  PROVE  WholeInv'
<1>i. PICK i : i = srv'.i
  OBVIOUS
<1>2. PICK c : c = slot[i]
  OBVIOUS
<1>t. /\ TypeOK /\ WholeInv /\ slot \in [Slot -> Conn \cup {None}] /\ buf \in [Slot -> Seq(Unit)]
  BY DEF IInv, TypeOK
<1>1. /\ srv.pc = "exit" /\ i \in Connected /\ srv'.pc = "bye" /\ srv'.i = i
      /\ SendUnit(i, Plain("exit")) \/ UNCHANGED <<down, buf>>
      /\ UNCHANGED <<up, proc, slot, packets>>
      /\ Plain("exit") \in Unit /\ Plain("exit").k = "exit"
  BY <1>i, ExitSends
<1>o. c \in Conn /\ i \in Slot /\ \A j \in Connected : slot[j] = c => j = i
  BY <1>1, <1>2, OwnSocket
<1>w. Fine(c) => Aligned(Body(c)) /\ AtEnd(Body(c))
  <2>1. ~Leaving(i) /\ ~Midway(i)
    BY <1>1 DEF Leaving, Midway, Replying
  <2> QED BY <1>1, <1>2, <2>1, OwnSocket
<1>3. Joined(i)'
  BY <1>1 DEF Joined, Leaving
<1>4. \A j \in Connected : /\ slot[j] = c => Joined(j)'
                           /\ slot[j] # c => ~Leaving(j) /\ ~Midway(j) /\ ~Midway(j)' /\ packets'[j] = packets[j]
  BY <1>1, <1>2, <1>3, <1>o DEF Leaving, Midway, Replying
<1>5. ~proc'[c].garbled
  BY <1>1, <1>o DEF IInv, WholeInv, WholeMessages
<1>6. CASE down' = down
  <2>1. \A d \in Conn : Fine(d)' => Fine(d)
    BY <1>1, <1>6, FineFalls DEF PongAhead
  <2>2. Body(c)' = Body(c)
    BY <1>1, <1>6 DEF Body, PongAhead
  <2>3. Whole(c)'
    BY <1>o, <1>w, <2>1, <2>2 DEF Whole
  <2>4. \A j \in Connected : slot[j] # c => buf'[j] = buf[j]
    BY <1>1, <1>2, <1>t, SentUnit DEF Connected
  <2> QED BY <1>1, <1>4, <1>5, <1>6, <1>o, <1>t, <2>1, <2>3, <2>4, WholeMoves
<1>7. CASE Grows(c, <<Plain("exit")>>) /\ buf' = buf
  <2>1. PICK q \in Seq(Unit) : q = <<Plain("exit")>> /\ Grows(c, q) /\ q[1].k # "pong"
    <3>1. <<Plain("exit")>> \in Seq(Unit) /\ <<Plain("exit")>>[1] = Plain("exit")
      BY <1>1
    <3> QED BY <1>1, <1>7, <3>1
  <2>2. \A d \in Conn : PongAhead(d)' => PongAhead(d)
    BY <1>1, <1>o, <1>t, <2>1, FirstStays
  <2>3. \A d \in Conn : /\ Fine(d)' => Fine(d)
                        /\ d # c => down'[d] = down[d]
    <3>1. srv'.pc # "reply"
      BY <1>1
    <3>2. \A d \in Conn : Fine(d)' => Fine(d)
      BY <1>1, <2>2, <3>1, FineFalls
    <3>3. \A d \in Conn \ {c} : down'[d] = down[d]
      BY <1>o, <1>t, <2>1, GrownSocket
    <3> QED BY <3>2, <3>3
  <2>4. Body(c)' = Body(c) \o q /\ Body(c) \in Seq(Unit)
    BY <1>1, <1>o, <1>t, <2>1, BodyGrows
  <2>5. Aligned(q)
    BY <1>1, <2>1, AlignedUnit DEF Closes
  <2>6. Fine(c)' => Aligned(Body(c)')
    BY <1>o, <1>w, <2>1, <2>3, <2>4, <2>5, AlignedConcat
  <2>7. Whole(c)'
    BY <2>6 DEF Whole
  <2> QED BY <1>1, <1>4, <1>5, <1>7, <1>o, <1>t, <2>3, <2>7, WholeMoves
<1> QED BY <1>1, <1>2, <1>6, <1>7, <1>t, SentUnit

LEMMA WholeOfProcess ==
  ASSUME IInv, NEW c \in Conn, Step(c)
  PROVE  WholeInv'
<1>t. /\ TypeOK /\ WholeInv /\ slot \in [Slot -> Conn \cup {None}] /\ proc \in [Conn -> Processes]
      /\ down \in [Conn -> Seq(Unit)] /\ up \in [Conn -> Seq(Cmd)] /\ proc[c] \in Processes
  BY DEF IInv, TypeOK
<1>1. UNCHANGED <<slot, packets, buf, srv>>
  BY SlotsSame
<1>2. \A j \in Connected : (Leaving(j)' <=> Leaving(j)) /\ (Midway(j)' <=> Midway(j))
  BY <1>1 DEF Leaving, Midway, Replying
<1>3. ~proc[c].garbled
  BY <1>t DEF WholeInv, WholeMessages
<1>j. ASSUME NEW i \in Connected, slot[i] = c
      PROVE  /\ Joined(i)
             /\ Joined(i)' <=> (Fine(c)' /\ ~Leaving(i) =>
                                  /\ \A k \in DOMAIN packets[i] : WholePacket(packets[i][k])
                                  /\ Len(buf[i]) <= 1
                                  /\ IF Midway(i) THEN Body(c)' # <<>> /\ Body(c)'[Len(Body(c)')].k = "data"
                                     ELSE AtEnd(Body(c)'))
  <2>1. slot'[i] = c
    BY <1>1, <1>j
  <2>2. Joined(i)
    BY <1>t DEF WholeInv
  <2>3. (Fine(slot[i])' <=> Fine(c)') /\ (Body(slot[i])' = Body(c)')
    BY <2>1 DEF Fine, Past, PongAhead, Body
  <2>4. Between(i)' <=> (IF Midway(i) THEN Body(c)' # <<>> /\ Body(c)'[Len(Body(c)')].k = "data"
                         ELSE AtEnd(Body(c)'))
    BY <1>2, <2>3 DEF Between, AtEnd, Closes
  <2> QED BY <1>1, <1>2, <2>2, <2>3, <2>4 DEF Joined
<1>m. ASSUME \A d \in Conn \ {c} : proc'[d] = proc[d] /\ down'[d] = down[d] /\ up'[d] = up[d],
             ~proc'[c].garbled, Whole(c)', \A i \in Connected : slot[i] = c => Joined(i)'
      PROVE  WholeInv'
  <2>1. ASSUME NEW d \in Conn \ {c} PROVE Fine(d)' => Fine(d)
    <3>1. proc'[d] = proc[d] /\ up'[d] = up[d] /\ (PongAhead(d)' => PongAhead(d))
      BY <1>m DEF PongAhead
    <3> QED BY <1>1, <3>1, FineFalls
  <2> QED BY <1>1, <1>2, <1>m, <1>t, <2>1, WholeMoves
\* The same for a process of which nobody knows, or that has read its pong.
<1>s. ASSUME \A d \in Conn \ {c} : proc'[d] = proc[d] /\ down'[d] = down[d] /\ up'[d] = up[d],
             ~proc'[c].garbled, Fine(c)' => Fine(c), Body(c)' = Body(c)
      PROVE  WholeInv'
  <2>1. Whole(c)'
    BY <1>s, <1>t DEF WholeInv, Whole
  <2>2. ASSUME NEW i \in Connected, slot[i] = c PROVE Joined(i)'
    <3>1. Joined(i) => (Fine(c) /\ ~Leaving(i) =>
            /\ \A k \in DOMAIN packets[i] : WholePacket(packets[i][k])
            /\ Len(buf[i]) <= 1
            /\ IF Midway(i) THEN Body(c) # <<>> /\ Body(c)[Len(Body(c))].k = "data"
               ELSE AtEnd(Body(c)))
      BY <2>2 DEF Joined, Between
    <3> QED BY <1>j, <1>s, <2>2, <3>1
  <2> QED BY <1>m, <1>s, <2>1, <2>2
<1>g. ASSUME Gone(c), up' = up PROVE WholeInv'
  <2>1. /\ proc'[c].at = "gone" /\ ~proc'[c].garbled
        /\ \A d \in Conn \ {c} : proc'[d] = proc[d] /\ down'[d] = down[d]
    BY <1>3, <1>g, <1>t DEF Gone, Processes
  <2>2. ~Fine(c)'
    BY <2>1 DEF Fine, Past, PongAhead
  <2>3. \A i \in Connected : slot[i] = c => Joined(i)'
    BY <1>j, <2>2
  <2> QED BY <1>g, <1>m, <2>1, <2>2, <2>3 DEF Whole
<1>4. CASE Connect(c)
  <2>1. /\ proc[c].at = "out" /\ proc' = [proc EXCEPT ![c] = [proc[c] EXCEPT !.at = "pinging"]]
        /\ up' = [up EXCEPT ![c] = <<"ping">>] /\ down' = down
    BY <1>4, <1>t DEF Connect, Goes
  <2>2. /\ ~proc'[c].garbled
        /\ \A d \in Conn \ {c} : proc'[d] = proc[d] /\ up'[d] = up[d]
    BY <1>3, <1>t, <2>1 DEF Processes
  <2>3. down[c] = <<>> /\ \A i \in Slot : slot[i] # c
    BY <2>1 DEF IInv, PlaceInv
  <2>4. Body(c)' = <<>>
    BY <2>1, <2>3 DEF Body, PongAhead
  <2>5. Whole(c)'
    BY <2>4 DEF Whole, Aligned
  <2>6. \A i \in Connected : slot[i] = c => Joined(i)'
    BY <2>3 DEF Connected
  <2> QED BY <1>m, <2>1, <2>2, <2>5, <2>6
<1>5. CASE ReadPong(c)
  <2>1. down[c] # <<>> /\ up' = up /\ proc[c].at = "pinging"
    BY <1>5 DEF ReadPong
  <2>2. CASE /\ Head(down[c]).k = "pong" /\ Goes(c, "open")
             /\ down' = [down EXCEPT ![c] = Tail(down[c])]
    <3>1. /\ proc'[c].at = "open" /\ ~proc'[c].garbled
          /\ \A d \in Conn \ {c} : proc'[d] = proc[d] /\ down'[d] = down[d]
          /\ down'[c] = Tail(down[c])
      BY <1>3, <1>t, <2>2 DEF Goes, Processes
    <3>2. Head(down[c]) = down[c][1]
      BY <1>t, <2>1
    <3>3. PongAhead(c) /\ ~PongAhead(c)'
      BY <2>1, <2>2, <3>1, <3>2 DEF PongAhead
    <3>4. Fine(c) /\ Body(c)' = Body(c)
      BY <3>1, <3>3 DEF Fine, Body
    <3> QED BY <1>s, <2>1, <3>1, <3>4
  <2> QED BY <1>5, <1>g, <2>1, <2>2 DEF ReadPong
<1>6. CASE SendCommand(c) \/ \E cmd \in Commands[c] : Wants(c, cmd)
  <2>1. /\ down' = down /\ Past(c)
        /\ \A d \in Conn \ {c} : proc'[d] = proc[d] /\ up'[d] = up[d]
    BY <1>6, <1>t DEF SendCommand, Wants, Past
  <2>2. Past(c)' /\ ~proc'[c].garbled
    <3>1. CASE SendCommand(c)
      <4>1. proc'[c].at \in {"waiting", "leaving", "open"}
        BY <1>t, <3>1 DEF SendCommand, Processes
      <4>2. proc'[c].garbled = proc[c].garbled
        BY <1>t, <3>1 DEF SendCommand, Processes
      <4> QED BY <1>3, <4>1, <4>2 DEF Past
    <3>2. ASSUME NEW cmd \in Commands[c], Wants(c, cmd)
          PROVE  proc'[c].at = "sending" /\ proc'[c].garbled = proc[c].garbled
      BY <1>t, <3>2 DEF Wants, Processes
    <3> QED BY <1>3, <1>6, <3>1, <3>2 DEF Past
  <2>3. Body(c)' = Body(c) /\ Fine(c)
    BY <2>1, <2>2 DEF Body, PongAhead, Past, Fine
  <2> QED BY <1>s, <2>1, <2>2, <2>3
<1>7. CASE ReadMessage(c)
  <2>1. /\ Past(c) /\ Fine(c) /\ up' = up /\ Len(down[c]) > 1
        /\ \A d \in Conn \ {c} : proc'[d] = proc[d] /\ down'[d] = down[d]
    BY <1>7, <1>t DEF ReadMessage, Past, Fine
  <2>2. PICK s \in Seq(Unit) : s = down[c] /\ Len(s) > 1 /\ Body(c) = s
    BY <1>t, <2>1 DEF Body, PongAhead, Past
  <2>3. PICK r : r = SubSeq(s, 3, Len(s))
    OBVIOUS
  <2>4. Aligned(s)
    BY <1>t, <2>1, <2>2 DEF WholeInv, Whole
  <2>5. /\ Complete(s[1], s[2]) /\ Aligned(r) /\ (AtEnd(s) => AtEnd(r))
        /\ s[Len(s)].k = "data" => r # <<>> /\ r[Len(r)].k = "data"
    BY <2>2, <2>3, <2>4, AlignedRead
  <2>6. ~proc'[c].garbled
    <3>1. proc' = [proc EXCEPT ![c].garbled = ~Complete(s[1], s[2]),
                     ![c].last = IF s[1].by \in Thread THEN [@ EXCEPT ![s[1].by] = s[1].n] ELSE @,
                     ![c].at = IF Complete(s[1], s[2]) /\ s[1].k = "data" THEN "open" ELSE @]
      BY <1>7, <2>2 DEF ReadMessage
    <3> QED BY <1>t, <2>5, <3>1 DEF Processes
  <2>7. Past(c)'
    BY <1>7, <1>t, <2>1 DEF ReadMessage, Past, Processes
  <2>8. Body(c)' = r
    BY <1>7, <1>t, <2>2, <2>3, <2>7 DEF ReadMessage, Body, PongAhead, Past
  <2>9. Whole(c)'
    BY <2>5, <2>8 DEF Whole
  <2>10. ASSUME NEW i \in Connected, slot[i] = c PROVE Joined(i)'
    <3>1. Joined(i) => (~Leaving(i) =>
            /\ \A k \in DOMAIN packets[i] : WholePacket(packets[i][k])
            /\ Len(buf[i]) <= 1
            /\ IF Midway(i) THEN s # <<>> /\ s[Len(s)].k = "data" ELSE AtEnd(s))
      BY <2>1, <2>2, <2>10 DEF Joined, Between
    <3> QED BY <1>j, <2>5, <2>8, <2>10, <3>1
  <2> QED BY <1>m, <2>1, <2>6, <2>9, <2>10
<1>8. CASE Ends(c) \/ Die(c)
  BY <1>8, <1>g DEF Ends, Die
<1> QED BY <1>4, <1>5, <1>6, <1>7, <1>8 DEF Step

LEMMA WholeOfSelect ==
  ASSUME IInv, Select
  PROVE  WholeInv'
<1>t. /\ TypeOK /\ WholeInv /\ slot \in [Slot -> Conn \cup {None}] /\ packets \in [Slot -> Seq(Seq(Unit))]
      /\ down \in [Conn -> Seq(Unit)] /\ srv \in Servers
  BY DEF IInv, TypeOK
<1>1. srv.pc = "select" /\ srv'.pc # "reply" /\ srv'.pc # "drop" /\ srv'.pc # "bye"
  BY <1>t DEF Select, ServerAt, Servers
<1>2. UNCHANGED <<up, proc, buf>>
  BY DEF Select
<1>3. \A j \in Slot : ~Leaving(j) /\ ~Midway(j) /\ ~Leaving(j)' /\ ~Midway(j)'
  BY <1>1 DEF Leaving, Midway, Replying
<1>4. CASE down' = down /\ (UNCHANGED <<slot, packets>> \/ \E f \in Slot \ Connected : Admits(f, backlog[1]))
  <2>1. \A c \in Conn : Fine(c)' => Fine(c)
    BY <1>1, <1>2, <1>4, FineFalls DEF PongAhead
  <2>2. CASE UNCHANGED <<slot, packets>>
    <3>1. \A i \in Connected' : i \in Connected /\ slot[i] \in Conn
      BY <1>t, <2>2 DEF Connected
    <3> QED BY <1>2, <1>3, <1>4, <1>t, <2>1, <2>2, <3>1, WholeStays DEF Connected
  <2>3. ASSUME NEW f \in Slot \ Connected, Admits(f, backlog[1]), backlog # <<>>,
               backlog[1] \in Conn, 1 \in DOMAIN backlog
        PROVE  WholeInv'
    <3>1. PICK c : c = backlog[1]
      OBVIOUS
    <3>2. /\ slot'[f] = c /\ packets'[f] = <<>>
          /\ \A i \in Slot \ {f} : slot'[i] = slot[i] /\ packets'[i] = packets[i]
      BY <1>t, <2>3, <3>1 DEF Admits
    <3>3. down[c] = <<>>
      BY <2>3, <3>1 DEF IInv, PlaceInv
    <3>4. buf[f] = <<>>
      BY <2>3 DEF IInv, BufInv, Connected
    <3>5. AtEnd(Body(c)')
      BY <1>4, <3>3 DEF AtEnd, Body, PongAhead
    <3>6. Joined(f)'
      <4>1. Body(slot[f])' = Body(c)'
        BY <3>2 DEF Body, PongAhead
      <4>2. Between(f)'
        BY <1>3, <2>3, <3>5, <4>1 DEF Between, AtEnd, Closes
      <4>3. DOMAIN packets'[f] = {} /\ Len(buf'[f]) = 0
        BY <1>2, <3>2, <3>4
      <4> QED BY <4>2, <4>3 DEF Joined
    <3>7. \A i \in Connected' \ {f} : i \in Connected /\ slot[i] \in Conn
      BY <1>t, <3>2 DEF Connected
    <3>8. ASSUME NEW i \in Connected', i # f
          PROVE  /\ i \in Connected /\ slot[i] \in Conn
                 /\ slot'[i] = slot[i] /\ packets'[i] = packets[i] /\ buf'[i] = buf[i]
                 /\ ~Leaving(i)' => ~Leaving(i) /\ (Midway(i)' <=> Midway(i))
      <4>1. i \in Slot
        BY DEF Connected
      <4> QED BY <1>2, <1>3, <3>2, <3>7, <3>8, <4>1
    <3> QED BY <1>2, <1>4, <1>t, <2>1, <3>6, <3>8, WholeStays
  <2> QED BY <1>4, <2>2, <2>3, SlotTaken
<1>5. CASE /\ Turns(backlog[1]) /\ backlog[1] \in Conn /\ 1 \in DOMAIN backlog
  <2>1. PICK c \in Conn : c = backlog[1]
    BY <1>5
  <2>2. /\ down'[c] = <<Plain("busy")>> /\ \A d \in Conn \ {c} : down'[d] = down[d]
        /\ UNCHANGED <<slot, packets>>
    BY <1>5, <1>t, <2>1 DEF Turns
  <2>3. \A i \in Slot : slot[i] # c
    BY <1>5, <2>1 DEF IInv, PlaceInv
  <2>4. <<Plain("busy")>>[1].k = "busy" /\ Plain("busy").k = "busy" /\ Plain("busy") \in Unit
    BY PlainUnits
  <2>5. Body(c)' = <<Plain("busy")>>
    BY <2>2, <2>4 DEF Body, PongAhead
  <2>6. Aligned(<<Plain("busy")>>)
    BY <2>4, AlignedUnit DEF Closes
  <2>7. Whole(c)' /\ ~proc'[c].garbled
    BY <1>2, <1>t, <2>5, <2>6 DEF Whole, WholeInv, WholeMessages
  <2>8. ASSUME NEW d \in Conn \ {c} PROVE Fine(d)' => Fine(d)
    BY <1>1, <1>2, <2>2, FineFalls DEF PongAhead
  <2>9. \A i \in Connected : /\ slot[i] # c /\ packets'[i] = packets[i] /\ buf'[i] = buf[i]
                             /\ ~Leaving(i) /\ ~Midway(i) /\ ~Midway(i)'
    BY <1>2, <1>3, <2>2, <2>3 DEF Connected
  <2> QED BY <1>2, <1>t, <2>2, <2>7, <2>8, <2>9, WholeMoves
<1> QED BY <1>4, <1>5, SlotTaken DEF Admits

LEMMA WholeStep ==
  ASSUME IInv, [Next]_vars
  PROVE  WholeInv'
<1>t. /\ TypeOK /\ WholeInv /\ slot \in [Slot -> Conn \cup {None}] /\ packets \in [Slot -> Seq(Seq(Unit))]
      /\ up \in [Conn -> Seq(Cmd)] /\ srv \in Servers /\ srv.i \in Slot
  BY DEF IInv, TypeOK, Servers
<1>s. \A i \in Connected : slot[i] \in Conn /\ i \in Slot
  BY <1>t DEF Connected
<1>1. CASE PlayerEvent \/ (\E i \in Slot : TagsAnswer(i)) \/ UNCHANGED vars
  <2>1. UNCHANGED <<proc, down, up, srv, slot, packets, buf>>
    BY <1>1 DEF PlayerEvent, TagsAnswer, vars, sockets, slots
  <2>2. \A c \in Conn : Fine(c)' => Fine(c)
    BY <2>1 DEF Fine, Past, PongAhead, Replying
  <2> QED BY <1>s, <1>t, <2>1, <2>2, WholeStays DEF Connected, Leaving, Midway, Replying
<1>2. CASE Turn \/ SignalQuit \/ SendEvents \/ ReplySent \/ ReplyFails \/ ShutDown
  <2>1. UNCHANGED <<proc, down, up, slot, packets, buf>>
    BY <1>2 DEF Turn, SignalQuit, SendEvents, ReplySent, ReplyFails, ShutDown, sockets, slots
  <2>2. srv'.pc # "reply"
    BY <1>2, <1>t DEF Turn, SignalQuit, SendEvents, ReplySent, ReplyFails, ShutDown, Servers
  <2>3. \A c \in Conn : Fine(c)' => Fine(c)
    BY <2>1, <2>2, FineFalls DEF PongAhead
  <2>4. srv.pc \notin {"drop", "bye"}
    BY <1>2 DEF Turn, SignalQuit, SendEvents, ReplySent, ReplyFails, ShutDown, Serving, ServerAt
  <2>5. ASSUME NEW i \in Connected, Midway(i) PROVE Leaving(i)'
    <3>1. srv.pc = "reply" /\ srv.i = i /\ srv.left # <<>>
      BY <2>5, Replies DEF Midway, Replying
    <3>2. ReplyFails
      BY <1>2, <3>1 DEF Turn, SignalQuit, SendEvents, ReplySent, ShutDown, Serving, ServerAt
    <3> QED BY <1>t, <3>1, <3>2 DEF ReplyFails, Leaving, Servers
  <2>6. \A i \in Connected : ~Leaving(i) /\ ~Midway(i)'
    BY <2>2, <2>4 DEF Leaving, Midway, Replying
  <2> QED BY <1>s, <1>t, <2>1, <2>3, <2>5, <2>6, WholeStays DEF Connected
<1>3. CASE DropClient \/ DropExiting
  <2>1. PICK i : i = srv.i
    OBVIOUS
  <2>2. /\ UNCHANGED <<proc, down, up, buf>> /\ srv'.pc \in {"serve", "exit"} /\ srv.pc \in {"drop", "bye"}
        /\ slot' = [slot EXCEPT ![i] = None] /\ packets' = [packets EXCEPT ![i] = <<>>]
    BY <1>3, <1>t, <2>1 DEF DropClient, DropExiting, Drop, Forget, Servers, ServerAt
  <2>3. \A c \in Conn : Fine(c)' => Fine(c)
    BY <2>2, FineFalls DEF PongAhead
  <2>4. \A j \in Connected' : /\ j \in Connected /\ slot[j] \in Conn /\ j # i
                              /\ slot'[j] = slot[j] /\ packets'[j] = packets[j]
    BY <1>t, <2>1, <2>2 DEF Connected
  <2>5. ASSUME NEW j \in Connected' PROVE ~Leaving(j) /\ ~Midway(j) /\ ~Midway(j)'
    BY <2>1, <2>2, <2>4 DEF Leaving, Midway, Replying
  <2> QED BY <1>t, <2>2, <2>3, <2>4, <2>5, WholeStays
<1>4. CASE HandleCommand
  <2>1. PICK j \in srv.read : /\ j \in Connected
                              /\ NoCommand(j) \/ \E cmd \in Cmd : Takes(j, cmd)
    BY <1>4, CommandTaken
  <2>2. Serving /\ UNCHANGED <<down, proc, slot, packets, buf>>
    BY <1>4, CommandTaken
  <2>3. \A i \in Connected : ~Leaving(i) /\ ~Midway(i)
    BY <2>2 DEF Serving, ServerAt, Leaving, Midway, Replying
  <2>4. CASE NoCommand(j)
    <3>1. srv'.pc = "drop" /\ up' = up
      BY <1>t, <2>4 DEF NoCommand, Handling, Forget, Servers
    <3>2. \A c \in Conn : Fine(c)' => Fine(c)
      BY <2>2, <3>1, FineFalls DEF PongAhead
    <3>3. \A i \in Connected : ~Midway(i)'
      BY <3>1 DEF Midway, Replying
    <3> QED BY <1>s, <1>t, <2>2, <2>3, <3>2, <3>3, WholeStays DEF Connected
  <2>5. ASSUME NEW cmd \in Cmd, Takes(j, cmd) PROVE WholeInv'
    <3>1. PICK c \in Conn : c = slot[j]
      BY <1>s, <2>1
    <3>2. /\ up[c] # <<>> /\ up[c] \in Seq(Cmd) /\ cmd = Head(up[c]) /\ up'[c] = Tail(up[c])
          /\ \A d \in Conn \ {c} : up'[d] = up[d]
      BY <1>t, <2>5, <3>1 DEF Takes
    <3>3. Pinged(c) /\ Head(up[c]) = up[c][1] /\ 1 \in DOMAIN up[c]
      BY <3>2, EmptySeq, LenProperties DEF IInv, PingInv
    <3>4. proc[c].at = "pinging" => up[c] = <<"ping">>
      BY <3>2, <3>3 DEF Pinged
    <3>5. up[c] = <<"ping">> => up'[c] # <<"ping">>
      <4>1. Len(Tail(up[c])) = Len(up[c]) - 1
        BY <3>2, HeadTailProperties
      <4>2. Len(<<"ping">>) = 1
        OBVIOUS
      <4>3. up[c] = <<"ping">> => Len(up'[c]) = 0
        BY <3>2, <4>1, <4>2
      <4> QED BY <4>2, <4>3
    <3>6. srv'.pc = "reply" => srv'.i = j /\ srv'.left \in {Pong, Answer}
      BY <1>t, <2>5 DEF Takes, Answers, Sets, Asks, Leaves, Reply, Handling, Forget, Servers
    <3>7. ASSUME NEW d \in Conn, Fine(d)' PROVE Fine(d)
      <4>1. CASE d = c
        <5>1. CASE proc[c].at = "pinging"
          BY <3>4, <4>1, <5>1 DEF Fine
        <5>2. CASE proc[c].at # "pinging"
          BY <2>2, <3>7, <4>1, <5>2 DEF Fine, Past, PongAhead
        <5> QED BY <5>1, <5>2
      <4>2. CASE d # c
        <5>1. ~\E i \in Slot : slot'[i] = d /\ Replying(i)'
          BY <2>2, <3>1, <3>6, <4>2 DEF Replying
        <5> QED BY <2>2, <3>2, <3>7, <4>2, <5>1 DEF Fine, Past, PongAhead
      <4> QED BY <4>1, <4>2
    <3>8. \A i \in Connected : ~Midway(i)'
      BY <3>6, Replies DEF Midway, Replying
    <3> QED BY <1>s, <1>t, <2>2, <2>3, <3>7, <3>8, WholeStays DEF Connected
  <2> QED BY <2>1, <2>4, <2>5
<1> QED BY <1>1, <1>2, <1>3, <1>4, Steps, WholeOfThread, WholeOfPacket, WholeOfReply, WholeOfExit,
           WholeOfProcess, WholeOfSelect DEF SendStep, ReplyStep, ExitStep

-----------------------------------------------------------------------------
(* Events in order                                                         *)

Producer == {"server", "player"}
Ordered(i) == \A t \in Producer :
                ~Dropping(i) => InOrder(Stream(i), t, proc[slot[i]].last[t], Newest(i, t))
Event(s, t, k) == k \in DOMAIN s /\ EventOf(s[k], t)

LEMMA InOrderIs ==
  ASSUME NEW s, NEW t, NEW l, NEW n
  PROVE  InOrder(s, t, l, n) <=>
           /\ l <= n
           /\ \A k : Event(s, t, k) => l < s[k].n /\ s[k].n <= n
           /\ \A j, k : Event(s, t, j) /\ Event(s, t, k) /\ j < k => s[j].n < s[k].n
           /\ \A m \in l + 1..n : l # 0 \/ (\E k : Event(s, t, k) /\ s[k].n <= m)
                                    => \E k : Event(s, t, k) /\ s[k].n = m
<1> DEFINE Events == {k \in DOMAIN s : EventOf(s[k], t)}
<1>1. \A k : k \in Events <=> Event(s, t, k)
  BY DEF Event
<1>2. InOrder(s, t, l, n) <=>
        /\ l <= n /\ \A k \in Events : l < s[k].n /\ s[k].n <= n
        /\ \A j, k \in Events : j < k => s[j].n < s[k].n
        /\ \A m \in l + 1..n : l # 0 \/ (\E k \in Events : s[k].n <= m)
                                => \E k \in Events : s[k].n = m
  BY DEF InOrder
<1> HIDE DEF Events
<1> QED BY Zenon, <1>1, <1>2

\* What has the same events in the same order.
LEMMA SameEvents ==
  ASSUME NEW s, NEW q, NEW t, NEW l, NEW n, NEW f, InOrder(s, t, l, n),
         \A k : Event(q, t, k) => Event(s, t, f[k]) /\ s[f[k]] = q[k],
         \A j, k : Event(q, t, j) /\ Event(q, t, k) /\ j < k => f[j] < f[k],
         \A j : Event(s, t, j) => \E k : Event(q, t, k) /\ q[k] = s[j]
  PROVE  InOrder(q, t, l, n)
<1>1. l <= n
  BY InOrderIs
<1>2. \A k : Event(q, t, k) => l < q[k].n /\ q[k].n <= n
  <2>1. \A k : Event(s, t, k) => l < s[k].n /\ s[k].n <= n
    BY InOrderIs
  <2> QED BY <2>1
<1>3. \A j, k : Event(q, t, j) /\ Event(q, t, k) /\ j < k => q[j].n < q[k].n
  <2>1. \A j, k : Event(s, t, j) /\ Event(s, t, k) /\ j < k => s[j].n < s[k].n
    BY InOrderIs
  <2> QED BY <2>1
<1>4. ASSUME NEW m \in l + 1..n, l # 0 \/ \E k : Event(q, t, k) /\ q[k].n <= m
      PROVE  \E k : Event(q, t, k) /\ q[k].n = m
  <2>1. l # 0 \/ \E k : Event(s, t, k) /\ s[k].n <= m
    BY <1>4
  <2>2. \E k : Event(s, t, k) /\ s[k].n = m
    BY <2>1, InOrderIs
  <2> QED BY <2>2
<1> QED BY <1>1, <1>2, <1>3, <1>4, InOrderIs

\* Units that are no events, put in anywhere.
LEMMA OthersPutIn ==
  ASSUME NEW s \in Seq(Unit), NEW q \in Seq(Unit), NEW t, NEW l, NEW n, InOrder(s, t, l, n),
         NEW a \in 0..Len(s), NEW m \in Nat, Len(q) = Len(s) + m,
         \A k \in 1..a : q[k] = s[k],
         \A k \in 1..m : ~EventOf(q[a + k], t),
         \A k \in a + 1..Len(s) : q[k + m] = s[k]
  PROVE  InOrder(q, t, l, n)
<1> DEFINE f == [k \in 1..Len(q) |-> IF k <= a THEN k ELSE k - m]
<1>1. Len(s) \in Nat /\ DOMAIN s = 1..Len(s) /\ DOMAIN q = 1..Len(s) + m
  BY LenProperties
<1>2. ASSUME NEW k, Event(q, t, k)
      PROVE  /\ k \in 1..Len(s) + m /\ (k <= a \/ k > a + m)
             /\ Event(s, t, f[k]) /\ s[f[k]] = q[k]
  <2>1. k \in 1..Len(s) + m /\ EventOf(q[k], t)
    BY <1>1, <1>2 DEF Event
  <2>2. CASE k <= a
    <3>1. f[k] = k /\ k \in 1..a
      BY <2>1, <2>2
    <3>2. k \in DOMAIN s /\ q[k] = s[k]
      BY <1>1, <3>1
    <3> QED BY <2>1, <2>2, <3>1, <3>2 DEF Event
  <2>3. CASE k > a
    <3>1. k > a + m
      <4>1. ASSUME k <= a + m PROVE FALSE
        <5>1. PICK j \in 1..m : k = a + j
          <6>1. k - a \in 1..m /\ k = a + (k - a)
            BY <1>1, <2>1, <2>3, <4>1
          <6> QED BY <6>1
        <5> QED BY <2>1, <5>1
      <4> QED BY <1>1, <2>1, <4>1
    <3>2. PICK j \in a + 1..Len(s) : k = j + m
      <4>1. k - m \in a + 1..Len(s) /\ k = k - m + m
        BY <1>1, <2>1, <3>1
      <4> QED BY <4>1
    <3>3. f[k] = j
      BY <1>1, <2>1, <2>3, <3>2
    <3>4. q[k] = s[j] /\ j \in DOMAIN s
      BY <1>1, <3>2
    <3> HIDE DEF f
    <3> QED BY <2>1, <3>1, <3>3, <3>4 DEF Event
  <2> QED BY <1>1, <2>1, <2>2, <2>3
<1>3. ASSUME NEW j, NEW k, Event(q, t, j), Event(q, t, k), j < k PROVE f[j] < f[k]
  <2>1. /\ j \in 1..Len(s) + m /\ (j <= a \/ j > a + m)
        /\ k \in 1..Len(s) + m /\ (k <= a \/ k > a + m)
    BY <1>2, <1>3
  <2> QED BY <1>1, <1>3, <2>1
<1>4. ASSUME NEW j, Event(s, t, j) PROVE \E k : Event(q, t, k) /\ q[k] = s[j]
  <2>1. j \in 1..Len(s) /\ EventOf(s[j], t)
    BY <1>1, <1>4 DEF Event
  <2>2. CASE j <= a
    <3>1. q[j] = s[j] /\ j \in DOMAIN q
      BY <1>1, <2>1, <2>2
    <3> QED BY <2>1, <3>1 DEF Event
  <2>3. CASE j > a
    <3>1. q[j + m] = s[j] /\ j + m \in DOMAIN q
      BY <1>1, <2>1, <2>3
    <3> QED BY <2>1, <3>1 DEF Event
  <2> QED BY <1>1, <2>1, <2>2, <2>3
<1> HIDE DEF f
<1> QED BY ZenonT(20), <1>2, <1>3, <1>4, SameEvents

\* An event is queued: the next one.
LEMMA NextEvent ==
  ASSUME NEW s \in Seq(Unit), NEW u \in Unit, NEW t, NEW l \in Nat, NEW n \in Int,
         InOrder(s, t, l, n - 1), EventOf(u, t), u.n = n
  PROVE  InOrder(Append(s, u), t, l, n)
<1>1. PICK q : q = Append(s, u)
  OBVIOUS
<1>2. PICK h \in Nat : h = Len(s) /\ DOMAIN s = 1..h
  BY LenProperties
<1>3. /\ q \in Seq(Unit) /\ DOMAIN q = 1..h + 1 /\ q[h + 1] = u
      /\ \A k \in 1..h : q[k] = s[k]
  BY <1>1, <1>2, AppendProperties, LenProperties
<1>4. \A k : Event(q, t, k) <=> k = h + 1 \/ Event(s, t, k)
  BY <1>2, <1>3 DEF Event
<1>5. \A k : Event(s, t, k) => k \in 1..h /\ q[k] = s[k] /\ s[k].n \in Nat
  <2>1. \A k \in 1..h : s[k] \in Unit
    BY <1>2, ElementOfSeq
  <2>2. \A v \in Unit : v.n \in Nat
    BY DEF Unit
  <2> QED BY <1>2, <1>3, <2>1, <2>2 DEF Event
<1>6. /\ l <= n - 1
      /\ \A k : Event(s, t, k) => l < s[k].n /\ s[k].n <= n - 1
      /\ \A j, k : Event(s, t, j) /\ Event(s, t, k) /\ j < k => s[j].n < s[k].n
      /\ \A m \in l + 1..n - 1 : l # 0 \/ (\E k : Event(s, t, k) /\ s[k].n <= m)
                                   => \E k : Event(s, t, k) /\ s[k].n = m
  BY InOrderIs
<1>7. l <= n /\ \A k : Event(q, t, k) => l < q[k].n /\ q[k].n <= n
  BY SMTT(20), <1>3, <1>4, <1>5, <1>6
<1>8. \A j, k : Event(q, t, j) /\ Event(q, t, k) /\ j < k => q[j].n < q[k].n
  BY SMTT(20), <1>3, <1>4, <1>5, <1>6
<1>9. ASSUME NEW m \in l + 1..n, l # 0 \/ \E k : Event(q, t, k) /\ q[k].n <= m
      PROVE  \E k : Event(q, t, k) /\ q[k].n = m
  <2>1. CASE m = n
    BY <1>3, <1>4, <2>1
  <2>2. CASE m # n
    <3>1. m \in l + 1..n - 1
      BY <2>2
    <3>2. l # 0 \/ \E k : Event(s, t, k) /\ s[k].n <= m
      BY <1>3, <1>4, <1>5, <1>9, <3>1
    <3>3. PICK k : Event(s, t, k) /\ s[k].n = m
      BY <1>6, <3>1, <3>2
    <3> QED BY <1>4, <1>5, <3>3
  <2> QED BY <2>1, <2>2
<1> QED BY <1>1, <1>7, <1>8, <1>9, InOrderIs

\* What is left of a stream when its first units are read.
LEMMA RestOf ==
  ASSUME NEW s \in Seq(Unit), NEW q \in Seq(Unit), NEW t, NEW d \in 0..Len(s),
         Len(q) = Len(s) - d, \A k \in 1..Len(q) : q[k] = s[k + d]
  PROVE  /\ \A k : Event(q, t, k) => k \in Nat /\ Event(s, t, k + d) /\ q[k] = s[k + d]
         /\ \A k : Event(s, t, k) /\ k > d => Event(q, t, k - d) /\ q[k - d] = s[k]
         /\ \A k : Event(s, t, k) => k \in 1..Len(s) /\ s[k].n \in Nat
<1>1. PICK h \in Nat : h = Len(s) /\ DOMAIN s = 1..h /\ DOMAIN q = 1..h - d /\ d \in 0..h
  BY LenProperties
<1>2. ASSUME NEW k, Event(q, t, k)
      PROVE  k \in Nat /\ Event(s, t, k + d) /\ q[k] = s[k + d]
  BY <1>1, <1>2 DEF Event
<1>3. ASSUME NEW k, Event(s, t, k), k > d
      PROVE  Event(q, t, k - d) /\ q[k - d] = s[k]
  <2>1. PICK j \in 1..h - d : k = j + d
    <3>1. k \in 1..h
      BY <1>1, <1>3 DEF Event
    <3>2. k - d \in 1..h - d /\ k = k - d + d
      BY <1>1, <1>3, <3>1
    <3> QED BY <3>2
  <2>2. q[j] = s[k] /\ j \in DOMAIN q /\ k - d = j
    BY <1>1, <2>1
  <2> QED BY <1>3, <2>2 DEF Event
<1>4. ASSUME NEW k, Event(s, t, k) PROVE k \in 1..Len(s) /\ s[k].n \in Nat
  <2>1. k \in 1..Len(s)
    BY <1>1, <1>4 DEF Event
  <2>2. s[k] \in Unit
    BY <2>1, ElementOfSeq
  <2> QED BY <2>1, <2>2 DEF Unit
<1> QED BY <1>2, <1>3, <1>4

LEMMA OthersRead ==
  ASSUME NEW s \in Seq(Unit), NEW q \in Seq(Unit), NEW t, NEW l, NEW n, InOrder(s, t, l, n),
         NEW d \in 0..Len(s), Len(q) = Len(s) - d, \A k \in 1..Len(q) : q[k] = s[k + d],
         \A k \in 1..d : ~EventOf(s[k], t)
  PROVE  InOrder(q, t, l, n)
<1> DEFINE f == [k \in 1..Len(q) |-> k + d]
<1>1. Len(s) \in Nat /\ Len(q) \in Nat /\ DOMAIN q = 1..Len(q)
  BY LenProperties
<1>2. ASSUME NEW k, Event(q, t, k) PROVE k \in 1..Len(q) /\ Event(s, t, f[k]) /\ s[f[k]] = q[k]
  <2>1. k \in 1..Len(q)
    BY <1>1, <1>2 DEF Event
  <2> QED BY <1>2, <2>1, RestOf
<1>3. \A j, k : Event(q, t, j) /\ Event(q, t, k) /\ j < k => f[j] < f[k]
  BY <1>1, <1>2
<1>4. ASSUME NEW j, Event(s, t, j) PROVE \E k : Event(q, t, k) /\ q[k] = s[j]
  <2>1. j \in 1..Len(s) /\ j \notin 1..d
    BY <1>4, RestOf DEF Event
  <2>2. j > d
    BY <1>1, <2>1
  <2>3. /\ \A k : Event(q, t, k) => k \in Nat /\ Event(s, t, k + d) /\ q[k] = s[k + d]
        /\ \A k : Event(s, t, k) /\ k > d => Event(q, t, k - d) /\ q[k - d] = s[k]
        /\ \A k : Event(s, t, k) => k \in 1..Len(s) /\ s[k].n \in Nat
    BY RestOf
  <2>4. Event(q, t, j - d) /\ q[j - d] = s[j]
    BY <1>4, <2>2, <2>3
  <2> QED BY <2>4
<1> HIDE DEF f
<1> QED BY <1>2, <1>3, <1>4, SameEvents

LEMMA EventRead ==
  ASSUME NEW s \in Seq(Unit), NEW q \in Seq(Unit), NEW t, NEW l \in Nat, NEW n \in Int,
         InOrder(s, t, l, n), EventOf(s[1], t),
         NEW d \in 1..Len(s), Len(q) = Len(s) - d, \A k \in 1..Len(q) : q[k] = s[k + d],
         \A k \in 2..d : ~EventOf(s[k], t)
  PROVE  InOrder(q, t, s[1].n, n)
<1>1. Len(s) \in Nat /\ Event(s, t, 1) /\ d \in 0..Len(s)
  BY LenProperties DEF Event
<1>2. /\ \A k : Event(q, t, k) => k \in Nat /\ Event(s, t, k + d) /\ q[k] = s[k + d]
      /\ \A k : Event(s, t, k) /\ k > d => Event(q, t, k - d) /\ q[k - d] = s[k]
      /\ \A k : Event(s, t, k) => k \in 1..Len(s) /\ s[k].n \in Nat
  BY <1>1, RestOf
<1>3. /\ \A k : Event(s, t, k) => l < s[k].n /\ s[k].n <= n
      /\ \A j, k : Event(s, t, j) /\ Event(s, t, k) /\ j < k => s[j].n < s[k].n
      /\ \A m \in l + 1..n : l # 0 \/ (\E k : Event(s, t, k) /\ s[k].n <= m)
                               => \E k : Event(s, t, k) /\ s[k].n = m
  BY InOrderIs
<1>4. s[1].n \in Nat /\ l < s[1].n /\ s[1].n <= n
  BY <1>1, <1>2, <1>3
<1>5. ASSUME NEW k, Event(q, t, k) PROVE s[1].n < q[k].n /\ q[k].n <= n
  <2>1. k \in Nat /\ Event(s, t, k + d) /\ q[k] = s[k + d] /\ k + d \in 1..Len(s)
    BY <1>2, <1>5
  <2>2. k # 0
    BY <1>5, LenProperties DEF Event
  <2>3. 1 < k + d
    BY <1>1, <2>1, <2>2
  <2> QED BY <1>1, <1>3, <2>1, <2>3
<1>6. ASSUME NEW j, NEW k, Event(q, t, j), Event(q, t, k), j < k PROVE q[j].n < q[k].n
  <2>1. /\ j \in Nat /\ Event(s, t, j + d) /\ q[j] = s[j + d]
        /\ k \in Nat /\ Event(s, t, k + d) /\ q[k] = s[k + d] /\ j + d < k + d
    BY <1>1, <1>2, <1>6
  <2> QED BY <1>3, <2>1
<1>7. ASSUME NEW m \in s[1].n + 1..n PROVE \E k : Event(q, t, k) /\ q[k].n = m
  <2>1. m \in l + 1..n /\ s[1].n <= m /\ m # s[1].n
    BY <1>4, <1>7
  <2>2. PICK k : Event(s, t, k) /\ s[k].n = m
    BY <1>1, <1>3, <2>1
  <2>3. k \in 1..Len(s) /\ k \notin 2..d /\ k # 1
    BY <1>2, <2>1, <2>2 DEF Event
  <2>4. k > d
    BY <1>1, <2>3
  <2> QED BY <1>2, <2>2, <2>4
<1> QED BY <1>4, <1>5, <1>6, <1>7, InOrderIs

LEMMA AllForgotten ==
  ASSUME NEW s \in Seq(Unit), NEW q \in Seq(Unit), NEW t, NEW l \in Nat, NEW n \in Int,
         InOrder(s, t, l, n),
         NEW d \in 0..Len(s), Len(q) = Len(s) - d, \A k \in 1..Len(q) : q[k] = s[k + d]
  PROVE  InOrder(q, t, 0, n)
<1>1. Len(s) \in Nat
  BY LenProperties
<1>2. /\ \A k : Event(q, t, k) => k \in Nat /\ Event(s, t, k + d) /\ q[k] = s[k + d]
      /\ \A k : Event(s, t, k) /\ k > d => Event(q, t, k - d) /\ q[k - d] = s[k]
      /\ \A k : Event(s, t, k) => k \in 1..Len(s) /\ s[k].n \in Nat
  BY RestOf
<1>3. /\ l <= n
      /\ \A k : Event(s, t, k) => l < s[k].n /\ s[k].n <= n
      /\ \A j, k : Event(s, t, j) /\ Event(s, t, k) /\ j < k => s[j].n < s[k].n
      /\ \A m \in l + 1..n : l # 0 \/ (\E k : Event(s, t, k) /\ s[k].n <= m)
                               => \E k : Event(s, t, k) /\ s[k].n = m
  BY InOrderIs
<1>4. ASSUME NEW k, Event(q, t, k) PROVE 0 < q[k].n /\ q[k].n <= n
  <2>1. Event(s, t, k + d) /\ q[k] = s[k + d]
    BY <1>2, <1>4
  <2> QED BY <1>2, <1>3, <2>1
<1>5. ASSUME NEW j, NEW k, Event(q, t, j), Event(q, t, k), j < k PROVE q[j].n < q[k].n
  <2>1. /\ j \in Nat /\ Event(s, t, j + d) /\ q[j] = s[j + d]
        /\ k \in Nat /\ Event(s, t, k + d) /\ q[k] = s[k + d] /\ j + d < k + d
    BY <1>1, <1>2, <1>5
  <2> QED BY <1>3, <2>1
<1>6. ASSUME NEW m \in 0 + 1..n, NEW j, Event(q, t, j), q[j].n <= m
      PROVE  \E k : Event(q, t, k) /\ q[k].n = m
  <2>1. /\ j \in Nat /\ Event(s, t, j + d) /\ s[j + d].n <= m /\ s[j + d].n \in Nat
        /\ l < s[j + d].n /\ j # 0
    <3>1. j # 0
      BY <1>6, LenProperties DEF Event
    <3> QED BY <1>2, <1>3, <1>6, <3>1
  <2>2. m \in l + 1..n
    BY <1>6, <2>1
  <2>3. PICK k : Event(s, t, k) /\ s[k].n = m
    BY <1>3, <2>1, <2>2
  <2>4. k \in 1..Len(s)
    BY <1>2, <2>3
  <2>5. k > d
    <3>1. ASSUME k <= d PROVE FALSE
      <4>1. k < j + d
        BY <1>1, <2>1, <2>4, <3>1
      <4>2. s[k].n < s[j + d].n
        BY <1>3, <2>1, <2>3, <4>1
      <4> QED BY <1>6, <2>1, <2>3, <4>2
    <3> QED BY <1>1, <2>4, <3>1
  <2> QED BY <1>2, <2>3, <2>5
<1>7. 0 <= n
  BY <1>3
<1> QED BY <1>4, <1>5, <1>6, <1>7, InOrderIs

\* The stream of a slot, as what is on the socket and in the packets.
LEMMA StreamIs ==
  ASSUME NEW d \in Seq(Unit), NEW ps \in Seq(Seq(Unit)), \A k \in DOMAIN ps : Packet(ps[k])
  PROVE  /\ Heads(ps) \in Seq(Unit) /\ Len(d) \in Nat /\ Len(ps) \in Nat
         /\ Len(Heads(ps)) = Len(ps)
         /\ d \o Heads(ps) \in Seq(Unit) /\ Len(d \o Heads(ps)) = Len(d) + Len(ps)
         /\ \A k \in 1..Len(d) : (d \o Heads(ps))[k] = d[k]
         /\ \A k \in 1..Len(ps) : (d \o Heads(ps))[Len(d) + k] = ps[k][1]
<1>1. PICK n \in Nat : n = Len(ps) /\ DOMAIN ps = 1..n
  BY LenProperties
<1>2. ASSUME NEW k \in 1..n PROVE ps[k][1] \in Unit
  <2>1. ps[k] \in Seq(Unit)
    BY <1>1, ElementOfSeq
  <2>2. Len(ps[k]) \in Nat /\ Len(ps[k]) > 1
    BY <1>1, <2>1, LenProperties DEF Packet
  <2> QED BY <2>1, <2>2, ElementOfSeq
<1>3. PICK h : h = Heads(ps)
  OBVIOUS
<1>4. h = [k \in 1..n |-> ps[k][1]]
  BY <1>1, <1>3 DEF Heads
<1>5. h \in Seq(Unit) /\ Len(h) = n
  <2>1. h \in [1..n -> Unit]
    BY <1>2, <1>4
  <2>2. h \in Seq(Unit)
    BY <2>1, SeqDef
  <2>3. DOMAIN h = 1..n /\ DOMAIN h = 1..Len(h) /\ Len(h) \in Nat
    BY <1>4, <2>2, LenProperties
  <2> QED BY <2>2, <2>3
<1>6. /\ d \o h \in Seq(Unit) /\ Len(d \o h) = Len(d) + n /\ Len(d) \in Nat
      /\ \A k \in 1..Len(d) + n : (d \o h)[k] = IF k <= Len(d) THEN d[k] ELSE h[k - Len(d)]
  BY <1>5, ConcatProperties, LenProperties
<1>7. ASSUME NEW k \in 1..n PROVE (d \o h)[Len(d) + k] = ps[k][1]
  <2>1. Len(d) + k \in 1..Len(d) + n /\ ~(Len(d) + k <= Len(d)) /\ Len(d) + k - Len(d) = k
    BY <1>6
  <2>2. (d \o h)[Len(d) + k] = h[k]
    BY <1>6, <2>1
  <2> QED BY <1>4, <2>2
<1>8. \A k \in 1..Len(d) : (d \o h)[k] = d[k]
  BY <1>6
<1> QED BY <1>1, <1>3, <1>5, <1>6, <1>7, <1>8

\* What is known of the slot's stream before a step.
LEMMA OwnStream ==
  ASSUME IInv, NEW i \in Connected, NEW c, c = slot[i]
  PROVE  /\ c \in Conn /\ i \in Slot /\ down[c] \in Seq(Unit) /\ packets[i] \in Seq(Seq(Unit))
         /\ \A k \in DOMAIN packets[i] : Packet(packets[i][k])
         /\ Stream(i) = down[c] \o Heads(packets[i]) /\ Stream(i) \in Seq(Unit)
         /\ \A j \in Connected : slot[j] = c => j = i
         /\ \A t \in Thread : Newest(i, t) \in Nat /\ proc[c].last[t] \in Nat
         /\ Ordered(i)
<1>t. TypeOK /\ PostInv
  BY DEF IInv
<1>1. /\ c \in Conn /\ i \in Slot /\ down[c] \in Seq(Unit) /\ packets[i] \in Seq(Seq(Unit))
      /\ proc[c] \in Processes
  BY <1>t, SlotTypes
<1>2. \A k \in DOMAIN packets[i] : Packet(packets[i][k])
  BY <1>1 DEF IInv, PacketInv
<1>3. Stream(i) = down[c] \o Heads(packets[i])
  BY DEF Stream
<1>4. Stream(i) \in Seq(Unit)
  BY <1>1, <1>2, <1>3, StreamIs
<1>5. ASSUME NEW t \in Thread PROVE Newest(i, t) \in Nat /\ proc[c].last[t] \in Nat
  <2>1. sent[t] \in Nat /\ proc[c].last[t] \in Nat
    BY <1>t, <1>1 DEF TypeOK, Processes
  <2>2. i \in post[t].todo => sent[t] > 0
    BY <1>t DEF PostInv, Idle
  <2> QED BY <2>1, <2>2 DEF Newest
<1>6. Ordered(i)
  BY DEF IInv, EventsInOrder, Ordered, Producer
<1>7. \A j \in Connected : slot[j] = c => j = i
  BY DEF IInv, PlaceInv
<1> QED BY <1>1, <1>2, <1>3, <1>4, <1>5, <1>6, <1>7

\* Slots to which nothing happens.
LEMMA OrderStays ==
  ASSUME EventsInOrder,
         \A i \in Connected' :
           \/ Ordered(i)'
           \/ /\ i \in Connected /\ slot'[i] = slot[i] /\ packets'[i] = packets[i]
              /\ down'[slot[i]] = down[slot[i]] /\ proc'[slot[i]].last = proc[slot[i]].last
              /\ Dropping(i) => Dropping(i)'
              /\ \A t \in Producer : Newest(i, t)' = Newest(i, t)
  PROVE  EventsInOrder'
<1>1. ASSUME NEW i \in Connected' PROVE Ordered(i)'
  <2>1. CASE /\ i \in Connected /\ slot'[i] = slot[i] /\ packets'[i] = packets[i]
             /\ down'[slot[i]] = down[slot[i]] /\ proc'[slot[i]].last = proc[slot[i]].last
             /\ Dropping(i) => Dropping(i)'
             /\ \A t \in Producer : Newest(i, t)' = Newest(i, t)
    <3>1. Ordered(i)
      BY <2>1 DEF EventsInOrder, Ordered, Producer
    <3>2. Stream(i)' = Stream(i)
      BY <2>1 DEF Stream, Heads
    <3>3. proc'[slot'[i]].last = proc[slot[i]].last
      BY <2>1
    <3>4. ASSUME NEW t \in Producer, ~Dropping(i)'
          PROVE  InOrder(Stream(i), t, proc[slot[i]].last[t], Newest(i, t))'
      <4>1. InOrder(Stream(i), t, proc[slot[i]].last[t], Newest(i, t))
        BY <2>1, <3>1, <3>4 DEF Ordered
      <4> QED BY <2>1, <3>2, <3>3, <4>1 DEF InOrder, EventOf
    <3> QED BY <3>4 DEF Ordered
  <2> QED BY <1>1, <2>1
<1> QED BY <1>1 DEF EventsInOrder, Ordered, Producer

\* Slots to whose clients units are sent that are no events.
LEMMA OrderSent ==
  ASSUME IInv, NEW i \in Connected, NEW r \in Seq(Unit), Grows(slot[i], r),
         \A k \in 1..Len(r) : r[k].k # "event",
         UNCHANGED <<slot, packets, proc, post, sent>>, \A j \in Slot : ~Dropping(j)
  PROVE  EventsInOrder'
<1>1. PICK c : c = slot[i]
  OBVIOUS
<1>t. TypeOK /\ EventsInOrder
  BY DEF IInv
<1>2. /\ c \in Conn /\ down[c] \in Seq(Unit) /\ packets[i] \in Seq(Seq(Unit)) /\ i \in Slot
      /\ \A k \in DOMAIN packets[i] : Packet(packets[i][k])
      /\ Stream(i) = down[c] \o Heads(packets[i]) /\ Stream(i) \in Seq(Unit)
      /\ \A j \in Connected : slot[j] = c => j = i
      /\ Ordered(i)
  BY <1>1, OwnStream
<1>3. /\ \A d \in Conn \ {c} : down'[d] = down[d]
      /\ Len(down[c]) \in Nat /\ Len(r) \in Nat
      /\ down'[c] \in Seq(Unit) /\ Len(down'[c]) = Len(down[c]) + Len(r)
      /\ \A k \in 1..Len(down[c]) : down'[c][k] = down[c][k]
      /\ \A k \in 1..Len(r) : down'[c][Len(down[c]) + k] = r[k]
  BY ZenonT(20), <1>1, <1>2, <1>t, GrownSocket
<1>4. PICK s \in Seq(Unit) : s = Stream(i)
  BY <1>2
<1>5. PICK q : q = down'[c] \o Heads(packets[i])
  OBVIOUS
<1>d. PICK e \in Seq(Unit), f \in Seq(Unit) : e = down[c] /\ f = down'[c]
  BY <1>2, <1>3
<1>6. PICK a \in Nat, m \in Nat, l \in Nat : a = Len(e) /\ m = Len(r) /\ l = Len(packets[i])
  BY <1>2, <1>3, <1>d, LenProperties
<1>e. /\ Len(f) = a + m /\ \A k \in 1..a : f[k] = e[k]
      /\ \A k \in 1..m : f[a + k] = r[k]
  BY <1>3, <1>6, <1>d
<1>7. /\ Len(s) = a + l /\ \A k \in 1..a : s[k] = e[k]
      /\ \A k \in 1..l : s[a + k] = packets[i][k][1]
  <2>1. s = e \o Heads(packets[i])
    BY <1>2, <1>4, <1>d
  <2> QED BY <1>2, <1>6, <2>1, StreamIs
<1>8. /\ q \in Seq(Unit) /\ Len(q) = a + m + l /\ \A k \in 1..a + m : q[k] = f[k]
      /\ \A k \in 1..l : q[a + m + k] = packets[i][k][1]
  <2>1. q = f \o Heads(packets[i])
    BY <1>5, <1>d
  <2>2. /\ q \in Seq(Unit) /\ Len(q) = Len(f) + Len(packets[i]) /\ \A k \in 1..Len(f) : q[k] = f[k]
        /\ \A k \in 1..Len(packets[i]) : q[Len(f) + k] = packets[i][k][1]
    BY <1>2, <2>1, StreamIs
  <2> QED BY Zenon, <1>6, <1>e, <2>2
<1>9. /\ a \in 0..Len(s) /\ Len(q) = Len(s) + m
      /\ \A k \in 1..a : q[k] = s[k]
      /\ \A k \in 1..m : q[a + k].k # "event"
  <2>1. \A k \in 1..a : k \in 1..a + m
    OBVIOUS
  <2>2. \A k \in 1..m : a + k \in 1..a + m /\ q[a + k] = r[k]
    BY <1>e, <1>8
  <2>3. \A k \in 1..a : q[k] = s[k]
    BY <1>e, <1>7, <1>8, <2>1
  <2>4. \A k \in 1..m : q[a + k].k # "event"
    BY <1>6, <2>2
  <2>5. a \in 0..Len(s) /\ Len(q) = Len(s) + m
    BY <1>7, <1>8
  <2> QED BY <2>3, <2>4, <2>5
<1>10. ASSUME NEW k \in a + 1..Len(s) PROVE q[k + m] = s[k]
  <2>1. PICK j \in 1..l : k = a + j
    <3>1. k - a \in 1..l /\ k = a + (k - a)
      BY <1>7
    <3> QED BY <3>1
  <2>2. k + m = a + m + j
    BY <2>1
  <2> QED BY <1>7, <1>8, <2>1, <2>2
<1>11. ASSUME NEW t \in Producer, NEW n, NEW x, InOrder(s, t, x, n) PROVE InOrder(q, t, x, n)
  <2>1. \A k \in 1..m : ~EventOf(q[a + k], t)
    BY <1>9 DEF EventOf
  <2> QED BY <1>8, <1>9, <1>10, <1>11, <2>1, OthersPutIn
<1>12. Stream(i)' = q
  BY <1>1, <1>5 DEF Stream, Heads
<1>13. Ordered(i)'
  <2>1. ASSUME NEW t \in Producer
        PROVE  InOrder(Stream(i), t, proc[slot[i]].last[t], Newest(i, t))'
    <3>1. InOrder(s, t, proc[slot[i]].last[t], Newest(i, t))
      BY <1>2, <1>4 DEF Ordered
    <3>2. InOrder(q, t, proc[slot[i]].last[t], Newest(i, t))
      BY <1>11, <3>1
    <3>3. Newest(i, t)' = Newest(i, t) /\ proc'[slot'[i]].last[t] = proc[slot[i]].last[t]
      BY DEF Newest
    <3> QED BY <1>12, <3>2, <3>3 DEF InOrder, EventOf
  <2> QED BY <2>1 DEF Ordered
<1>14. \A j \in Connected \ {i} : slot[j] \in Conn \ {c}
  BY <1>2, <1>t, SlotTypes
<1>15. ASSUME NEW j \in Connected', j # i
       PROVE  /\ j \in Connected /\ slot'[j] = slot[j] /\ packets'[j] = packets[j]
              /\ down'[slot[j]] = down[slot[j]] /\ proc'[slot[j]].last = proc[slot[j]].last
              /\ Dropping(j) => Dropping(j)'
              /\ \A t \in Producer : Newest(j, t)' = Newest(j, t)
  <2>1. j \in Connected /\ j \in Slot
    BY DEF Connected
  <2> QED BY <1>3, <1>14, <1>15, <2>1 DEF Newest
<1> QED BY <1>13, <1>15, <1>t, OrderStays

\* A slot's packet is sent: its event goes on from the packets to the socket.
LEMMA OrderOfPacket ==
  ASSUME IInv, SendPacket
  PROVE  EventsInOrder'
<1>1. PICK i \in Connected : i = srv.i
  BY PacketSent
<1>2. PICK c : c = slot[i]
  OBVIOUS
<1>t. TypeOK /\ EventsInOrder /\ packets \in [Slot -> Seq(Seq(Unit))]
  BY DEF IInv, TypeOK
<1>3. /\ c \in Conn /\ down[c] \in Seq(Unit) /\ packets[i] \in Seq(Seq(Unit)) /\ i \in Slot
      /\ \A k \in DOMAIN packets[i] : Packet(packets[i][k])
      /\ Stream(i) = down[c] \o Heads(packets[i]) /\ Stream(i) \in Seq(Unit)
      /\ \A j \in Connected : slot[j] = c => j = i
      /\ Ordered(i)
  BY <1>2, OwnStream
<1>4. /\ srv.pc = "send" /\ packets[i] # <<>> /\ packets[i][1] \in Seq(Unit) /\ Packet(packets[i][1])
      /\ Grows(c, packets[i][1]) /\ packets' = [packets EXCEPT ![i] = Tail(packets[i])]
      /\ UNCHANGED <<proc, slot, srv, post, sent>>
  BY <1>1, <1>2, PacketSent
<1>5. PICK p \in Seq(Unit) : p = packets[i][1]
  BY <1>4
<1>6. /\ \A d \in Conn \ {c} : down'[d] = down[d]
      /\ Len(down[c]) \in Nat /\ Len(p) \in Nat
      /\ down'[c] \in Seq(Unit) /\ Len(down'[c]) = Len(down[c]) + Len(p)
      /\ \A k \in 1..Len(down[c]) : down'[c][k] = down[c][k]
      /\ \A k \in 1..Len(p) : down'[c][Len(down[c]) + k] = p[k]
  <2>1. TypeOK /\ c \in Conn /\ p \in Seq(Unit) /\ Grows(c, p)
    BY <1>3, <1>4, <1>5, <1>t
  <2> QED BY <2>1, GrownSocket
<1>7. PICK u \in Seq(Seq(Unit)) : u = packets[i]
  BY <1>3
<1>8. PICK v : v = Tail(u)
  OBVIOUS
<1>9. PICK l \in Nat : Len(u) = l + 1
  <2>1. Len(u) \in Nat /\ Len(u) # 0
    BY <1>4, <1>7, EmptySeq, LenProperties
  <2>2. Len(u) - 1 \in Nat /\ Len(u) = Len(u) - 1 + 1
    BY <2>1
  <2> QED BY <2>2
<1>10. /\ v \in Seq(Seq(Unit)) /\ Len(v) = l
       /\ \A k \in 1..l : k + 1 \in 1..l + 1 /\ v[k] = u[k + 1]
       /\ \A k \in DOMAIN v : Packet(v[k])
  <2>1. /\ v \in Seq(Seq(Unit)) /\ Len(v) = l /\ \A k \in 1..l : v[k] = u[k + 1]
    BY <1>4, <1>7, <1>8, <1>9, HeadTailProperties
  <2>2. \A k \in 1..l : k + 1 \in 1..l + 1
    OBVIOUS
  <2>3. DOMAIN v = 1..l /\ DOMAIN u = 1..l + 1
    BY <1>9, <2>1, LenProperties
  <2> QED BY <1>3, <1>7, <2>1, <2>2, <2>3
<1>11. PICK q : q = down'[c] \o Heads(v)
  OBVIOUS
<1>12. PICK s \in Seq(Unit) : s = Stream(i)
  BY <1>3
<1>e. PICK e \in Seq(Unit), f \in Seq(Unit) : e = down[c] /\ f = down'[c]
  BY <1>3, <1>6
<1>13. PICK d \in Nat, m \in Nat : d = Len(e) /\ Len(p) = m + 1
  <2>1. Len(p) > 1
    BY <1>4, <1>5 DEF Packet
  <2>2. Len(p) - 1 \in Nat /\ Len(p) = Len(p) - 1 + 1
    BY <1>6, <2>1
  <2> QED BY <1>6, <1>e, <2>2
<1>f. /\ Len(f) = d + (m + 1) /\ \A k \in 1..d : f[k] = e[k]
      /\ \A k \in 1..m + 1 : f[d + k] = p[k]
  BY <1>6, <1>13, <1>e
<1>14. /\ Len(s) = d + (l + 1) /\ \A k \in 1..d : s[k] = e[k]
       /\ \A k \in 1..l + 1 : s[d + k] = u[k][1]
  <2>1. s = e \o Heads(u)
    BY <1>3, <1>7, <1>12, <1>e
  <2>2. /\ Len(s) = Len(e) + Len(u) /\ \A k \in 1..Len(e) : s[k] = e[k]
        /\ \A k \in 1..Len(u) : s[Len(e) + k] = u[k][1]
    <3>1. \A k \in DOMAIN u : Packet(u[k])
      BY <1>3, <1>7
    <3> QED BY <2>1, <3>1, StreamIs
  <2> QED BY Zenon, <1>9, <1>13, <2>2
<1>15. /\ q \in Seq(Unit) /\ Len(q) = d + (m + 1) + l
       /\ \A k \in 1..d + (m + 1) : q[k] = f[k]
       /\ \A k \in 1..l : q[d + (m + 1) + k] = v[k][1]
  <2>1. q = f \o Heads(v)
    BY <1>11, <1>e
  <2>2. /\ q \in Seq(Unit) /\ Len(q) = Len(f) + Len(v) /\ \A k \in 1..Len(f) : q[k] = f[k]
        /\ \A k \in 1..Len(v) : q[Len(f) + k] = v[k][1]
    BY <1>10, <2>1, StreamIs
  <2> QED BY Zenon, <1>10, <1>f, <2>2
<1>16. \A k \in 1..m + 1 : q[d + k] = p[k]
  <2>1. \A k \in 1..m + 1 : d + k \in 1..d + (m + 1) /\ f[d + k] = p[k]
    BY <1>f
  <2> QED BY <1>15, <2>1
<1>17. \A k \in 1..d + 1 : q[k] = s[k]
  <2>1. q[d + 1] = p[1] /\ s[d + 1] = p[1]
    BY <1>5, <1>7, <1>14, <1>16
  <2>2. \A k \in 1..d : k \in 1..d + (m + 1) /\ q[k] = s[k]
    BY <1>f, <1>14, <1>15
  <2>3. \A k \in 1..d + 1 : k \in 1..d \/ k = d + 1
    OBVIOUS
  <2> QED BY <2>1, <2>2, <2>3
<1>18. ASSUME NEW k \in 1..m PROVE q[d + 1 + k].k # "event"
  <2>1. k + 1 \in 1..m + 1 /\ k + 1 \in 2..m + 1 /\ d + 1 + k = d + (k + 1)
    OBVIOUS
  <2>2. p[k + 1].k # "event"
    BY <1>4, <1>5, <1>13, <2>1 DEF Packet
  <2> QED BY <1>16, <2>1, <2>2
<1>19. ASSUME NEW k \in d + 1 + 1..Len(s) PROVE q[k + m] = s[k]
  <2>1. PICK j \in 1..l : k = d + (j + 1)
    <3>1. k - d - 1 \in 1..l /\ k = d + (k - d - 1 + 1)
      BY <1>14
    <3> QED BY <3>1
  <2>2. k + m = d + (m + 1) + j /\ j + 1 \in 1..l + 1
    BY <2>1
  <2>3. q[d + (m + 1) + j] = v[j][1] /\ s[d + (j + 1)] = u[j + 1][1] /\ v[j] = u[j + 1]
    BY <1>10, <1>14, <1>15, <2>2
  <2> QED BY <2>1, <2>2, <2>3
<1>20. ASSUME NEW t \in Producer, NEW n, NEW x, InOrder(s, t, x, n) PROVE InOrder(q, t, x, n)
  <2>1. \A k \in 1..m : ~EventOf(q[d + 1 + k], t)
    BY <1>18 DEF EventOf
  <2>2. d + 1 \in 0..Len(s) /\ Len(q) = Len(s) + m
    BY <1>14, <1>15
  <2> QED BY <1>15, <1>17, <1>19, <1>20, <2>1, <2>2, OthersPutIn
<1>21. Stream(i)' = q
  <2>1. packets'[i] = v /\ slot'[i] = c
    BY <1>2, <1>3, <1>4, <1>7, <1>8, <1>t
  <2> QED BY <1>11, <2>1 DEF Stream, Heads
<1>22. Ordered(i)'
  <2>1. ASSUME NEW t \in Producer
        PROVE  InOrder(Stream(i), t, proc[slot[i]].last[t], Newest(i, t))'
    <3>1. InOrder(s, t, proc[slot[i]].last[t], Newest(i, t))
      BY <1>3, <1>4, <1>12 DEF Ordered, Dropping
    <3>2. InOrder(q, t, proc[slot[i]].last[t], Newest(i, t))
      BY <1>20, <3>1
    <3>3. Newest(i, t)' = Newest(i, t) /\ proc'[slot'[i]].last[t] = proc[slot[i]].last[t]
      BY <1>4 DEF Newest
    <3> QED BY <1>21, <3>2, <3>3 DEF InOrder, EventOf
  <2> QED BY <2>1 DEF Ordered
<1>23. \A j \in Connected \ {i} : slot[j] \in Conn \ {c}
  BY <1>3, <1>t, SlotTypes
<1>24. ASSUME NEW j \in Connected', j # i
       PROVE  /\ j \in Connected /\ slot'[j] = slot[j] /\ packets'[j] = packets[j]
              /\ down'[slot[j]] = down[slot[j]] /\ proc'[slot[j]].last = proc[slot[j]].last
              /\ Dropping(j) => Dropping(j)'
              /\ \A t \in Producer : Newest(j, t)' = Newest(j, t)
  <2>1. j \in Connected /\ j \in Slot
    BY <1>4 DEF Connected
  <2> QED BY <1>4, <1>6, <1>23, <1>24, <1>t, <2>1 DEF Newest, Dropping
<1> QED BY <1>22, <1>24, <1>t, OrderStays

\* What is sent to clients that are told something, or that leave.
LEMMA OrderOfSends ==
  ASSUME IInv, StopSending \/ SendReply \/ SendExit
  PROVE  EventsInOrder'
<1>t. TypeOK /\ EventsInOrder
  BY DEF IInv
\* The client whose packets stop half-way is dropped.
<1>1. CASE StopSending
  <2>1. PICK i \in Connected : i = srv.i
    BY <1>1, SendingStopped
  <2>2. /\ srv.pc = "send" /\ srv'.i = i
        /\ UNCHANGED <<proc, slot, packets, post, sent>>
        /\ down' = down \/ (srv'.pc = "drop" /\ \A d \in Conn \ {slot[i]} : down'[d] = down[d])
    <3>1. \/ down' = down
          \/ srv'.pc = "drop" /\ \E r \in Seq(Unit) : Grows(slot[i], r)
      BY <1>1, <2>1, SendingStopped, SplitSeq
    <3>2. slot[i] \in Conn
      BY <1>t, SlotTypes
    <3>3. ASSUME NEW r \in Seq(Unit), Grows(slot[i], r)
          PROVE  \A d \in Conn \ {slot[i]} : down'[d] = down[d]
      BY <1>t, <3>2, <3>3, GrownSocket
    <3> QED BY <1>1, <2>1, <3>1, <3>3, SendingStopped
  <2>3. ASSUME NEW j \in Connected'
        PROVE  \/ Ordered(j)'
               \/ /\ j \in Connected /\ slot'[j] = slot[j] /\ packets'[j] = packets[j]
                  /\ down'[slot[j]] = down[slot[j]] /\ proc'[slot[j]].last = proc[slot[j]].last
                  /\ Dropping(j) => Dropping(j)'
                  /\ \A t \in Producer : Newest(j, t)' = Newest(j, t)
    <3>1. j \in Connected /\ ~Dropping(j)
      BY <2>2 DEF Connected, Dropping
    <3>2. slot[j] \in Conn /\ (slot[j] = slot[i] => j = i)
      BY <1>t, <2>1, <3>1, OwnStream
    <3>3. CASE Dropping(j)'
      BY <3>3 DEF Ordered
    <3>4. CASE ~Dropping(j)'
      <4>1. down'[slot[j]] = down[slot[j]]
        BY <2>2, <3>2, <3>4 DEF Dropping
      <4> QED BY <2>2, <3>1, <4>1 DEF Newest
    <3> QED BY <3>3, <3>4
  <2> QED BY <1>t, <2>3, OrderStays
\* A unit that is no event, if it is not put into the packet that is put together.
<1>2. ASSUME NEW i \in Connected, NEW u \in Unit, u.k # "event",
             SendUnit(i, u) \/ UNCHANGED <<down, buf>>,
             UNCHANGED <<slot, packets, proc, post, sent>>, srv.pc # "drop"
      PROVE  EventsInOrder'
  <2>1. \A j \in Slot : ~Dropping(j)
    BY <1>2 DEF Dropping
  <2>2. CASE down' = down
    <3>1. \A j \in Connected' : j \in Connected /\ j \in Slot
      BY <1>2 DEF Connected
    <3> QED BY <1>2, <1>t, <2>1, <2>2, <3>1, OrderStays DEF Newest
  <2>3. CASE Grows(slot[i], <<u>>)
    <3>1. /\ <<u>> \in Seq(Unit) /\ \A k \in 1..Len(<<u>>) : <<u>>[k].k # "event"
      BY <1>2
    <3> QED BY <1>2, <2>1, <2>3, <3>1, OrderSent
  <2> QED BY <1>2, <1>t, <2>2, <2>3, SentUnit
<1>3. CASE SendReply
  <2>1. PICK i \in Connected, u \in Unit :
           SendUnit(i, u) /\ u = Head(srv.left) /\ srv.left \in {Pong, Answer, Rest}
    BY <1>3, ReplySends
  <2>2. u.k # "event"
    <3>1. u \in {Plain("pong"), Plain("data"), Plain("answer")}
      BY <2>1, Replies
    <3> QED BY <3>1, PlainUnits
  <2> QED BY <1>2, <1>3, <2>1, <2>2, ReplySends
<1>4. CASE SendExit
  <2>1. PICK i \in Connected : SendUnit(i, Plain("exit")) \/ UNCHANGED <<down, buf>>
    BY <1>4, ExitSends
  <2> QED BY <1>2, <1>4, <2>1, ExitSends
<1> QED BY <1>1, <1>3, <1>4

\* An event that is queued is the next of its thread's.
LEMMA OrderOfThread ==
  ASSUME IInv, NEW t \in Thread, ThreadStep(t)
  PROVE  EventsInOrder'
<1>t. TypeOK /\ EventsInOrder /\ post \in [Thread -> Posts] /\ post[t] \in Posts
  BY DEF IInv, TypeOK
<1>1. CASE PostCheck(t) \/ PostFill(t) \/ PostWake(t)
  <2>1. UNCHANGED <<slot, packets, down, proc, srv, sent>>
    BY <1>1 DEF PostCheck, PostFill, PostWake, sockets, slots
  <2>2. \A x \in Thread \ {t} : post'[x] = post[x]
    BY <1>1, <1>t DEF PostCheck, PostFill, PostWake
  <2>3. ASSUME NEW j \in Connected PROVE j \in post'[t].todo <=> j \in post[t].todo
    <3>1. CASE PostCheck(t)
      <4>1. PICK i : i = Next1(post[t])
        OBVIOUS
      <4>2. CASE slot[i] = None
        <5>1. post'[t] = Done1(post[t], FALSE)
          BY <1>t, <3>1, <4>1, <4>2 DEF PostCheck
        <5>2. post'[t].todo = post[t].todo \ {i}
          BY <1>t, <4>1, <5>1 DEF Done1, Posts
        <5> QED BY <4>2, <5>2 DEF Connected
      <4>3. CASE slot[i] # None
        <5>1. post'[t] = [post[t] EXCEPT !.at = "fill"]
          BY <1>t, <3>1, <4>1, <4>3 DEF PostCheck
        <5> QED BY <1>t, <5>1 DEF Posts
      <4> QED BY <4>2, <4>3
    <3>2. CASE PostFill(t)
      <4>1. post' = post \/ post' = [post EXCEPT ![t].at = "finish"]
        BY <3>2 DEF PostFill
      <4> QED BY <1>t, <4>1 DEF Posts
    <3>3. CASE PostWake(t)
      BY <1>t, <3>3 DEF PostWake, Idle
    <3> QED BY <1>1, <3>1, <3>2, <3>3
  <2>4. \A j \in Connected, x \in Thread : Newest(j, x)' = Newest(j, x)
    BY <2>1, <2>2, <2>3 DEF Newest
  <2>5. \A j \in Connected' : j \in Connected
    BY <2>1 DEF Connected
  <2> QED BY <1>t, <2>1, <2>4, <2>5, OrderStays DEF Dropping, Producer, Thread
<1>2. CASE PostFinish(t)
  <2>1. PICK i : i = Next1(post[t])
    OBVIOUS
  <2>2. PICK p : p = buf[i] \o Tail(EventPacket(post[t].ev))
    OBVIOUS
  <2>3. /\ i \in Connected /\ i \in post[t].todo /\ post[t].at = "finish"
        /\ packets' = [packets EXCEPT ![i] = Append(packets[i], p)]
        /\ post' = [post EXCEPT ![t] = Done1(post[t], TRUE)]
        /\ UNCHANGED <<down, proc, slot, srv, sent>>
        /\ p \in Seq(Unit) /\ Packet(p) /\ p[1] = post[t].ev
    BY <1>2, <2>1, <2>2, PacketMade
  <2>4. PICK c : c = slot[i]
    OBVIOUS
  <2>5. /\ c \in Conn /\ down[c] \in Seq(Unit) /\ packets[i] \in Seq(Seq(Unit)) /\ i \in Slot
        /\ \A k \in DOMAIN packets[i] : Packet(packets[i][k])
        /\ Stream(i) = down[c] \o Heads(packets[i]) /\ Stream(i) \in Seq(Unit)
        /\ \A x \in Thread : Newest(i, x) \in Nat /\ proc[c].last[x] \in Nat
        /\ Ordered(i)
    BY <2>3, <2>4, OwnStream
  <2>6. PICK u \in Unit : u = post[t].ev
    BY <1>t DEF Posts
  <2>7. post'[t].todo = post[t].todo \ {i} /\ \A x \in Thread \ {t} : post'[x] = post[x]
    BY <1>t, <2>1, <2>3 DEF Done1, Posts
  <2>8. /\ \A j \in Connected \ {i}, x \in Thread : Newest(j, x)' = Newest(j, x)
        /\ \A x \in Thread \ {t} : Newest(i, x)' = Newest(i, x)
        /\ Newest(i, t) = sent[t] - 1 /\ Newest(i, t)' = sent[t]
    BY <2>3, <2>7 DEF Newest
  <2>9. /\ t # "tags" => u = U("event", t, sent[t])
        /\ t = "tags" => u.k = "tags"
    BY <2>3, <2>6 DEF IInv, PostInv
  <2>10. PICK ps \in Seq(Seq(Unit)) : ps = packets[i]
    BY <2>5
  <2>11. PICK qs : qs = Append(ps, p)
    OBVIOUS
  <2>12. PICK l \in Nat : l = Len(ps) /\ DOMAIN ps = 1..l
    BY LenProperties
  <2>13. /\ qs \in Seq(Seq(Unit)) /\ Len(qs) = l + 1 /\ DOMAIN qs = 1..l + 1
         /\ \A k \in 1..l : qs[k] = ps[k]
         /\ qs[l + 1] = p
    BY <2>3, <2>11, <2>12, AppendProperties, LenProperties
  <2>14. \A k \in DOMAIN qs : Packet(qs[k])
    <3>1. \A k \in 1..l + 1 : k \in 1..l \/ k = l + 1
      OBVIOUS
    <3> QED BY <2>3, <2>5, <2>10, <2>12, <2>13, <3>1
  <2>o. PICK q : q = down[c] \o Heads(qs)
    OBVIOUS
  <2>15. PICK s \in Seq(Unit) : s = Stream(i) /\ q = down[c] \o Heads(qs)
    BY <2>5, <2>o
  <2>16. q = Append(s, u)
    <3>1. PICK d \in Seq(Unit), m \in Nat : d = down[c] /\ m = Len(d)
      BY <2>5, LenProperties
    <3>2. /\ Len(s) = m + l /\ \A k \in 1..m : s[k] = d[k]
          /\ \A k \in 1..l : s[m + k] = ps[k][1]
      <4>1. s = d \o Heads(ps) /\ \A k \in DOMAIN ps : Packet(ps[k])
        BY <2>5, <2>10, <2>15, <3>1
      <4> QED BY <2>12, <3>1, <4>1, StreamIs
    <3>3. /\ q \in Seq(Unit) /\ Len(q) = m + (l + 1) /\ \A k \in 1..m : q[k] = d[k]
          /\ \A k \in 1..l + 1 : q[m + k] = qs[k][1]
      <4>1. q = d \o Heads(qs)
        BY <2>15, <3>1
      <4>2. /\ q \in Seq(Unit) /\ Len(q) = Len(d) + Len(qs) /\ \A k \in 1..Len(d) : q[k] = d[k]
            /\ \A k \in 1..Len(qs) : q[Len(d) + k] = qs[k][1]
        BY <2>13, <2>14, <4>1, StreamIs
      <4> QED BY Zenon, <2>13, <3>1, <4>2
    <3>4. PICK r : r = Append(s, u)
      OBVIOUS
    <3>5. /\ r \in Seq(Unit) /\ Len(r) = m + l + 1 /\ r[m + l + 1] = u
          /\ \A k \in 1..m + l : r[k] = s[k]
      BY <3>2, <3>4, AppendProperties
    <3>6. ASSUME NEW k \in 1..m + l + 1 PROVE q[k] = r[k]
      <4>1. CASE k \in 1..m
        <5>1. k \in 1..m + l
          BY <4>1
        <5> QED BY <3>2, <3>3, <3>5, <4>1, <5>1
      <4>2. CASE k = m + l + 1
        <5>1. l + 1 \in 1..l + 1 /\ m + (l + 1) = m + l + 1
          OBVIOUS
        <5>2. q[m + (l + 1)] = p[1]
          BY <2>13, <3>3, <5>1
        <5> QED BY <2>3, <2>6, <3>5, <4>2, <5>1, <5>2
      <4>3. CASE k \notin 1..m /\ k # m + l + 1
        <5>1. PICK j \in 1..l : k = m + j
          <6>1. k - m \in 1..l /\ k = m + (k - m)
            BY <4>3
          <6> QED BY <6>1
        <5>2. j \in 1..l + 1 /\ m + j \in 1..m + l
          OBVIOUS
        <5>3. q[m + j] = qs[j][1] /\ s[m + j] = ps[j][1] /\ qs[j] = ps[j] /\ r[m + j] = s[m + j]
          BY <2>13, <3>2, <3>3, <3>5, <5>2
        <5> QED BY <5>1, <5>3
      <4> QED BY <4>1, <4>2, <4>3
    <3>7. Len(q) = Len(r) /\ Len(r) = m + l + 1
      BY <3>3, <3>5
    <3>8. q = r
      BY <3>3, <3>5, <3>6, <3>7, SeqEqual
    <3> QED BY <3>4, <3>8
  <2>17. Stream(i)' = q
    BY <1>t, <2>3, <2>4, <2>5, <2>10, <2>11, <2>15 DEF Stream, Heads, TypeOK
  <2>18. ASSUME NEW x \in Producer, ~Dropping(i)'
         PROVE  InOrder(Stream(i), x, proc[slot[i]].last[x], Newest(i, x))'
    <3>1. x \in Thread /\ ~Dropping(i)
      BY <2>3, <2>18 DEF Producer, Thread, Dropping
    <3>2. PICK y \in Nat, n \in Nat : y = proc[c].last[x] /\ n = Newest(i, x)
      BY <2>5, <3>1
    <3>3. InOrder(s, x, y, n)
      BY <2>4, <2>5, <2>15, <3>1, <3>2 DEF Ordered
    <3>4. CASE x = t
      <4>1. u = U("event", t, n + 1) /\ Newest(i, x)' = n + 1
        <5>1. t # "tags" /\ sent[t] \in Nat
          BY <1>t, <3>4 DEF Producer, TypeOK
        <5> QED BY <2>8, <2>9, <3>2, <3>4, <5>1
      <4>2. EventOf(u, x) /\ u.n = n + 1 /\ n + 1 \in Int /\ n + 1 - 1 = n
        BY <3>4, <4>1 DEF EventOf, U
      <4>3. InOrder(q, x, y, n + 1)
        BY <2>16, <3>3, <4>2, NextEvent
      <4>4. proc'[slot'[i]].last[x] = y
        BY <2>3, <2>4, <3>2
      <4> QED BY <2>17, <4>1, <4>3, <4>4 DEF InOrder, EventOf
    <3>5. CASE x # t
      <4>1. ~EventOf(u, x)
        BY <2>9, <3>5 DEF EventOf, U
      <4>2. /\ q \in Seq(Unit) /\ Len(q) = Len(s) + 1 /\ Len(s) \in Nat
            /\ q[Len(s) + 1] = u /\ \A k \in 1..Len(s) : q[k] = s[k]
        BY <2>16, AppendProperties, LenProperties
      <4>3. /\ Len(s) \in 0..Len(s) /\ \A k \in 1..1 : ~EventOf(q[Len(s) + k], x)
            /\ \A k \in Len(s) + 1..Len(s) : q[k + 1] = s[k]
        BY <4>1, <4>2
      <4>4. InOrder(q, x, y, n)
        BY <3>3, <4>2, <4>3, OthersPutIn
      <4>5. proc'[slot'[i]].last[x] = y /\ Newest(i, x)' = n
        BY <2>3, <2>4, <2>8, <3>1, <3>2, <3>5
      <4> QED BY <2>17, <4>4, <4>5 DEF InOrder, EventOf
    <3> QED BY <3>4, <3>5
  <2>19. Ordered(i)'
    BY <2>18 DEF Ordered
  <2>20. ASSUME NEW j \in Connected', j # i
         PROVE  /\ j \in Connected /\ slot'[j] = slot[j] /\ packets'[j] = packets[j]
                /\ down'[slot[j]] = down[slot[j]] /\ proc'[slot[j]].last = proc[slot[j]].last
                /\ Dropping(j) => Dropping(j)'
                /\ \A x \in Producer : Newest(j, x)' = Newest(j, x)
    <3>1. j \in Connected /\ j \in Slot /\ packets \in [Slot -> Seq(Seq(Unit))]
      BY <1>t, <2>3 DEF Connected, TypeOK
    <3> QED BY <2>3, <2>8, <2>20, <3>1 DEF Dropping, Producer, Thread
  <2> QED BY <1>t, <2>19, <2>20, OrderStays
<1> QED BY <1>1, <1>2 DEF ThreadStep

\* A new client's slot has nothing yet, and the client has read nothing.
LEMMA OrderOfSelect ==
  ASSUME IInv, Select
  PROVE  EventsInOrder'
<1>t. /\ TypeOK /\ EventsInOrder /\ PlaceInv /\ srv \in Servers
      /\ slot \in [Slot -> Conn \cup {None}] /\ packets \in [Slot -> Seq(Seq(Unit))]
      /\ down \in [Conn -> Seq(Unit)]
  BY DEF IInv, TypeOK
<1>1. UNCHANGED <<proc, post, sent>> /\ \A j \in Slot : ~Dropping(j)
  BY <1>t DEF Select, ServerAt, Dropping
<1>2. ASSUME NEW j \in Connected, slot'[j] = slot[j], packets'[j] = packets[j],
             down'[slot[j]] = down[slot[j]]
      PROVE  /\ j \in Connected /\ slot'[j] = slot[j] /\ packets'[j] = packets[j]
             /\ down'[slot[j]] = down[slot[j]] /\ proc'[slot[j]].last = proc[slot[j]].last
             /\ Dropping(j) => Dropping(j)'
             /\ \A t \in Producer : Newest(j, t)' = Newest(j, t)
  BY <1>1, <1>2 DEF Newest, Connected
<1>3. CASE UNCHANGED <<slot, packets, down>>
  <2>1. \A j \in Connected' : j \in Connected
    BY <1>3 DEF Connected
  <2> QED BY <1>2, <1>3, <1>t, <2>1, OrderStays
<1>4. CASE Turns(backlog[1]) /\ backlog[1] \in Conn /\ 1 \in DOMAIN backlog
  <2>1. PICK c \in Conn : c = backlog[1]
    BY <1>4
  <2>2. UNCHANGED <<slot, packets>> /\ \A d \in Conn \ {c} : down'[d] = down[d]
    BY <1>4, <1>t, <2>1 DEF Turns
  <2>3. \A j \in Connected' : j \in Connected /\ slot[j] \in Conn \ {c}
    BY <1>4, <1>t, <2>1, <2>2 DEF Connected, PlaceInv
  <2> QED BY <1>2, <1>t, <2>2, <2>3, OrderStays
<1>5. ASSUME NEW f \in Slot \ Connected, Admits(f, backlog[1]), backlog[1] \in Conn,
             1 \in DOMAIN backlog
      PROVE  EventsInOrder'
  <2>1. PICK c \in Conn : c = backlog[1]
    BY <1>5
  <2>2. /\ slot'[f] = c /\ packets'[f] = <<>> /\ down' = down
        /\ \A j \in Slot \ {f} : slot'[j] = slot[j] /\ packets'[j] = packets[j]
    BY <1>5, <1>t, <2>1 DEF Admits
  <2>3. /\ down[c] = <<>> /\ proc[c].at \in {"pinging", "gone"}
    BY <1>5, <1>t, <2>1 DEF PlaceInv
  <2>4. proc[c].last = [t \in Thread |-> 0]
    BY <1>t, <2>3 DEF PlaceInv, Past
  <2>5. Stream(f)' = <<>>
    <3>1. Heads(<<>>) = <<>>
      BY DEF Heads
    <3> QED BY <2>2, <2>3, <3>1 DEF Stream, Heads
  <2>6. ASSUME NEW t \in Producer
        PROVE  InOrder(Stream(f), t, proc[slot[f]].last[t], Newest(f, t))'
    <3>1. t \in Thread /\ sent[t] \in Nat /\ (f \in post[t].todo => sent[t] > 0)
      <4>1. t \in Thread
        BY DEF Producer, Thread
      <4>2. f \in post[t].todo => post[t].at # "idle"
        BY <4>1 DEF IInv, PostInv, Idle
      <4> QED BY <1>t, <4>1, <4>2 DEF TypeOK, IInv, PostInv
    <3>2. PICK n \in Nat : n = Newest(f, t)'
      BY <1>1, <3>1 DEF Newest
    <3>3. proc'[slot'[f]].last[t] = 0
      BY <1>1, <2>2, <2>4, <3>1
    <3>4. DOMAIN <<>> = {}
      OBVIOUS
    <3>5. InOrder(<<>>, t, 0, n)
      BY <3>4 DEF InOrder
    <3> QED BY <2>5, <3>2, <3>3, <3>5 DEF InOrder, EventOf
  <2>7. Ordered(f)'
    BY <2>6 DEF Ordered
  <2>8. ASSUME NEW j \in Connected', j # f
        PROVE  j \in Connected /\ slot'[j] = slot[j] /\ packets'[j] = packets[j]
    BY <2>2, <2>8 DEF Connected
  <2> QED BY <1>2, <1>t, <2>2, <2>7, <2>8, OrderStays
<1> QED BY <1>3, <1>4, <1>5, SlotTaken DEF Admits

\* A process reads the first d units, or forgets them: what it knows of the
\* newest event it has read is true of what is left.
Reads(c, d) ==
  \A s \in Seq(Unit), q \in Seq(Unit), t \in Producer, n \in Nat, l \in Nat :
    /\ InOrder(s, t, l, n) /\ l = proc[c].last[t] /\ d <= Len(s) /\ Len(q) = Len(s) - d
    /\ \A k \in 1..Len(q) : q[k] = s[k + d]
    /\ \A k \in 1..d : s[k] = down[c][k]
    => InOrder(q, t, proc'[c].last[t], n)

LEMMA OrderOfProcess ==
  ASSUME IInv, NEW c \in Conn, Step(c)
  PROVE  EventsInOrder'
<1>t. /\ TypeOK /\ EventsInOrder /\ PlaceInv /\ WholeInv
      /\ proc \in [Conn -> Processes] /\ down \in [Conn -> Seq(Unit)] /\ proc[c] \in Processes
      /\ down[c] \in Seq(Unit)
  BY DEF IInv, TypeOK
<1>1. UNCHANGED <<slot, packets, srv, post, sent>>
  BY SlotsSame DEF Step, Connect, ReadPong, SendCommand, ReadMessage, Ends, Die, Wants, Others
<1>2. \A j \in Connected', t \in Thread :
         /\ j \in Connected /\ (Dropping(j) <=> Dropping(j)') /\ Newest(j, t)' = Newest(j, t)
  BY <1>1 DEF Connected, Dropping, Newest
\* What happens to the process is of interest if it has a slot.
<1>m. ASSUME \A d \in Conn \ {c} : proc'[d] = proc[d] /\ down'[d] = down[d],
             \A i \in Connected : slot[i] = c => Ordered(i)'
      PROVE  EventsInOrder'
  <2>1. \A j \in Connected' : /\ j \in Connected /\ slot[j] \in Conn
                              /\ \A t \in Producer : Newest(j, t)' = Newest(j, t)
    BY <1>2, <1>t, SlotTypes DEF Producer, Thread
  <2>2. ASSUME NEW j \in Connected', slot[j] # c
        PROVE  /\ j \in Connected /\ slot'[j] = slot[j] /\ packets'[j] = packets[j]
               /\ down'[slot[j]] = down[slot[j]] /\ proc'[slot[j]].last = proc[slot[j]].last
               /\ Dropping(j) => Dropping(j)'
               /\ \A t \in Producer : Newest(j, t)' = Newest(j, t)
    <3>1. j \in Connected /\ slot[j] \in Conn \ {c}
      BY <2>1, <2>2
    <3>2. Dropping(j) => Dropping(j)'
      BY <1>1 DEF Dropping
    <3>3. down'[slot[j]] = down[slot[j]] /\ proc'[slot[j]] = proc[slot[j]]
      BY <1>m, <3>1
    <3> QED BY <1>1, <2>1, <3>1, <3>2, <3>3
  <2>3. \A j \in Connected' : slot[j] = c => Ordered(j)'
    BY <1>m, <2>1
  <2> QED BY <1>t, <2>2, <2>3, OrderStays
<1>r. ASSUME NEW d \in 0..Len(down[c]), NEW w,
             \A k \in Conn \ {c} : proc'[k] = proc[k] /\ down'[k] = down[k],
             w = down'[c], w \in Seq(Unit), Len(w) = Len(down[c]) - d,
             \A k \in 1..Len(w) : w[k] = down[c][k + d],
             Reads(c, d)
      PROVE  EventsInOrder'
  <2>1. ASSUME NEW i \in Connected, slot[i] = c PROVE Ordered(i)'
    <3>1. /\ packets[i] \in Seq(Seq(Unit)) /\ \A k \in DOMAIN packets[i] : Packet(packets[i][k])
          /\ Stream(i) = down[c] \o Heads(packets[i]) /\ Stream(i) \in Seq(Unit)
          /\ \A t \in Thread : Newest(i, t) \in Nat /\ proc[c].last[t] \in Nat
          /\ Ordered(i)
      BY <2>1, OwnStream
    <3>2. PICK s \in Seq(Unit), e \in Seq(Unit), ps \in Seq(Seq(Unit)) :
            s = Stream(i) /\ e = down[c] /\ ps = packets[i]
      BY <1>t, <3>1
    <3>3. PICK a \in Nat, l \in Nat : a = Len(e) /\ l = Len(ps)
      BY LenProperties
    <3>q. PICK q : q = w \o Heads(ps)
      OBVIOUS
    <3>4. /\ Len(s) = a + l /\ \A k \in 1..a : s[k] = e[k]
          /\ \A k \in 1..l : s[a + k] = ps[k][1]
      <4>1. s = e \o Heads(ps) /\ \A k \in DOMAIN ps : Packet(ps[k])
        BY <3>1, <3>2
      <4> QED BY <3>3, <4>1, StreamIs
    <3>5. /\ q \in Seq(Unit) /\ Len(q) = a - d + l /\ \A k \in 1..a - d : q[k] = w[k]
          /\ \A k \in 1..l : q[a - d + k] = ps[k][1]
      <4>1. /\ q \in Seq(Unit) /\ Len(q) = Len(w) + Len(ps) /\ \A k \in 1..Len(w) : q[k] = w[k]
            /\ \A k \in 1..Len(ps) : q[Len(w) + k] = ps[k][1]
        <5>1. \A k \in DOMAIN ps : Packet(ps[k])
          BY <3>1, <3>2
        <5> QED BY <1>r, <3>q, <5>1, StreamIs
      <4>2. Len(w) = a - d /\ Len(ps) = l
        BY <1>r, <3>2, <3>3
      <4> QED BY Zenon, <4>1, <4>2
    <3>6. d \in 0..a /\ Len(w) = a - d /\ \A k \in 1..a - d : w[k] = e[k + d]
      BY <1>r, <3>2, <3>3
    <3>7. ASSUME NEW k \in 1..Len(q) PROVE q[k] = s[k + d]
      <4>1. CASE k <= a - d
        <5>1. k \in 1..a - d /\ k + d \in 1..a
          BY <3>5, <3>6, <4>1
        <5> QED BY <3>4, <3>5, <3>6, <5>1
      <4>2. CASE k > a - d
        <5>1. PICK j \in 1..l : k = a - d + j
          <6>1. k - (a - d) \in 1..l /\ k = a - d + (k - (a - d))
            BY <3>5, <3>6, <4>2
          <6> QED BY <6>1
        <5>2. k + d = a + j
          BY <3>6, <5>1
        <5> QED BY <3>4, <3>5, <5>1, <5>2
      <4> QED BY <3>5, <3>6, <4>1, <4>2
    <3>8. /\ d <= Len(s) /\ Len(q) = Len(s) - d
          /\ \A k \in 1..d : s[k] = down[c][k]
      <4>1. \A k \in 1..d : k \in 1..a
        BY <3>6
      <4> QED BY <3>2, <3>4, <3>5, <3>6, <4>1
    <3>9. Stream(i)' = q
      BY <1>1, <1>r, <2>1, <3>2, <3>q DEF Stream, Heads
    <3>10. ASSUME NEW t \in Producer, ~Dropping(i)'
           PROVE  InOrder(Stream(i), t, proc[slot[i]].last[t], Newest(i, t))'
      <4>1. t \in Thread /\ ~Dropping(i) /\ Newest(i, t)' = Newest(i, t)
        BY <1>1, <3>10 DEF Producer, Thread, Dropping, Newest
      <4>2. PICK n \in Nat, x \in Nat : n = Newest(i, t) /\ x = proc[c].last[t]
        BY <3>1, <4>1
      <4>3. InOrder(s, t, x, n)
        BY <2>1, <3>1, <3>2, <4>1, <4>2 DEF Ordered
      <4>4. InOrder(q, t, proc'[c].last[t], n)
        BY <1>r, <3>5, <3>7, <3>8, <3>10, <4>2, <4>3 DEF Reads
      <4>5. slot'[i] = c
        BY <1>1, <2>1
      <4> QED BY <3>9, <4>1, <4>2, <4>4, <4>5 DEF InOrder, EventOf
    <3> QED BY <3>10 DEF Ordered
  <2> QED BY <1>m, <1>r, <2>1
<1>3. CASE Connect(c) \/ SendCommand(c) \/ \E cmd \in Commands[c] : Wants(c, cmd)
  <2>1. down' = down /\ \A d \in Conn : proc'[d].last = proc[d].last
    <3>1. CASE Connect(c)
      <4>1. proc' = [proc EXCEPT ![c] = [proc[c] EXCEPT !.at = "pinging"]] /\ down' = down
        BY <1>t, <3>1 DEF Connect, Goes
      <4> QED BY <1>t, <4>1 DEF Processes
    <3>2. CASE SendCommand(c)
      BY <1>t, <3>2 DEF SendCommand, Processes
    <3>3. ASSUME NEW cmd \in Commands[c], Wants(c, cmd)
          PROVE  down' = down /\ \A d \in Conn : proc'[d].last = proc[d].last
      BY <1>t, <3>3 DEF Wants, Processes
    <3> QED BY <1>3, <3>1, <3>2, <3>3
  <2>2. ASSUME NEW j \in Connected'
        PROVE  /\ j \in Connected /\ slot'[j] = slot[j] /\ packets'[j] = packets[j]
               /\ down'[slot[j]] = down[slot[j]] /\ proc'[slot[j]].last = proc[slot[j]].last
               /\ Dropping(j) => Dropping(j)'
               /\ \A t \in Producer : Newest(j, t)' = Newest(j, t)
    <3>1. j \in Connected /\ slot[j] \in Conn
      <4>1. j \in Connected
        BY <1>1 DEF Connected
      <4> QED BY <1>t, <4>1, SlotTypes
    <3>2. Dropping(j) => Dropping(j)'
      BY <1>1 DEF Dropping
    <3>3. \A t \in Producer : Newest(j, t)' = Newest(j, t)
      BY <1>2 DEF Producer, Thread
    <3> QED BY <1>1, <2>1, <3>1, <3>2, <3>3
  <2> QED BY <1>t, <2>2, OrderStays
<1>g. ASSUME Gone(c) PROVE EventsInOrder'
  <2>1. PICK d \in Nat : d = Len(down[c])
    BY <1>t, LenProperties
  <2>2. /\ down'[c] = <<>> /\ proc'[c].last = [t \in Thread |-> 0]
        /\ \A k \in Conn \ {c} : proc'[k] = proc[k] /\ down'[k] = down[k]
    BY <1>g, <1>t DEF Gone, Processes
  <2>3. ASSUME NEW s \in Seq(Unit), NEW q \in Seq(Unit), NEW t \in Producer,
               NEW n \in Nat, NEW l \in Nat, InOrder(s, t, l, n),
               d <= Len(s), Len(q) = Len(s) - d,
               \A k \in 1..Len(q) : q[k] = s[k + d]
        PROVE  InOrder(q, t, proc'[c].last[t], n)
    <3>1. proc'[c].last[t] = 0
      BY <2>2 DEF Producer, Thread
    <3>2. d \in 0..Len(s) /\ n \in Int
      BY <2>3, LenProperties
    <3> QED BY <2>3, <3>1, <3>2, AllForgotten
  <2>4. <<>> \in Seq(Unit) /\ Len(<<>>) = Len(down[c]) - d /\ d \in 0..Len(down[c]) /\ Len(<<>>) = 0
    BY <2>1
  <2>5. Reads(c, d)
    BY <2>3 DEF Reads
  <2>6. PICK w : w = <<>>
    OBVIOUS
  <2>7. /\ w = down'[c] /\ w \in Seq(Unit) /\ Len(w) = Len(down[c]) - d
        /\ \A k \in 1..Len(w) : w[k] = down[c][k + d]
    BY <2>2, <2>4, <2>6
  <2> QED BY <1>r, <2>2, <2>4, <2>5, <2>7
<1>4. CASE ReadPong(c)
  <2>1. down[c] # <<>>
    BY <1>4 DEF ReadPong
  <2>2. CASE /\ Head(down[c]).k = "pong" /\ Goes(c, "open")
             /\ down' = [down EXCEPT ![c] = Tail(down[c])]
    <3>1. /\ proc'[c].last = proc[c].last
          /\ \A d \in Conn \ {c} : proc'[d] = proc[d] /\ down'[d] = down[d]
          /\ down'[c] = Tail(down[c])
      BY <1>t, <2>2 DEF Goes, Processes
    <3>2. PICK w : w = down'[c]
      OBVIOUS
    <3>3. /\ w \in Seq(Unit) /\ Len(w) = Len(down[c]) - 1 /\ 1 \in 0..Len(down[c])
          /\ \A k \in 1..Len(w) : w[k] = down[c][k + 1]
      <4>1. Len(down[c]) \in Nat /\ Len(down[c]) # 0
        BY <1>t, <2>1, EmptySeq, LenProperties
      <4> QED BY <1>t, <2>1, <3>1, <3>2, <4>1, HeadTailProperties
    <3>4. ASSUME NEW s \in Seq(Unit), NEW q \in Seq(Unit), NEW t \in Producer,
                 NEW n \in Nat, NEW l \in Nat, InOrder(s, t, l, n), l = proc[c].last[t],
                 1 <= Len(s), Len(q) = Len(s) - 1,
                 \A k \in 1..Len(q) : q[k] = s[k + 1], \A k \in 1..1 : s[k] = down[c][k]
          PROVE  InOrder(q, t, proc'[c].last[t], n)
      <4>1. s[1].k = "pong"
        BY <1>t, <2>1, <2>2, <3>4
      <4>2. \A k \in 1..1 : ~EventOf(s[k], t)
        BY <4>1 DEF EventOf
      <4>3. 1 \in 0..Len(s)
        BY <3>4, LenProperties
      <4>4. InOrder(q, t, l, n)
        BY <3>4, <4>2, <4>3, OthersRead
      <4> QED BY <3>1, <3>4, <4>4
    <3>5. Reads(c, 1)
      BY <3>4 DEF Reads
    <3> QED BY <1>r, <3>1, <3>2, <3>3, <3>5
  <2> QED BY <1>4, <1>g, <2>1, <2>2 DEF ReadPong
<1>5. CASE ReadMessage(c)
  <2>1. PICK e \in Seq(Unit) : e = down[c] /\ Len(e) > 1 /\ Aligned(e)
    <3>1. Fine(c) /\ Body(c) = down[c] /\ Len(down[c]) > 1
      BY <1>5 DEF ReadMessage, Past, Fine, Body, PongAhead
    <3> QED BY <1>t, <3>1 DEF WholeInv, Whole
  <2>2. /\ Complete(e[1], e[2]) /\ e[2].k \in {"part", "answer"}
        /\ e[1] \in Unit /\ e[2] \in Unit
    BY <2>1, AlignedRead, ReadRest
  <2>3. PICK w : w = down'[c]
    OBVIOUS
  <2>4. /\ w \in Seq(Unit) /\ Len(w) = Len(e) - 2 /\ 2 \in 0..Len(e)
        /\ \A k \in 1..Len(w) : w[k] = e[k + 2]
    <3>1. w = SubSeq(e, 3, Len(e))
      BY <1>5, <1>t, <2>1, <2>3 DEF ReadMessage
    <3>2. Len(e) \in Nat
      BY LenProperties
    <3> QED BY <2>1, <3>1, <3>2, ReadRest
  <2>5. /\ \A d \in Conn \ {c} : proc'[d] = proc[d] /\ down'[d] = down[d]
        /\ proc'[c].last = IF e[1].by \in Thread THEN [proc[c].last EXCEPT ![e[1].by] = e[1].n]
                           ELSE proc[c].last
    <3>1. /\ down' = [down EXCEPT ![c] = SubSeq(@, 3, Len(@))]
          /\ proc' = [proc EXCEPT ![c].garbled = ~Complete(e[1], e[2]),
                     ![c].last = IF e[1].by \in Thread THEN [@ EXCEPT ![e[1].by] = e[1].n] ELSE @,
                     ![c].at = IF Complete(e[1], e[2]) /\ e[1].k = "data" THEN "open" ELSE @]
      BY <1>5, <2>1 DEF ReadMessage
    <3> QED BY <1>t, <3>1 DEF Processes
  <2>6. ASSUME NEW s \in Seq(Unit), NEW q \in Seq(Unit), NEW t \in Producer,
               NEW n \in Nat, NEW l \in Nat, InOrder(s, t, l, n), l = proc[c].last[t],
               2 <= Len(s), Len(q) = Len(s) - 2,
               \A k \in 1..Len(q) : q[k] = s[k + 2], \A k \in 1..2 : s[k] = down[c][k]
        PROVE  InOrder(q, t, proc'[c].last[t], n)
    <3>1. s[1] = e[1] /\ s[2] = e[2] /\ t \in Thread /\ 2 \in 0..Len(s) /\ 2 \in 1..Len(s)
      BY <2>1, <2>6, LenProperties DEF Producer, Thread
    <3>2. ~EventOf(s[2], t) /\ \A k \in 2..2 : k = 2
      BY <2>2, <3>1 DEF EventOf
    <3>3. CASE EventOf(s[1], t)
      <4>1. proc'[c].last[t] = s[1].n
        BY <1>t, <2>5, <3>1, <3>3 DEF EventOf, Processes
      <4>2. \A k \in 2..2 : ~EventOf(s[k], t)
        BY <3>2
      <4>3. n \in Int
        OBVIOUS
      <4> QED BY <2>6, <3>1, <3>3, <4>1, <4>2, <4>3, EventRead
    <3>4. CASE ~EventOf(s[1], t)
      <4>1. e[1].by # t
        <5>1. e[1].k \in {"event", "tags", "data"}
          BY <2>2 DEF Complete
        <5>2. e[1].by = t => e[1].k = "event"
          <6>1. t \notin Conn /\ t # None
            BY <3>1, ServerAssumption DEF Thread, None
          <6> QED BY <2>2, <5>1, <6>1 DEF Unit
        <5> QED BY <3>1, <3>4, <5>2 DEF EventOf
      <4>2. proc'[c].last[t] = l
        BY <1>t, <2>5, <2>6, <3>1, <4>1 DEF Processes
      <4>3. \A k \in 1..2 : ~EventOf(s[k], t)
        <5>1. \A k \in 1..2 : k = 1 \/ k = 2
          OBVIOUS
        <5> QED BY <3>2, <3>4, <5>1
      <4>4. InOrder(q, t, l, n)
        BY <2>6, <3>1, <4>3, OthersRead
      <4> QED BY <4>2, <4>4
    <3> QED BY <3>3, <3>4
  <2>7. Reads(c, 2)
    BY <2>6 DEF Reads
  <2> QED BY <1>r, <2>1, <2>3, <2>4, <2>5, <2>7
<1>6. CASE Ends(c) \/ Die(c)
  BY <1>6, <1>g DEF Ends, Die
<1> QED BY <1>3, <1>4, <1>5, <1>6 DEF Step

LEMMA OrderStep ==
  ASSUME IInv, [Next]_vars
  PROVE  EventsInOrder'
<1>t. /\ TypeOK /\ EventsInOrder /\ slot \in [Slot -> Conn \cup {None}]
      /\ packets \in [Slot -> Seq(Seq(Unit))] /\ post \in [Thread -> Posts]
      /\ sent \in [Thread -> Nat] /\ srv \in Servers
  BY DEF IInv, TypeOK
\* A thread that was idle begins with an event that nobody has yet.
<1>1. CASE PlayerEvent \/ \E i \in Slot : TagsAnswer(i)
  <2>1. UNCHANGED <<slot, packets, down, proc, srv>>
    BY <1>1 DEF PlayerEvent, TagsAnswer, sockets, slots
  <2>2. ASSUME NEW j \in Slot, NEW t \in Producer PROVE Newest(j, t)' = Newest(j, t)
    <3>1. CASE PlayerEvent
      <4>1. /\ post["player"].todo = {} /\ t \in Thread /\ sent[t] \in Nat
            /\ post' = [post EXCEPT !["player"] =
                           [ev |-> U("event", "player", sent["player"] + 1), todo |-> Slot,
                            at |-> "check", added |-> FALSE]]
            /\ sent' = [sent EXCEPT !["player"] = @ + 1]
        BY <1>t, <3>1 DEF PlayerEvent, StartPost, Idle, Producer, Thread
      <4> QED BY <1>t, <4>1 DEF Newest
    <3>2. ASSUME NEW i \in Slot, TagsAnswer(i) PROVE Newest(j, t)' = Newest(j, t)
      <4>1. post'[t] = post[t] /\ sent'[t] = sent[t]
        BY <1>t, <3>2 DEF TagsAnswer, StartPost, Producer, Thread
      <4> QED BY <4>1 DEF Newest
    <3> QED BY <1>1, <3>1, <3>2
  <2>3. \A j \in Connected' : j \in Connected /\ j \in Slot
    BY <2>1 DEF Connected
  <2> QED BY <1>t, <2>1, <2>2, <2>3, OrderStays DEF Dropping
<1>2. CASE \/ Turn \/ SignalQuit \/ SendEvents \/ ReplySent \/ ReplyFails \/ ShutDown
           \/ UNCHANGED vars
  <2>1. UNCHANGED <<slot, packets, down, proc, post, sent>>
    BY <1>2 DEF Turn, SignalQuit, SendEvents, ReplySent, ReplyFails, ShutDown, sockets, slots, vars
  <2>2. srv.pc = "drop" => srv' = srv
    BY <1>2 DEF Turn, SignalQuit, SendEvents, ReplySent, ReplyFails, ShutDown, Serving, ServerAt, vars
  <2>3. \A j \in Connected' : /\ j \in Connected /\ (Dropping(j) => Dropping(j)')
                              /\ \A t \in Producer : Newest(j, t)' = Newest(j, t)
    BY <2>1, <2>2 DEF Connected, Dropping, Newest
  <2> QED BY <1>t, <2>1, <2>3, OrderStays
\* The slot that is dropped is the one whose stream may be torn.
<1>3. CASE DropClient \/ DropExiting
  <2>1. PICK i : i = srv.i
    OBVIOUS
  <2>2. /\ UNCHANGED <<proc, down, post, sent>>
        /\ slot' = [slot EXCEPT ![i] = None] /\ packets' = [packets EXCEPT ![i] = <<>>]
    BY <1>3, <2>1 DEF DropClient, DropExiting, Drop
  <2>3. \A j \in Connected' : /\ j \in Connected /\ slot'[j] = slot[j] /\ packets'[j] = packets[j]
                              /\ ~Dropping(j) /\ \A t \in Producer : Newest(j, t)' = Newest(j, t)
    BY <1>t, <2>1, <2>2 DEF Connected, Dropping, Newest
  <2> QED BY <1>t, <2>2, <2>3, OrderStays
<1>4. CASE HandleCommand
  <2>1. /\ Serving /\ UNCHANGED <<down, proc, slot, packets>>
        /\ \E j \in srv.read : NoCommand(j) \/ \E cmd \in Cmd : Takes(j, cmd)
    BY <1>4, CommandTaken
  <2>2. \/ UNCHANGED <<post, sent>>
        \/ StartPost("server", "event", "server", Slot) /\ post["server"] = Idle
    BY <2>1 DEF NoCommand, Takes, Answers, Sets, Asks, Leaves, Serving, ServerAt
  <2>3. ASSUME NEW j \in Slot, NEW t \in Producer PROVE Newest(j, t)' = Newest(j, t)
    <3>1. CASE StartPost("server", "event", "server", Slot) /\ post["server"] = Idle
      <4>1. /\ post["server"].todo = {} /\ t \in Thread /\ sent[t] \in Nat
            /\ post' = [post EXCEPT !["server"] =
                           [ev |-> U("event", "server", sent["server"] + 1), todo |-> Slot,
                            at |-> "check", added |-> FALSE]]
            /\ sent' = [sent EXCEPT !["server"] = @ + 1]
        BY <1>t, <3>1 DEF StartPost, Idle, Producer, Thread
      <4> QED BY <1>t, <4>1 DEF Newest
    <3> QED BY <2>2, <3>1 DEF Newest
  <2>4. \A j \in Connected' : j \in Connected /\ j \in Slot /\ ~Dropping(j)
    BY <2>1 DEF Connected, Dropping, Serving, ServerAt
  <2> QED BY <1>t, <2>1, <2>3, <2>4, OrderStays
<1> QED BY <1>1, <1>2, <1>3, <1>4, Steps, OrderOfThread, OrderOfPacket, OrderOfSends, OrderOfSelect,
           OrderOfProcess DEF SendStep, ReplyStep, ExitStep

-----------------------------------------------------------------------------
(* The theorems                                                            *)

LEMMA InvInit ==
  ASSUME Init
  PROVE  IInv
<1>1. TypeOK
  BY TypeInit
<1>2. /\ \A i \in Slot : slot[i] = None /\ packets[i] = <<>> /\ buf[i] = <<>> /\ queue[i] = <<>>
      /\ \A c \in Conn : down[c] = <<>> /\ up[c] = <<>>
      /\ \A c \in Conn : proc[c].at = "out" /\ ~proc[c].garbled /\ proc[c].last = [t \in Thread |-> 0]
      /\ \A t \in Thread : post[t] = Idle
      /\ backlog = <<>> /\ srv.pc = "serve" /\ srv.read = {} /\ srv.write = {} /\ srv.left = <<>>
  BY DEF Init
<1>3. DOMAIN <<>> = {} /\ Len(<<>>) = 0 /\ Connected = {}
  BY <1>2 DEF Connected
<1>4. PostInv
  <2>1. Idle.at = "idle"
    BY DEF Idle
  <2>2. \A t \in Thread : post[t] = Idle
    BY <1>2
  <2> QED BY <2>1, <2>2 DEF PostInv
<1>5. BufInv
  BY <1>2, <1>3 DEF BufInv, Filling, Idle
<1>6. ServerInv
  BY <1>2, <1>3 DEF ServerInv, Idle, Thread
<1>7. PlaceInv
  BY <1>2, <1>3, ServerAssumption DEF PlaceInv
<1>8. PingInv
  BY <1>2, <1>3 DEF PingInv, Pinged, Past, PongAhead
<1>9. \A c \in Conn : ~Fine(c)
  BY <1>2 DEF Fine, Past, PongAhead
<1>10. WholeInv
  BY <1>2, <1>3, <1>9 DEF WholeInv, WholeMessages, Whole
<1>11. PacketInv /\ QueueIsOwn /\ EventsInOrder
  BY <1>2, <1>3 DEF PacketInv, QueueIsOwn, EventsInOrder
<1> QED BY <1>1, <1>4, <1>5, <1>6, <1>7, <1>8, <1>10, <1>11 DEF IInv

\* The invariant holds of every state that the server, its threads and its
\* clients get to (server.cc, Socket.cc).
THEOREM Invariant == Spec => []IInv
<1>1. Init => IInv
  BY InvInit
<1>2. IInv /\ [Next]_vars => IInv'
  BY TypeStep, PostStep, BufStep, ServerInvStep, PlaceStep, PingStep, WholeStep, PacketStep,
     QueueStep, OrderStep DEF IInv
<1> QED BY <1>1, <1>2, PTL DEF Spec

\* The state has its types; no socket holds more than it has room for.
THEOREM TypeCorrect == Spec => []TypeOK
<1>1. IInv => TypeOK
  BY DEF IInv
<1> QED BY <1>1, Invariant, PTL

\* The tags requested by a client are never answered to the one that gets its
\* slot after it, as long as they wait in the queue (server.cc:149, 177).
THEOREM RequestsStayOwn == Spec => []QueueIsOwn
<1>1. IInv => QueueIsOwn
  BY DEF IInv
<1> QED BY <1>1, Invariant, PTL

\* Whoever got its pong reads whole messages: packets, answers and events of
\* several threads are never mixed or torn with more after them.
THEOREM MessagesAreWhole == Spec => []WholeMessages
<1>1. IInv => WholeMessages
  BY DEF IInv, WholeInv
<1> QED BY <1>1, Invariant, PTL

\* A thread's events reach each client in the order they were made, without
\* a gap and none twice, however many clients come and go (server.cc:359-424).
THEOREM EventsKeepOrder == Spec => []EventsInOrder
<1>1. IInv => EventsInOrder
  BY DEF IInv
<1> QED BY <1>1, Invariant, PTL

================================================================================
