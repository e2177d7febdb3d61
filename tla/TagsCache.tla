------------------------------ MODULE TagsCache ------------------------------
(* The tags cache (server/tags_cache.cc, tags_db.cc): the requests that the *)
(* server's thread queues for each client, the thread that reads them, the  *)
(* database both use, and the files and ratings behind it.                  *)
(*                                                                          *)
(* A file is its modification time and its tags, a number that is new with  *)
(* every change; its rating is in the ratings file of its directory.  Times *)
(* are whole seconds (files.cc:371-379): changes that follow each other may *)
(* have the same time, but none has an earlier one, as long as nothing sets *)
(* the clock or the times of files back.  The two threads lock records with *)
(* one locker, and locks of one locker never conflict (tags_db.cc:113,      *)
(* 274): the locks are left out.                                            *)
EXTENDS Integers, Sequences, FiniteSets

CONSTANTS Path, N,     \* N is CLIENTS_MAX
          Ratings,     \* those a file can be given, beside 0
          MaxTags,     \* bound: versions of files
          Second,      \* by version: the second it was written in
          MaxCalls     \* bound: calls of the server's thread

ASSUME TagsAssumption == /\ N \in Nat \ {0} /\ IsFiniteSet(Path)
                         /\ MaxTags \in Nat /\ MaxCalls \in Nat
                         /\ Cardinality(Path) <= MaxTags

ASSUME ClockAssumption == /\ Second \in [1..MaxTags -> Nat]
                          /\ \A m, n \in 1..MaxTags : m <= n => Second[m] <= Second[n]

VARIABLES disk,     \* by path: the file, or Absent
          rated,    \* by path: what the ratings file says
          db,       \* by path: the record, or NoRecord; see old
          queues,   \* by client: requests, [path, write]
          last,     \* last_client
          job,      \* by thread: what it is doing
          open,     \* the database is there
          calls     \* calls of the server's thread so far

vars == <<disk, rated, db, queues, last, job, open, calls>>

Client == 0..N - 1
Absent == [mtime |-> -1, tags |-> 0]
Version(n) == [mtime |-> Second[n], tags |-> n]
(* old is history: it is known how the record became one of old and new.    *)
NoRecord == [mtime |-> -1, tags |-> 0, rating |-> 0, old |-> FALSE]
None == "none"
Idle == [at |-> "idle", path |-> None, to |-> None, client |-> -1, rec |-> NoRecord]

Turn == [Idle EXCEPT !.at = "turn"]
Thread == {"server", "reader"}

Init ==
  /\ disk \in [Path -> {Absent} \cup {Version(n) : n \in 1..Cardinality(Path)}]
  /\ \A f, g \in Path : f # g => disk[f] = Absent \/ disk[f] # disk[g]
  /\ rated = [f \in Path |-> 0] /\ db = [f \in Path |-> NoRecord]
  /\ queues = [c \in Client |-> <<>>] /\ last = 0
  /\ job = [t \in Thread |-> IF t = "reader" THEN Turn ELSE Idle]
  /\ open = TRUE /\ calls = 0

Ready(t, at) == job[t].at = at /\ open
Goes(t, at) == job' = [job EXCEPT ![t].at = at]
Finished(t) == [job EXCEPT ![t] = IF t = "reader" THEN Turn ELSE Idle]

-----------------------------------------------------------------------------
(* read_add(), by the reader or, for no client, by the server's thread: the *)
(* record, the time, the tags and the rating, then the record again.        *)

ReadRecord(t) ==
  /\ Ready(t, "get")
  /\ job' = [job EXCEPT ![t].at = "stat", ![t].rec = db[job[t].path]]
  /\ UNCHANGED <<disk, rated, db, queues, last, open, calls>>

Hit(rec, f) == rec.mtime # -1 /\ rec.mtime = disk[f].mtime

ReadTime(t) ==
  LET f == job[t].path IN
  /\ Ready(t, "stat")
  /\ job' = IF Hit(job[t].rec, f) THEN Finished(t)
            ELSE [job EXCEPT ![t].at = "read", ![t].rec.mtime = disk[f].mtime]
  /\ UNCHANGED <<disk, rated, db, queues, last, open, calls>>

(* The ratings file is rewritten in place (ratings.cc:185-219): meanwhile,  *)
(* anything may be found in it.                                             *)
RatingsRead(f) == IF job["server"].at = "unrate" THEN Ratings \cup {0} ELSE {rated[f]}

(* What cannot be read leaves the tags that the record had.                 *)
ReadTags(t) ==
  LET f == job[t].path
      read(r) == [job[t].rec EXCEPT !.rating = r,
                                    !.old = disk[f].mtime # job[t].rec.mtime \/ r # rated[f],
                                    !.tags = IF disk[f] = Absent THEN @ ELSE disk[f].tags] IN
  /\ Ready(t, "read")
  /\ \E r \in RatingsRead(f) : job' = [job EXCEPT ![t].at = "add", ![t].rec = read(r)]
  /\ UNCHANGED <<disk, rated, db, queues, last, open, calls>>

TimedAtEnd(rec, f) == [rec EXCEPT !.mtime = disk[f].mtime]
Timed(rec, f) == rec

AddRecord(t) ==
  LET f == job[t].path IN
  /\ Ready(t, "add")
  /\ db' = [db EXCEPT ![f] = Timed(job[t].rec, f)]
  /\ job' = Finished(t)
  /\ UNCHANGED <<disk, rated, queues, last, open, calls>>

-----------------------------------------------------------------------------
(* reader_thread(): the clients in turn, beginning after the last one.      *)
Turns == 1..N
FirstOf(S) == CHOOSE k \in S : \A j \in S : k <= j
Waiting == {k \in Turns : queues[(last + k) % N] # <<>>}

FromZero(S) == (CHOOSE c \in Client : \E k \in S : c = (last + k) % N /\
                  \A j \in S : c <= (last + j) % N)
InTurn(S) == (last + FirstOf(S)) % N

TakeRequest ==
  LET c == InTurn(Waiting)
      rq == Head(queues[c]) IN
  /\ Ready("reader", "turn")
  /\ IF Waiting = {}
     THEN Goes("reader", "asleep") /\ UNCHANGED <<queues, last>>
     ELSE /\ queues' = [queues EXCEPT ![c] = Tail(@)] /\ last' = c
          /\ job' = [job EXCEPT !["reader"] = [Idle EXCEPT !.path = rq.path, !.client = c,
                                                           !.at = IF rq.write THEN "write" ELSE "get"]]
  /\ UNCHANGED <<disk, rated, db, open, calls>>

(* The newest tags there are.                                               *)
Newest == CHOOSE n \in 0..MaxTags :
            /\ \A f \in Path : disk[f].tags <= n /\ db[f].tags <= n
            /\ \A t \in Thread : job[t].rec.tags <= n
            /\ \E r \in {disk[f] : f \in Path} \cup {db[f] : f \in Path}
                         \cup {job[t].rec : t \in Thread} : r.tags = n

Changed(f) == [disk EXCEPT ![f] = Version(Newest + 1)]

(* write_add(): the decoder may fail, and then nothing is read.             *)
WriteTags ==
  LET f == job["reader"].path IN
  /\ Ready("reader", "write")
  /\ \/ /\ disk[f] # Absent /\ Newest < MaxTags
        /\ disk' = Changed(f) /\ Goes("reader", "get")
     \/ disk' = disk /\ job' = Finished("reader")
  /\ UNCHANGED <<rated, db, queues, last, open, calls>>

ReaderStep == \/ TakeRequest \/ WriteTags \/ ReadRecord("reader") \/ ReadTime("reader")
              \/ ReadTags("reader") \/ AddRecord("reader")

-----------------------------------------------------------------------------
(* The server's thread                                                      *)
Called == job["server"] = Idle /\ open /\ calls < MaxCalls /\ calls' = calls + 1
Woken == IF job["reader"].at = "asleep" THEN [job EXCEPT !["reader"].at = "turn"] ELSE job

AddRequest(c, f, write) ==
  /\ Called
  /\ IF ~write /\ Hit(db[f], f)
     THEN UNCHANGED <<queues, job>>  \* tags_response()
     ELSE /\ queues' = [queues EXCEPT ![c] = Append(@, [path |-> f, write |-> write])]
          /\ job' = Woken
  /\ UNCHANGED <<disk, rated, db, last, open>>

ClearQueue(c) ==
  /\ Called /\ queues[c] # <<>>
  /\ queues' = [queues EXCEPT ![c] = <<>>]
  /\ UNCHANGED <<disk, rated, db, last, job, open>>

Starting(at, f, to) == [job EXCEPT !["server"] = [Idle EXCEPT !.at = at, !.path = f, !.to = to]]

GetImmediate(f) ==
  /\ Called /\ disk[f] # Absent /\ job' = Starting("get", f, None)
  /\ UNCHANGED <<disk, rated, db, queues, last, open>>

(* A rating that changes while the reader has the old one in its hands.     *)
Overtaken(S, j) ==
  IF j["reader"].at = "add" /\ j["reader"].path \in S
  THEN [j EXCEPT !["reader"].rec.old = TRUE] ELSE j

(* ratings_write(), then ratings_changed().                                 *)
Rate(f, r) ==
  /\ Called /\ disk[f] # Absent /\ rated[f] # r
  /\ rated' = [rated EXCEPT ![f] = r]
  /\ job' = Overtaken({f}, Starting("rated", f, None))
  /\ UNCHANGED <<disk, db, queues, last, open>>

NotHigher(rec, r) == rec.rating >= r
Dummy(rec, r) == rec.rating = r

RatingChanged ==
  LET f == job["server"].path IN
  /\ Ready("server", "rated")
  /\ job' = IF Hit(db[f], f) /\ ~Dummy(db[f], rated[f])
            THEN [job EXCEPT !["server"].at = "rate",
                        !["server"].rec = [db[f] EXCEPT !.rating = rated[f]]]
            ELSE Finished("server")
  /\ UNCHANGED <<disk, rated, db, queues, last, open, calls>>

PutRating ==
  LET f == job["server"].path IN
  /\ Ready("server", "rate")
  /\ db' = [db EXCEPT ![f] = job["server"].rec]
  /\ job' = Finished("server")
  /\ UNCHANGED <<disk, rated, queues, last, open, calls>>

(* files_rm(), files_mv(): the file, its record, its rating.                *)
RemoveFile(f) ==
  /\ Called /\ disk[f] # Absent
  /\ disk' = [disk EXCEPT ![f] = Absent] /\ job' = Starting("removed", f, None)
  /\ UNCHANGED <<rated, db, queues, last, open>>

(* The mover of one file keeps the record of the name it had.               *)
MoveFile(f, g, one) ==
  /\ Called /\ disk[f] # Absent /\ disk[g] = Absent
  /\ disk' = [disk EXCEPT ![f] = Absent, ![g] = disk[f]]
  /\ job' = Starting(IF one THEN "unrate" ELSE "removed", f, g)
  /\ db' = IF one THEN [db EXCEPT ![f].old = TRUE] ELSE db
  /\ UNCHANGED <<rated, queues, last, open>>

RecordGone(f) == [db EXCEPT ![f] = NoRecord]

RemoveRecord ==
  /\ Ready("server", "removed")
  /\ db' = RecordGone(job["server"].path)
  /\ Goes("server", "unrate")
  /\ UNCHANGED <<disk, rated, queues, last, open, calls>>

(* ratings_remove(), which may rewrite the whole file in place, and then    *)
(* ratings_write() of what it returns, if positive.                         *)
Overwritten(g) == [h \in Path |-> IF h = g THEN [db[h] EXCEPT !.old = TRUE] ELSE db[h]]

RemoveRating ==
  LET f == job["server"].path
      g == job["server"].to IN
  /\ Ready("server", "unrate")
  /\ rated' = [rated EXCEPT ![f] = 0]
  /\ job' = Overtaken({f, g}, IF g # None /\ rated[f] > 0
                              THEN [job EXCEPT !["server"].at = "place",
                                               !["server"].rec.rating = rated[f]]
                              ELSE Finished("server"))
  /\ db' = Overwritten(g)
  /\ UNCHANGED <<disk, queues, last, open, calls>>

PlaceRating ==
  LET g == job["server"].to IN
  /\ Ready("server", "place")
  /\ rated' = [rated EXCEPT ![g] = job["server"].rec.rating]
  /\ job' = Overtaken({g}, Finished("server"))
  /\ db' = Overwritten(g)
  /\ UNCHANGED <<disk, queues, last, open, calls>>

(* Another program changes a file.                                          *)
Touch(f) ==
  /\ disk[f] # Absent /\ Newest < MaxTags
  /\ disk' = Changed(f)
  /\ UNCHANGED <<rated, db, queues, last, job, open, calls>>

(* ~tags_cache() deletes the database, then joins the reader.               *)
Destroy ==
  /\ Called
  /\ open' = FALSE
  /\ UNCHANGED <<disk, rated, db, queues, last, job>>

ServerStep == \/ ReadRecord("server") \/ ReadTime("server") \/ ReadTags("server") \/ AddRecord("server")
              \/ RatingChanged \/ PutRating \/ RemoveRecord \/ RemoveRating \/ PlaceRating

Next ==
  \/ ReaderStep \/ ServerStep
  \/ \E f \in Path : \/ \E c \in Client, w \in BOOLEAN : AddRequest(c, f, w)
                     \/ GetImmediate(f) \/ RemoveFile(f) \/ Touch(f)
                     \/ \E r \in Ratings \cup {0} : Rate(f, r)
                     \/ \E g \in Path \ {f}, one \in BOOLEAN : MoveFile(f, g, one)
  \/ \E c \in Client : ClearQueue(c)
  \/ Destroy

Spec == Init /\ [][Next]_vars

-----------------------------------------------------------------------------
Record == [mtime : {-1} \cup Nat, tags : 0..MaxTags, rating : Ratings \cup {0}, old : BOOLEAN]

File == {Absent} \cup {Version(n) : n \in 1..MaxTags}

ServerPlaces == {"idle", "get", "stat", "read", "add", "rated", "rate", "removed", "unrate", "place"}
ReaderPlaces == {"turn", "asleep", "write", "get", "stat", "read", "add"}
Job == [at : ServerPlaces \cup ReaderPlaces, path : Path \cup {None}, to : Path \cup {None},
        client : Client \cup {-1}, rec : Record]

TypeOK ==
  /\ disk \in [Path -> File]
  /\ rated \in [Path -> Ratings \cup {0}] /\ db \in [Path -> Record]
  /\ queues \in [Client -> Seq([path : Path, write : BOOLEAN])] /\ last \in Client
  /\ job \in [Thread -> Job]
  /\ job["server"].at \in ServerPlaces /\ job["reader"].at \in ReaderPlaces
  /\ \A t \in Thread : job[t].at \notin {"idle", "turn", "asleep"} => job[t].path \in Path
  /\ open \in BOOLEAN /\ calls \in 0..MaxCalls

(* A record that counts as up to date has tags that were written in the     *)
(* very second in which its file was, whatever changes, moves and removals  *)
(* came between (tags_cache.cc:26, 198), unless the file was replaced       *)
(* between the time and the tags that were read.  It has the tags of the    *)
(* file itself if no two changes fall into one second; else it may have     *)
(* those of the first for ever.                                             *)
WrittenWith(n, f) == n \in 1..MaxTags /\ Second[n] = disk[f].mtime
CacheTrue == \A f \in Path : Hit(db[f], f) /\ ~db[f].old => WrittenWith(db[f].tags, f)

(* It also has the file's rating, once the server is done with it, but for  *)
(* readings that the rating overtook, or of a ratings file that was being   *)
(* rewritten, and records that a renaming left, or that were made between   *)
(* the moves of a file and of its rating.                                   *)
RatingTrue ==
  \A f \in Path : Hit(db[f], f) /\ ~db[f].old /\ job["server"].at \notin {"rated", "rate", "removed", "unrate", "place"}
                    => db[f].rating = rated[f]

(* No client is served twice in a row while another waits.                  *)
ServedInTurn ==
  [][job["reader"].at = "turn" /\ job'["reader"].at \in {"get", "write"} /\ last' = last
       => \A c \in Client \ {last} : queues[c] = <<>>]_vars

(* tags_cache.cc:11: "If client_id != -1, the server is notified using      *)
(* tags_response()": a request that was read ends with the answer, which    *)
(* follows the adding of the record.                                        *)
RequestsAnswered ==
  [][LET r == job["reader"] IN
     r.at \in {"stat", "add"} /\ job'["reader"].at = "turn" => r.at = "add"]_vars
=============================================================================
