--------------------------- MODULE SongDataProofs ---------------------------
(***************************************************************************)
(* Proofs about what is known of songs.  The tags cache: its types, that a *)
(* record that counts as up to date is right in tags and in rating, and    *)
(* that the reader goes round the clients.  The file of ratings, for every *)
(* file, name and size of a chunk: find_rating() finds the first line for  *)
(* the name, and the place it reports is the digit's as long as the file   *)
(* fits into a chunk.                                                      *)
(***************************************************************************)
EXTENDS TagsCache, FiniteSetTheorems, SequenceLemmas

(* What was read of a file was written in the second it was timed at.      *)
RecordTrue(r) == r.mtime # -1 /\ ~r.old => r.tags \in 1..MaxTags /\ r.mtime = Second[r.tags]

(* It is of no version that the file has yet to reach.                     *)
Reached(r, d) == r.mtime # -1 /\ ~r.old => d = Absent \/ r.tags <= d.tags

(* The server's thread s has moved a file to f, and its rating not yet.    *)
IsMoving(s, f) == s.at \in {"removed", "unrate", "place"} /\ s.to = f

(* A record in the database, or about to be put there.                     *)
RecordsTrue ==
  /\ \A f \in Path : RecordTrue(db[f]) /\ (IsMoving(job["server"], f) \/ Reached(db[f], disk[f]))
  /\ \A t \in Thread : job[t].at \in {"add", "rate"} =>
       /\ RecordTrue(job[t].rec)
       /\ IsMoving(job["server"], job[t].path) \/ Reached(job[t].rec, disk[job[t].path])

(* The server's thread is about to see to the rating of f.                 *)
BeingRated(f) ==
  \/ IsMoving(job["server"], f)
  \/ job["server"].at \in {"rated", "rate"} /\ job["server"].path = f

(* A rating changes in the hands of no thread unmarked, and in the database *)
(* only while the server's thread is at it; what is moved away is gone.    *)
RatingsHeld ==
  /\ \A t \in Thread : job[t].at \in {"add", "rate"} /\ ~job[t].rec.old
                         => job[t].rec.rating = rated[job[t].path]
  /\ \A f \in Path : Hit(db[f], f) /\ ~db[f].old => db[f].rating = rated[f] \/ BeingRated(f)
  /\ job["server"].at \in {"removed", "unrate"} => disk[job["server"].path] = Absent

CacheInv == TypeOK /\ RecordsTrue /\ RatingsHeld

-----------------------------------------------------------------------------
(* Parts of the state                                                      *)

LEMMA Constants ==
  /\ N \in Nat \ {0} /\ MaxTags \in Nat /\ MaxCalls \in Nat
  /\ Cardinality(Path) \in Nat /\ Cardinality(Path) <= MaxTags
BY TagsAssumption, FS_CardinalityType

LEMMA FilesAre ==
  /\ Absent \in File
  /\ \A n \in 1..MaxTags : Version(n) \in File /\ Version(n) # Absent /\ Version(n).tags = n
                            /\ Version(n).mtime = Second[n] /\ Second[n] \in Nat
  /\ \A d \in File : /\ d.mtime \in {-1} \cup Nat /\ d.tags \in 0..MaxTags
                     /\ d # Absent => d.tags \in 1..MaxTags /\ d.mtime = Second[d.tags]
                                      /\ d.mtime # -1
<1>1. MaxTags \in Nat /\ \A n \in 1..MaxTags : Second[n] \in Nat
  BY Constants, ClockAssumption
<1>2. \A n \in 1..MaxTags : Version(n).mtime = Second[n] /\ Version(n).tags = n
  BY DEF Version
<1>3. Absent.mtime = -1 /\ Absent.tags = 0
  BY DEF Absent
<1>4. ASSUME NEW d \in File
      PROVE  /\ d.mtime \in {-1} \cup Nat /\ d.tags \in 0..MaxTags
             /\ d # Absent => d.tags \in 1..MaxTags /\ d.mtime = Second[d.tags] /\ d.mtime # -1
  <2>1. CASE d = Absent
    BY <1>1, <1>3, <2>1
  <2>2. CASE d # Absent
    <3>1. PICK n \in 1..MaxTags : d = Version(n)
      BY <2>2 DEF File
    <3>2. d.mtime = Second[n] /\ d.tags = n
      BY <1>2, <3>1
    <3> QED BY <1>1, <3>2
  <2> QED BY <2>1, <2>2
<1>5. \A n \in 1..MaxTags : Version(n) # Absent /\ Version(n) \in File
  <2>1. \A n \in 1..MaxTags : Version(n).tags # Absent.tags
    BY <1>1, <1>2, <1>3
  <2> QED BY <2>1 DEF File
<1> QED BY <1>1, <1>2, <1>4, <1>5 DEF File

LEMMA JobsAre ==
  /\ NoRecord \in Record /\ Idle \in Job /\ Turn \in Job
  /\ Idle.at = "idle" /\ Turn.at = "turn" /\ Idle.rec = NoRecord /\ Turn.rec = NoRecord
  /\ NoRecord.mtime = -1
<1>1. MaxTags \in Nat
  BY Constants
<1>2. NoRecord \in Record
  BY <1>1 DEF NoRecord, Record
<1>3. Idle \in Job /\ Idle.at = "idle" /\ Idle.rec = NoRecord
  BY <1>2 DEF Idle, Job, ServerPlaces
<1>4. Turn \in Job /\ Turn.at = "turn" /\ Turn.rec = NoRecord
  BY <1>3 DEF Turn, Job, ReaderPlaces
<1> QED BY <1>2, <1>3, <1>4 DEF NoRecord

(* Versions are numbered: there is a newest one, and no file, record or    *)
(* thread has a newer one.                                                 *)
LEMMA NewestIs ==
  ASSUME TypeOK
  PROVE  /\ Newest \in 0..MaxTags
         /\ \A f \in Path : disk[f].tags <= Newest /\ db[f].tags <= Newest
<1> DEFINE R == {disk[f] : f \in Path} \cup {db[f] : f \in Path} \cup {job[t].rec : t \in Thread}
           T == {r.tags : r \in R}
           P(n) == /\ \A f \in Path : disk[f].tags <= n /\ db[f].tags <= n
                   /\ \A t \in Thread : job[t].rec.tags <= n
                   /\ \E r \in R : r.tags = n
<1>1. /\ \A f \in Path : disk[f].tags \in 0..MaxTags /\ db[f].tags \in 0..MaxTags
      /\ \A t \in Thread : job[t].rec.tags \in 0..MaxTags
  <2>1. \A f \in Path : disk[f] \in File /\ db[f] \in Record
    BY DEF TypeOK
  <2>2. \A t \in Thread : job[t] \in Job
    BY DEF TypeOK
  <2>3. \A t \in Thread : job[t].rec \in Record
    BY <2>2 DEF Job
  <2>4. \A r \in Record : r.tags \in 0..MaxTags
    BY DEF Record
  <2>5. \A d \in File : d.tags \in 0..MaxTags
    BY FilesAre
  <2> QED BY Zenon, <2>1, <2>3, <2>4, <2>5
<1>2. T \subseteq 0..MaxTags /\ T # {}
  <2>1. job["server"].rec \in R
    BY DEF Thread
  <2>2. job["server"].rec.tags \in T
    BY <2>1
  <2>3. \A r \in R : r.tags \in 0..MaxTags
    BY <1>1
  <2> QED BY <2>2, <2>3
<1>3. PICK n \in T : \A y \in T : y <= n
  BY <1>2, Constants, GreatestOfNat
<1>4. P(n)
  <2>1. \A r \in R : r.tags <= n
    BY <1>3
  <2>2. \A f \in Path : disk[f] \in R /\ db[f] \in R
    OBVIOUS
  <2>3. \A t \in Thread : job[t].rec \in R
    OBVIOUS
  <2>4. \E r \in R : r.tags = n
    BY <1>3
  <2> HIDE DEF R
  <2> QED BY <2>1, <2>2, <2>3, <2>4
<1>5. Newest = CHOOSE k \in 0..MaxTags : P(k)
  BY DEF Newest
<1>6. Newest \in 0..MaxTags /\ P(Newest)
  <2> HIDE DEF P
  <2>1. \E k \in 0..MaxTags : P(k)
    BY <1>2, <1>3, <1>4
  <2> QED BY <1>5, <2>1
<1> QED BY <1>6

LEMMA ChangedIs ==
  ASSUME TypeOK, NEW f \in Path, Newest < MaxTags
  PROVE  /\ Changed(f) \in [Path -> File]
         /\ \A g \in Path : g # f => Changed(f)[g] = disk[g]
         /\ Changed(f)[f] # Absent
         /\ disk[f].tags \in Nat /\ Changed(f)[f].tags \in Nat
         /\ disk[f].tags <= Changed(f)[f].tags
<1> DEFINE n == Newest + 1  d == Version(n)
<1>1. n \in 1..MaxTags /\ disk[f].tags \in Nat /\ disk[f].tags <= n
  <2>1. disk[f] \in File
    BY DEF TypeOK
  <2>2. disk[f].tags \in Nat
    BY <2>1, FilesAre, Constants
  <2> QED BY <2>2, NewestIs, Constants
<1>2. d \in File /\ d.tags = n /\ d # Absent
  BY <1>1, FilesAre
<1>3. disk \in [Path -> File] /\ Changed(f) = [disk EXCEPT ![f] = d]
  BY DEF TypeOK, Changed
<1> HIDE DEF n, d
<1>4. Changed(f)[f] = d /\ \A g \in Path : g # f => Changed(f)[g] = disk[g]
  BY <1>3
<1> QED BY <1>1, <1>2, <1>3, <1>4

-----------------------------------------------------------------------------
(* Types                                                                   *)

JobTypes(j) ==
  /\ j \in [Thread -> Job]
  /\ j["server"].at \in ServerPlaces /\ j["reader"].at \in ReaderPlaces
  /\ \A t \in Thread : j[t].at \notin {"idle", "turn", "asleep"} => j[t].path \in Path

(* One thread gets a job.                                                  *)
LEMMA JobTyped ==
  ASSUME TypeOK, NEW t \in Thread, NEW r \in Job,
         t = "server" => r.at \in ServerPlaces, t = "reader" => r.at \in ReaderPlaces,
         r.at \notin {"idle", "turn", "asleep"} => r.path \in Path
  PROVE  JobTypes([job EXCEPT ![t] = r])
<1>1. job \in [Thread -> Job] /\ "server" \in Thread /\ "reader" \in Thread
  BY DEF TypeOK, Thread
<1>2. [job EXCEPT ![t] = r] \in [Thread -> Job]
  BY <1>1
<1>3. \A u \in Thread : [job EXCEPT ![t] = r][u] = IF u = t THEN r ELSE job[u]
  BY <1>1
<1> QED BY <1>1, <1>2, <1>3 DEF TypeOK, JobTypes

LEMMA FinishedTyped ==
  ASSUME TypeOK, NEW t \in Thread
  PROVE  JobTypes(Finished(t))
<1>1. CASE t = "reader"
  <2>1. JobTypes([job EXCEPT ![t] = Turn])
    BY <1>1, JobsAre, JobTyped DEF ReaderPlaces
  <2> QED BY <1>1, <2>1 DEF Finished
<1>2. CASE t = "server"
  <2>1. JobTypes([job EXCEPT ![t] = Idle])
    BY <1>2, JobsAre, JobTyped DEF ServerPlaces
  <2> QED BY <1>2, <2>1 DEF Finished
<1> QED BY <1>1, <1>2 DEF Thread

LEMMA StartingTyped ==
  ASSUME TypeOK, NEW at \in ServerPlaces, NEW f \in Path, NEW to \in Path \cup {None}
  PROVE  JobTypes(Starting(at, f, to))
<1> DEFINE r == [Idle EXCEPT !.at = at, !.path = f, !.to = to]
<1>1. r \in Job /\ r.at = at /\ r.path = f
  BY JobsAre DEF Job
<1> HIDE DEF r
<1>2. JobTypes([job EXCEPT !["server"] = r])
  BY <1>1, JobTyped DEF Thread
<1> QED BY <1>2 DEF Starting, r

LEMMA OvertakenTyped ==
  ASSUME NEW j, JobTypes(j), NEW S
  PROVE  JobTypes(Overtaken(S, j))
<1> DEFINE r == [j["reader"] EXCEPT !.rec.old = TRUE]  k == [j EXCEPT !["reader"] = r]
<1>1. j["reader"] \in Job /\ j["reader"].rec \in Record
  BY DEF JobTypes, Job, Thread
<1>2. [j["reader"].rec EXCEPT !.old = TRUE] \in Record
  BY <1>1 DEF Record
<1>3. r \in Job /\ r.at = j["reader"].at /\ r.path = j["reader"].path
  BY <1>1, <1>2 DEF Job
<1> HIDE DEF r
<1>4. k \in [Thread -> Job] /\ \A u \in Thread : k[u] = IF u = "reader" THEN r ELSE j[u]
  BY <1>3 DEF JobTypes
<1>5. JobTypes(k)
  BY <1>3, <1>4 DEF JobTypes, Thread
<1> QED BY <1>5 DEF Overtaken, r

(* The readings of a record, of its time and of its tags.                  *)
LEMMA ReadingTyped ==
  ASSUME TypeOK, NEW t \in Thread,
         ReadRecord(t) \/ ReadTime(t) \/ ReadTags(t) \/ AddRecord(t)
  PROVE  JobTypes(job') /\ db' \in [Path -> Record]
<1> DEFINE f == job[t].path  j == job[t]
<1>1. /\ job \in [Thread -> Job] /\ j \in Job /\ f \in Path /\ j.rec \in Record
      /\ {"get", "stat", "read", "add"} \subseteq ServerPlaces \cap ReaderPlaces
      /\ db \in [Path -> Record] /\ db[f] \in Record /\ rated[f] \in Ratings \cup {0}
  <2>1. job \in [Thread -> Job] /\ j \in Job
    BY DEF TypeOK
  <2>2. j.at \in {"get", "stat", "read", "add"}
    BY DEF ReadRecord, ReadTime, ReadTags, AddRecord, Ready
  <2>3. f \in Path
    BY <2>2 DEF TypeOK
  <2> QED BY <2>1, <2>3 DEF TypeOK, Job, ServerPlaces, ReaderPlaces
<1>2. disk[f] \in File /\ disk[f].mtime \in {-1} \cup Nat /\ disk[f].tags \in 0..MaxTags
  <2>1. disk[f] \in File
    BY <1>1 DEF TypeOK
  <2> QED BY <2>1, FilesAre
<1>3. CASE ReadRecord(t)
  <2> DEFINE r == [j EXCEPT !.at = "stat", !.rec = db[f]]
  <2>1. r \in Job /\ r.at = "stat" /\ r.path = f
    BY <1>1 DEF Job
  <2>2. job' = [job EXCEPT ![t] = r] /\ db' = db
    BY <1>3 DEF ReadRecord
  <2> HIDE DEF r
  <2> QED BY <1>1, <2>1, <2>2, JobTyped
<1>4. CASE ReadTime(t)
  <2> DEFINE q == [j.rec EXCEPT !.mtime = disk[f].mtime]
             r == [j EXCEPT !.at = "read", !.rec = q]
  <2>1. q \in Record
    BY <1>1, <1>2 DEF Record
  <2>2. r \in Job /\ r.at = "read" /\ r.path = f
    BY <1>1, <2>1 DEF Job
  <2>3. db' = db /\ job' \in {Finished(t), [job EXCEPT ![t] = r]}
    BY <1>4 DEF ReadTime
  <2> HIDE DEF r
  <2>4. JobTypes([job EXCEPT ![t] = r])
    BY <1>1, <2>2, JobTyped
  <2> QED BY <1>1, <2>3, <2>4, FinishedTyped
<1>5. CASE ReadTags(t)
  <2>0. PICK v \in Ratings \cup {0} : db' = db /\
          job' = [job EXCEPT ![t].at = "add",
            ![t].rec = [j.rec EXCEPT !.rating = v, !.old = disk[f].mtime # j.rec.mtime \/ v # rated[f],
                                     !.tags = IF disk[f] = Absent THEN @ ELSE disk[f].tags]]
    BY <1>1, <1>5 DEF ReadTags, RatingsRead
  <2> DEFINE o == disk[f].mtime # j.rec.mtime \/ v # rated[f]
             g == IF disk[f] = Absent THEN j.rec.tags ELSE disk[f].tags
             q == [j.rec EXCEPT !.rating = v, !.old = o, !.tags = g]
             r == [j EXCEPT !.at = "add", !.rec = q]
  <2>1. o \in BOOLEAN /\ g \in 0..MaxTags
    BY <1>1, <1>2 DEF Record
  <2>2. db' = db /\ job' = [job EXCEPT ![t] = r]
    BY <2>0
  <2> HIDE DEF o, g
  <2>3. q \in Record
    BY <1>1, <2>1 DEF Record
  <2>4. r \in Job /\ r.at = "add" /\ r.path = f
    BY <1>1, <2>3 DEF Job
  <2> HIDE DEF r
  <2> QED BY <1>1, <2>2, <2>4, JobTyped
<1>6. CASE AddRecord(t)
  <2>1. job' = Finished(t) /\ db' = [db EXCEPT ![f] = j.rec]
    BY <1>6 DEF AddRecord, Timed
  <2> QED BY <1>1, <2>1, FinishedTyped
<1> QED BY <1>3, <1>4, <1>5, <1>6

-----------------------------------------------------------------------------
(* Turns                                                                   *)

LEMMA Wraps ==
  ASSUME NEW a \in Nat, a < 2 * N
  PROVE  a % N \in Client /\ a % N = IF a < N THEN a ELSE a - N
<1>1. N \in Nat \ {0}
  BY Constants
<1>2. CASE a < N
  <2>1. a % N = a
    BY <1>1, <1>2, SMT
  <2> QED BY <2>1, <1>1, <1>2 DEF Client
<1>3. CASE N <= a
  <2>1. a % N = a - N
    BY <1>1, <1>3, SMT
  <2> QED BY <2>1, <1>1, <1>3 DEF Client
<1> QED BY <1>1, <1>2, <1>3

(* The client after the last one by k turns.                               *)
LEMMA AfterLast ==
  ASSUME TypeOK, NEW k \in Turns
  PROVE  /\ (last + k) % N \in Client
         /\ (last + k) % N = last <=> k = N
<1>1. N \in Nat \ {0} /\ last \in 0..N - 1 /\ k \in 1..N
  BY Constants DEF TypeOK, Turns, Client
<1> DEFINE a == last + k
<1>2. a \in Nat /\ a < 2 * N
  BY <1>1
<1> HIDE DEF a
<1>3. a % N \in Client /\ a % N = IF a < N THEN a ELSE a - N
  BY <1>2, Wraps
<1> USE DEF a
<1>4. a % N = last <=> k = N
  <2>1. a < N => a # last /\ k # N
    BY <1>1
  <2>2. ~(a < N) => (a - N = last <=> k = N)
    BY <1>1
  <2> QED BY <1>3, <2>1, <2>2
<1> QED BY <1>3, <1>4

(* Every other client is before the last one by some turns.                *)
LEMMA EveryTurn ==
  ASSUME TypeOK, NEW c \in Client, c # last
  PROVE  \E k \in 1..N - 1 : (last + k) % N = c
<1>1. N \in Nat \ {0} /\ last \in 0..N - 1 /\ c \in 0..N - 1
  BY Constants DEF TypeOK, Client
<1> DEFINE k == IF last < c THEN c - last ELSE c - last + N
<1>2. k \in 1..N - 1 /\ last + k \in Nat /\ last + k < 2 * N
  BY <1>1
<1>3. (last + k) % N = IF last + k < N THEN last + k ELSE (last + k) - N
  <2> HIDE DEF k
  <2> QED BY <1>2, Wraps
<1>4. c = IF last + k < N THEN last + k ELSE (last + k) - N
  BY <1>1
<1> HIDE DEF k
<1> QED BY <1>2, <1>3, <1>4

LEMMA TurnIs ==
  ASSUME TypeOK, Waiting # {}
  PROVE  /\ InTurn(Waiting) \in Client /\ queues[InTurn(Waiting)] # <<>>
         /\ InTurn(Waiting) = last => \A c \in Client \ {last} : queues[c] = <<>>
<1> DEFINE k == FirstOf(Waiting)
<1>1. N \in Nat \ {0} /\ Waiting \subseteq 1..N
  BY Constants DEF Waiting, Turns
<1>2. k \in Waiting /\ \A j \in Waiting : k <= j
  <2>1. Waiting \subseteq Nat
    BY <1>1
  <2>2. \E n \in Waiting : \A j \in Waiting : n <= j
    BY <2>1, LeastOfNat
  <2> QED BY <2>2 DEF FirstOf
<1>3. k \in Turns /\ queues[(last + k) % N] # <<>> /\ InTurn(Waiting) = (last + k) % N
  BY <1>2 DEF Waiting, InTurn
<1> HIDE DEF k
<1>4. InTurn(Waiting) \in Client /\ (InTurn(Waiting) = last <=> k = N)
  BY <1>3, AfterLast
<1>5. ASSUME k = N, NEW c \in Client, c # last
      PROVE  queues[c] = <<>>
  <2>1. PICK j \in 1..N - 1 : (last + j) % N = c
    BY <1>5, EveryTurn
  <2>2. j \in Turns /\ j \notin Waiting
    BY <1>1, <1>2, <1>5, <2>1 DEF Turns
  <2> QED BY <2>1, <2>2 DEF Waiting
<1> QED BY <1>3, <1>4, <1>5

-----------------------------------------------------------------------------
(* Types, of every step                                                    *)

Request == [path : Path, write : BOOLEAN]

LEMMA TypesAre ==
  ASSUME disk \in [Path -> File], rated \in [Path -> Ratings \cup {0}],
         db \in [Path -> Record], queues \in [Client -> Seq(Request)], last \in Client,
         JobTypes(job), open \in BOOLEAN, calls \in 0..MaxCalls
  PROVE  TypeOK
BY DEF TypeOK, JobTypes, Request

LEMMA InitTypes == Init => TypeOK
<1> SUFFICES ASSUME Init PROVE TypeOK
  OBVIOUS
<1>1. N \in Nat \ {0} /\ MaxTags \in Nat /\ MaxCalls \in Nat
      /\ Cardinality(Path) \in Nat /\ Cardinality(Path) <= MaxTags
  BY Constants
<1>2. disk \in [Path -> File]
  <2> DEFINE S == {Absent} \cup {Version(n) : n \in 1..Cardinality(Path)}
  <2>1. S \subseteq File
    <3>1. \A n \in 1..Cardinality(Path) : n \in 1..MaxTags
      BY <1>1
    <3> QED BY <3>1, FilesAre
  <2> QED BY <2>1 DEF Init
<1>3. rated \in [Path -> Ratings \cup {0}] /\ db \in [Path -> Record]
  BY JobsAre DEF Init
<1>4. queues \in [Client -> Seq(Request)]
  BY DEF Init
<1>5. last \in Client /\ open \in BOOLEAN /\ calls \in 0..MaxCalls
  BY <1>1 DEF Init, Client
<1>6. JobTypes(job)
  <2>1. job \in [Thread -> Job] /\ job["server"] = Idle /\ job["reader"] = Turn
    BY JobsAre DEF Init, Thread
  <2>2. Idle.at = "idle" /\ Turn.at = "turn"
    BY JobsAre
  <2>3. \A t \in Thread : job[t].at \in {"idle", "turn"}
    BY <2>1, <2>2 DEF Thread
  <2> QED BY <2>1, <2>2, <2>3 DEF JobTypes, ServerPlaces, ReaderPlaces
<1> QED BY <1>2, <1>3, <1>4, <1>5, <1>6, TypesAre

LEMMA TypesNow ==
  ASSUME TypeOK
  PROVE  /\ disk \in [Path -> File] /\ rated \in [Path -> Ratings \cup {0}]
         /\ db \in [Path -> Record] /\ queues \in [Client -> Seq(Request)] /\ last \in Client
         /\ JobTypes(job) /\ open \in BOOLEAN /\ calls \in 0..MaxCalls
BY DEF TypeOK, JobTypes, Request

LEMMA TakeTypes ==
  ASSUME TypeOK, TakeRequest
  PROVE  /\ queues' \in [Client -> Seq(Request)] /\ last' \in Client /\ JobTypes(job')
<1> DEFINE c == InTurn(Waiting)  rq == Head(queues[c])
<1>1. CASE Waiting = {}
  <2> DEFINE r == [job["reader"] EXCEPT !.at = "asleep"]
  <2>1. job["reader"] \in Job
    BY DEF TypeOK, Thread
  <2>2. r \in Job /\ r.at = "asleep"
    BY <2>1 DEF Job, ReaderPlaces
  <2>3. job' = [job EXCEPT !["reader"] = r] /\ queues' = queues /\ last' = last
    BY <1>1 DEF TakeRequest, Goes
  <2> HIDE DEF r
  <2>4. JobTypes(job')
    BY <2>2, <2>3, JobTyped DEF Thread, ReaderPlaces
  <2> QED BY <2>3, <2>4, TypesNow
<1>2. CASE Waiting # {}
  <2> DEFINE r == [Idle EXCEPT !.path = rq.path, !.client = c,
                               !.at = IF rq.write THEN "write" ELSE "get"]
  <2>1. c \in Client /\ queues[c] # <<>>
    BY <1>2, TurnIs
  <2>2. queues' = [queues EXCEPT ![c] = Tail(@)] /\ last' = c
        /\ job' = [job EXCEPT !["reader"] = r]
    BY <1>2 DEF TakeRequest
  <2> HIDE DEF c
  <2>3. queues[c] \in Seq(Request)
    BY <2>1, TypesNow
  <2>4. rq \in Request /\ Tail(queues[c]) \in Seq(Request)
    BY <2>1, <2>3, HeadTailProperties
  <2>5. rq.path \in Path /\ rq.write \in BOOLEAN
    BY <2>4 DEF Request
  <2> HIDE DEF rq
  <2>6. r \in Job /\ r.at \in {"write", "get"} /\ r.path = rq.path
    BY <2>1, <2>5, JobsAre DEF Job, ReaderPlaces
  <2> HIDE DEF r
  <2>7. JobTypes(job')
    BY <2>2, <2>5, <2>6, JobTyped DEF Thread, ReaderPlaces
  <2>8. queues' \in [Client -> Seq(Request)]
    BY <2>1, <2>2, <2>4, TypesNow
  <2> QED BY <2>1, <2>2, <2>7, <2>8
<1> QED BY <1>1, <1>2

LEMMA ServerTypes ==
  ASSUME TypeOK, RatingChanged \/ PutRating \/ RemoveRecord \/ RemoveRating \/ PlaceRating
  PROVE  JobTypes(job') /\ db' \in [Path -> Record] /\ rated' \in [Path -> Ratings \cup {0}]
<1> DEFINE j == job["server"]  f == j.path  g == j.to
<1>1. /\ job \in [Thread -> Job] /\ j \in Job /\ j.rec \in Record /\ f \in Path
      /\ "server" \in Thread /\ db \in [Path -> Record] /\ rated \in [Path -> Ratings \cup {0}]
  <2>1. j.at \in {"rated", "rate", "removed", "unrate", "place"}
    BY DEF RatingChanged, PutRating, RemoveRecord, RemoveRating, PlaceRating, Ready
  <2>2. job \in [Thread -> Job] /\ j \in Job /\ "server" \in Thread
    BY DEF TypeOK, Thread
  <2>3. f \in Path
    BY <2>1, <2>2 DEF TypeOK
  <2> QED BY <2>2, <2>3 DEF TypeOK, Job
<1>2. JobTypes(Finished("server"))
  BY <1>1, FinishedTyped
<1>3. CASE RatingChanged
  <2> DEFINE q == [db[f] EXCEPT !.rating = rated[f]]
             r == [j EXCEPT !.at = "rate", !.rec = q]
  <2>1. q \in Record
    BY <1>1 DEF Record
  <2>2. r \in Job /\ r.at = "rate" /\ r.path = f
    BY <1>1, <2>1 DEF Job, ServerPlaces
  <2>3. db' = db /\ rated' = rated
        /\ job' \in {Finished("server"), [job EXCEPT !["server"] = r]}
    BY <1>3 DEF RatingChanged
  <2> HIDE DEF r
  <2>4. JobTypes([job EXCEPT !["server"] = r])
    BY <1>1, <2>2, JobTyped DEF ServerPlaces
  <2> QED BY <1>1, <1>2, <2>3, <2>4
<1>4. CASE PutRating
  <2>1. db' = [db EXCEPT ![f] = j.rec] /\ rated' = rated /\ job' = Finished("server")
    BY <1>4 DEF PutRating
  <2> QED BY <1>1, <1>2, <2>1
<1>5. CASE RemoveRecord
  <2> DEFINE r == [j EXCEPT !.at = "unrate"]
  <2>1. r \in Job /\ r.at = "unrate" /\ r.path = f
    BY <1>1 DEF Job, ServerPlaces
  <2>2. db' = [db EXCEPT ![f] = NoRecord] /\ rated' = rated /\ job' = [job EXCEPT !["server"] = r]
    BY <1>5 DEF RemoveRecord, RecordGone, Goes
  <2> HIDE DEF r
  <2>3. JobTypes(job')
    BY <1>1, <2>1, <2>2, JobTyped DEF ServerPlaces
  <2> QED BY <1>1, <2>2, <2>3, JobsAre
<1>6. CASE RemoveRating \/ PlaceRating
  <2>1. JobTypes(job') /\ rated' \in [Path -> Ratings \cup {0}] /\ db' = Overwritten(g)
    <3>1. CASE RemoveRating
      <4> DEFINE q == [j.rec EXCEPT !.rating = rated[f]]  r == [j EXCEPT !.at = "place", !.rec = q]
      <4>1. q \in Record
        BY <1>1 DEF Record
      <4>2. r \in Job /\ r.at = "place" /\ r.path = f
        BY <1>1, <4>1 DEF Job, ServerPlaces
      <4>3. \/ job' = Overtaken({f, g}, [job EXCEPT !["server"] = r])
            \/ job' = Overtaken({f, g}, Finished("server"))
        BY <3>1 DEF RemoveRating
      <4> HIDE DEF r
      <4>4. JobTypes([job EXCEPT !["server"] = r])
        BY <1>1, <4>2, JobTyped DEF ServerPlaces
      <4> QED BY <1>1, <1>2, <3>1, <4>3, <4>4, OvertakenTyped DEF RemoveRating
    <3>2. CASE PlaceRating
      <4>1. j.rec.rating \in Ratings \cup {0}
        BY <1>1 DEF Record
      <4> QED BY <1>1, <1>2, <3>2, <4>1, OvertakenTyped DEF PlaceRating
    <3> QED BY <1>6, <3>1, <3>2
  <2>2. ASSUME NEW h \in Path
        PROVE  [db[h] EXCEPT !.old = TRUE] \in Record /\ db[h] \in Record
    BY <1>1 DEF Record
  <2>3. db' = [h \in Path |-> IF h = g THEN [db[h] EXCEPT !.old = TRUE] ELSE db[h]]
    BY <2>1 DEF Overwritten
  <2> QED BY <2>1, <2>2, <2>3
<1> QED BY <1>3, <1>4, <1>5, <1>6

LEMMA WriteTypes ==
  ASSUME TypeOK, WriteTags
  PROVE  JobTypes(job') /\ disk' \in [Path -> File]
<1> DEFINE j == job["reader"]  f == j.path  r == [j EXCEPT !.at = "get"]
<1>1. j \in Job /\ f \in Path /\ "reader" \in Thread
  <2>1. j \in Job /\ "reader" \in Thread /\ j.at = "write"
    BY DEF TypeOK, Thread, WriteTags, Ready
  <2> QED BY <2>1 DEF TypeOK
<1>2. r \in Job /\ r.at = "get" /\ r.path = f
  BY <1>1 DEF Job, ReaderPlaces
<1>3. \/ Newest < MaxTags /\ disk' = Changed(f) /\ job' = [job EXCEPT !["reader"] = r]
      \/ disk' = disk /\ job' = Finished("reader")
  BY DEF WriteTags, Goes
<1> HIDE DEF r
<1>4. JobTypes([job EXCEPT !["reader"] = r])
  BY <1>1, <1>2, JobTyped DEF ReaderPlaces
<1>5. Newest < MaxTags => Changed(f) \in [Path -> File]
  BY <1>1, ChangedIs
<1> QED BY <1>1, <1>3, <1>4, <1>5, FinishedTyped, TypesNow

(* The calls of the server's thread.                                       *)
LEMMA CallTypes ==
  ASSUME TypeOK, NEW f \in Path,
         \/ \E c \in Client, w \in BOOLEAN : AddRequest(c, f, w)
         \/ GetImmediate(f) \/ RemoveFile(f)
         \/ \E r \in Ratings \cup {0} : Rate(f, r)
         \/ \E g \in Path \ {f}, one \in BOOLEAN : MoveFile(f, g, one)
  PROVE  /\ JobTypes(job') /\ calls' \in 0..MaxCalls /\ disk' \in [Path -> File]
         /\ rated' \in [Path -> Ratings \cup {0}] /\ queues' \in [Client -> Seq(Request)]
         /\ db' \in [Path -> Record]
<1> USE TypesNow
<1>1. calls' \in 0..MaxCalls
  <2>1. calls \in 0..MaxCalls /\ calls < MaxCalls /\ calls' = calls + 1
    BY DEF AddRequest, GetImmediate, RemoveFile, Rate, MoveFile, Called
  <2> QED BY <2>1, Constants
<1>2. \A at \in {"get", "rated", "removed", "unrate"}, to \in Path \cup {None} :
        JobTypes(Starting(at, f, to))
  <2>1. ASSUME NEW at \in {"get", "rated", "removed", "unrate"}, NEW to \in Path \cup {None}
        PROVE  JobTypes(Starting(at, f, to))
    <3>1. at \in ServerPlaces
      BY DEF ServerPlaces
    <3> QED BY <3>1, StartingTyped
  <2> QED BY <2>1
<1>3. ASSUME NEW c \in Client, NEW w \in BOOLEAN, AddRequest(c, f, w)
      PROVE  /\ JobTypes(job') /\ disk' = disk /\ rated' = rated /\ db' = db
             /\ queues' \in [Client -> Seq(Request)]
  <2> DEFINE q == [path |-> f, write |-> w]  r == [job["reader"] EXCEPT !.at = "turn"]
  <2>1. disk' = disk /\ rated' = rated /\ db' = db
        /\ \/ queues' = queues /\ job' = job
           \/ queues' = [queues EXCEPT ![c] = Append(@, q)] /\ job' = Woken
    BY <1>3 DEF AddRequest
  <2>2. queues[c] \in Seq(Request) /\ q \in Request
    BY DEF Request
  <2> HIDE DEF q
  <2>3. Append(queues[c], q) \in Seq(Request)
    BY <2>2, AppendProperties
  <2>4. job["reader"] \in Job /\ "reader" \in Thread
    BY DEF TypeOK, Thread
  <2>5. r \in Job /\ r.at = "turn"
    BY <2>4 DEF Job, ReaderPlaces
  <2>6. Woken \in {job, [job EXCEPT !["reader"] = r]}
    BY DEF Woken
  <2> HIDE DEF r
  <2>7. JobTypes([job EXCEPT !["reader"] = r])
    BY <2>4, <2>5, JobTyped DEF ReaderPlaces
  <2>8. JobTypes(Woken)
    BY <2>6, <2>7
  <2> QED BY <2>1, <2>3, <2>8
<1>4. CASE GetImmediate(f)
  BY <1>1, <1>2, <1>4 DEF GetImmediate
<1>5. CASE RemoveFile(f)
  <2>1. disk' = [disk EXCEPT ![f] = Absent] /\ rated' = rated /\ db' = db /\ queues' = queues
        /\ job' = Starting("removed", f, None)
    BY <1>5 DEF RemoveFile
  <2> QED BY <1>1, <1>2, <2>1, FilesAre
<1>6. ASSUME NEW r \in Ratings \cup {0}, Rate(f, r)
      PROVE  /\ JobTypes(job') /\ disk' = disk /\ db' = db /\ queues' = queues
             /\ rated' \in [Path -> Ratings \cup {0}]
  <2>1. disk' = disk /\ db' = db /\ queues' = queues /\ rated' = [rated EXCEPT ![f] = r]
        /\ job' = Overtaken({f}, Starting("rated", f, None))
    BY <1>6 DEF Rate
  <2> QED BY <1>2, <2>1, OvertakenTyped
<1>7. ASSUME NEW g \in Path \ {f}, NEW one \in BOOLEAN, MoveFile(f, g, one)
      PROVE  /\ JobTypes(job') /\ disk' \in [Path -> File] /\ queues' = queues /\ rated' = rated
             /\ db' \in [Path -> Record]
  <2>1. /\ disk' = [disk EXCEPT ![f] = Absent, ![g] = disk[f]] /\ queues' = queues /\ rated' = rated
        /\ job' = Starting(IF one THEN "unrate" ELSE "removed", f, g)
        /\ db' = IF one THEN [db EXCEPT ![f].old = TRUE] ELSE db
    BY <1>7 DEF MoveFile
  <2>2. JobTypes(job')
    BY <1>2, <2>1
  <2>3. disk' \in [Path -> File]
    BY <2>1, FilesAre
  <2>4. [db[f] EXCEPT !.old = TRUE] \in Record
    BY DEF Record
  <2> QED BY <2>1, <2>2, <2>3, <2>4
<1> QED BY <1>1, <1>3, <1>4, <1>5, <1>6, <1>7

LEMMA StepTypes == TypeOK /\ [Next]_vars => TypeOK'
<1> SUFFICES ASSUME TypeOK, [Next]_vars PROVE TypeOK'
  OBVIOUS
<1> DEFINE Typed ==
      /\ disk' \in [Path -> File] /\ rated' \in [Path -> Ratings \cup {0}]
      /\ db' \in [Path -> Record] /\ queues' \in [Client -> Seq(Request)] /\ last' \in Client
      /\ JobTypes(job') /\ open' \in BOOLEAN /\ calls' \in 0..MaxCalls
<1>1. Typed
  <2>1. CASE TakeRequest
    BY <2>1, TypesNow, TakeTypes DEF TakeRequest
  <2>2. CASE WriteTags
    BY <2>2, TypesNow, WriteTypes DEF WriteTags
  <2>3. ASSUME NEW t \in Thread, ReadRecord(t) \/ ReadTime(t) \/ ReadTags(t) \/ AddRecord(t)
        PROVE  Typed
    <3>1. UNCHANGED <<disk, rated, queues, last, open, calls>>
      BY <2>3 DEF ReadRecord, ReadTime, ReadTags, AddRecord
    <3> QED BY <2>3, <3>1, TypesNow, ReadingTyped
  <2>4. CASE RatingChanged \/ PutRating \/ RemoveRecord \/ RemoveRating \/ PlaceRating
    <3>1. UNCHANGED <<disk, queues, last, open, calls>>
      BY <2>4 DEF RatingChanged, PutRating, RemoveRecord, RemoveRating, PlaceRating
    <3> QED BY <2>4, <3>1, TypesNow, ServerTypes
  <2>5. ASSUME NEW f \in Path,
               \/ \E c \in Client, w \in BOOLEAN : AddRequest(c, f, w)
               \/ GetImmediate(f) \/ RemoveFile(f)
               \/ \E r \in Ratings \cup {0} : Rate(f, r)
               \/ \E g \in Path \ {f}, one \in BOOLEAN : MoveFile(f, g, one)
        PROVE  Typed
    <3>1. UNCHANGED <<last, open>>
      BY <2>5 DEF AddRequest, GetImmediate, RemoveFile, Rate, MoveFile
    <3> QED BY <2>5, <3>1, TypesNow, CallTypes
  <2>6. ASSUME NEW f \in Path, Touch(f) PROVE Typed
    <3>1. disk' \in [Path -> File]
      BY <2>6, ChangedIs DEF Touch
    <3> QED BY <2>6, <3>1, TypesNow DEF Touch
  <2>7. ASSUME NEW c \in Client, ClearQueue(c) PROVE Typed
    <3>1. calls' \in 0..MaxCalls
      BY <2>7, TypesNow, Constants DEF ClearQueue, Called
    <3>2. <<>> \in Seq(Request)
      OBVIOUS
    <3>3. queues' \in [Client -> Seq(Request)]
      BY <2>7, <3>2, TypesNow DEF ClearQueue
    <3> QED BY <2>7, <3>1, <3>3, TypesNow DEF ClearQueue
  <2>8. CASE Destroy
    <3>1. calls' \in 0..MaxCalls
      BY <2>8, TypesNow, Constants DEF Destroy, Called
    <3> QED BY <2>8, <3>1, TypesNow DEF Destroy
  <2>9. CASE UNCHANGED vars
    BY <2>9, TypesNow DEF vars
  <2>10. "server" \in Thread /\ "reader" \in Thread
    BY DEF Thread
  <2> QED BY <2>1, <2>2, <2>3, <2>4, <2>5, <2>6, <2>7, <2>8, <2>9, <2>10
          DEF Next, ReaderStep, ServerStep
<1> QED BY <1>1, TypesAre DEF TypeOK, JobTypes, Request

-----------------------------------------------------------------------------
(* What becomes of the jobs                                                *)

LEMMA FinishedIs ==
  ASSUME TypeOK, NEW t \in Thread
  PROVE  /\ Finished(t)[t].at \in {"idle", "turn"}
         /\ \A u \in Thread : u # t => Finished(t)[u] = job[u]
<1>1. job \in [Thread -> Job] /\ Idle.at = "idle" /\ Turn.at = "turn"
  BY JobsAre DEF TypeOK
<1> QED BY <1>1 DEF Finished

LEMMA StartingIs ==
  ASSUME TypeOK, NEW at \in ServerPlaces, NEW f \in Path, NEW to \in Path \cup {None}
  PROVE  LET j == Starting(at, f, to)["server"] IN
         /\ j.at = at /\ j.path = f /\ j.to = to
         /\ Starting(at, f, to)["reader"] = job["reader"]
<1> DEFINE r == [Idle EXCEPT !.at = at, !.path = f, !.to = to]
<1>1. r.at = at /\ r.path = f /\ r.to = to
  BY JobsAre DEF Job
<1> HIDE DEF r
<1>2. Starting(at, f, to) = [job EXCEPT !["server"] = r] /\ job \in [Thread -> Job]
  BY DEF Starting, r, TypeOK
<1> QED BY <1>1, <1>2 DEF Thread

LEMMA OvertakenIs ==
  ASSUME NEW j, JobTypes(j), NEW S
  PROVE  LET k == Overtaken(S, j) IN
         /\ k["server"] = j["server"]
         /\ k["reader"].at = j["reader"].at /\ k["reader"].path = j["reader"].path
         /\ \/ k["reader"] = j["reader"] /\ ~(j["reader"].at = "add" /\ j["reader"].path \in S)
            \/ k["reader"].rec.old
<1> DEFINE r == [j["reader"] EXCEPT !.rec.old = TRUE]  k == [j EXCEPT !["reader"] = r]
<1>1. j["reader"] \in Job /\ j["reader"].rec \in Record /\ j \in [Thread -> Job]
  BY DEF JobTypes, Job, Thread
<1>2. r.at = j["reader"].at /\ r.path = j["reader"].path /\ r.rec.old
  BY <1>1 DEF Job, Record
<1> HIDE DEF r
<1>3. k["server"] = j["server"] /\ k["reader"] = r
  BY <1>1 DEF Thread
<1>4. Overtaken(S, j) = IF j["reader"].at = "add" /\ j["reader"].path \in S THEN k ELSE j
  BY DEF Overtaken, r
<1> HIDE DEF k
<1> QED BY <1>2, <1>3, <1>4

(* The rating of one file is taken out, or put in, and what it overtakes in *)
(* the database and in the reader's hands is marked.                       *)
LEMMA RatingMovedIs ==
  ASSUME TypeOK, RemoveRating \/ PlaceRating,
         NEW S, S = {job["server"].to} \cup (IF job["server"].at = "unrate"
                                            THEN {job["server"].path} ELSE {})
  PROVE  /\ job["server"].at \in {"unrate", "place"} /\ disk' = disk
         /\ \A h \in Path : h = job["server"].to => db'[h].old
         /\ \A h \in Path : h # job["server"].to => db'[h] = db[h]
         /\ \A h \in Path : h \notin S => rated'[h] = rated[h]
         /\ \/ job'["server"].at \in {"idle", "turn"}
            \/ job'["server"].at = "place" /\ job'["server"].to = job["server"].to
         /\ job'["reader"].at = job["reader"].at /\ job'["reader"].path = job["reader"].path
         /\ \/ job'["reader"] = job["reader"] /\ ~(job["reader"].at = "add" /\ job["reader"].path \in S)
            \/ job'["reader"].rec.old
<1> DEFINE j == job["server"]  f == j.path  g == j.to
<1>1. /\ job \in [Thread -> Job] /\ j \in Job /\ j.rec \in Record /\ "server" \in Thread
      /\ "reader" \in Thread /\ db \in [Path -> Record] /\ rated \in [Path -> Ratings \cup {0}]
      /\ disk' = disk /\ db' = Overwritten(g) /\ j.at \in {"unrate", "place"} /\ f \in Path
  <2>1. j.at \in {"unrate", "place"} /\ disk' = disk /\ db' = Overwritten(g)
    BY DEF RemoveRating, PlaceRating, Ready
  <2>2. job \in [Thread -> Job] /\ j \in Job /\ "server" \in Thread /\ "reader" \in Thread
    BY DEF TypeOK, Thread
  <2> QED BY <2>1, <2>2 DEF TypeOK, Job
<1>2. /\ \A h \in Path : h = g => db'[h].old
      /\ \A h \in Path : h # g => db'[h] = db[h]
  <2>1. \A h \in Path : [db[h] EXCEPT !.old = TRUE].old
    BY <1>1 DEF Record
  <2> QED BY <1>1, <2>1 DEF Overwritten
<1> DEFINE r == [j EXCEPT !.at = "place", !.rec.rating = rated[f]]
           k == [job EXCEPT !["server"] = r]
<1>3. /\ Finished("server")["server"].at \in {"idle", "turn"}
      /\ Finished("server")["reader"] = job["reader"] /\ JobTypes(Finished("server"))
  BY <1>1, FinishedIs, FinishedTyped
<1>4. k["server"].at = "place" /\ k["server"].to = g /\ k["reader"] = job["reader"] /\ JobTypes(k)
  <2>1. [j.rec EXCEPT !.rating = rated[f]] \in Record
    BY <1>1 DEF Record
  <2>2. r \in Job /\ r.at = "place" /\ r.to = g /\ r.path = f
    BY <1>1, <2>1 DEF Job, ServerPlaces
  <2> HIDE DEF r
  <2>3. JobTypes(k)
    BY <1>1, <2>2, JobTyped DEF ServerPlaces
  <2> QED BY <1>1, <2>2, <2>3
<1>5. /\ \A h \in Path : h \notin S => rated'[h] = rated[h]
      /\ job' \in {Overtaken(S, k), Overtaken(S, Finished("server"))}
  <2>1. CASE RemoveRating
    <3>1. S = {f, g} /\ rated' = [rated EXCEPT ![f] = 0]
      BY <2>1 DEF RemoveRating, Ready
    <3>2. job' \in {Overtaken({f, g}, k), Overtaken({f, g}, Finished("server"))}
      BY <2>1 DEF RemoveRating
    <3> QED BY <1>1, <3>1, <3>2
  <2>2. CASE PlaceRating
    <3>1. S = {g} /\ rated' = [rated EXCEPT ![g] = j.rec.rating]
          /\ job' = Overtaken({g}, Finished("server"))
      BY <2>2 DEF PlaceRating, Ready
    <3> QED BY <1>1, <3>1
  <2> QED BY <2>1, <2>2
<1> HIDE DEF k
<1>6. PICK o : o \in {k, Finished("server")} /\ job' = Overtaken(S, o)
  BY <1>5
<1>7. /\ Overtaken(S, o)["server"] = o["server"]
      /\ Overtaken(S, o)["reader"].at = o["reader"].at /\ Overtaken(S, o)["reader"].path = o["reader"].path
      /\ \/ Overtaken(S, o)["reader"] = o["reader"] /\ ~(o["reader"].at = "add" /\ o["reader"].path \in S)
         \/ Overtaken(S, o)["reader"].rec.old
  <2>1. JobTypes(o)
    BY <1>3, <1>4, <1>6
  <2> QED BY <2>1, OvertakenIs
<1> QED BY <1>1, <1>2, <1>3, <1>4, <1>5, <1>6, <1>7

-----------------------------------------------------------------------------
(* Every record is marked as old, or was written when it says              *)

LEMMA InitRecords == Init => RecordsTrue
<1> SUFFICES ASSUME Init PROVE RecordsTrue
  OBVIOUS
<1>1. \A f \in Path : db[f] = NoRecord
  BY DEF Init
<1>2. \A t \in Thread : job[t].at \in {"idle", "turn"}
  BY JobsAre DEF Init
<1> QED BY <1>1, <1>2, JobsAre DEF RecordsTrue, RecordTrue, Reached

LEMMA ReadingRecords ==
  ASSUME TypeOK, RecordsTrue, NEW t \in Thread,
         ReadRecord(t) \/ ReadTime(t) \/ ReadTags(t) \/ AddRecord(t)
  PROVE  RecordsTrue'
<1> DEFINE f == job[t].path  j == job[t]
<1>1. job \in [Thread -> Job] /\ j \in Job /\ f \in Path /\ j.rec \in Record /\ db \in [Path -> Record]
  <2>1. j.at \in {"get", "stat", "read", "add"}
    BY DEF ReadRecord, ReadTime, ReadTags, AddRecord, Ready
  <2>2. job \in [Thread -> Job] /\ j \in Job
    BY DEF TypeOK
  <2> QED BY <2>1, <2>2 DEF TypeOK, Job
<1>2. /\ \A u \in Thread : u # t => job'[u] = job[u]
      /\ \/ db' = db /\ job'[t].at \in {"stat", "read", "idle", "turn"}
         \/ /\ db' = db /\ job'[t].at = "add" /\ job'[t].path = f
            /\ RecordTrue(job'[t].rec) /\ Reached(job'[t].rec, disk[f])
         \/ db' = [db EXCEPT ![f] = j.rec] /\ j.at = "add" /\ job'[t].at \in {"idle", "turn"}
  <2>1. CASE ReadRecord(t)
    <3>1. db' = db /\ job' = [job EXCEPT ![t].at = "stat", ![t].rec = db[f]]
      BY <2>1 DEF ReadRecord
    <3> QED BY <1>1, <3>1 DEF Job
  <2>2. CASE ReadTime(t)
    <3> DEFINE k == [job EXCEPT ![t].at = "read", ![t].rec.mtime = disk[f].mtime]
    <3>1. db' = db /\ job' \in {Finished(t), k}
      BY <2>2 DEF ReadTime
    <3>2. k[t].at = "read" /\ \A u \in Thread : u # t => k[u] = job[u]
      BY <1>1 DEF Job
    <3> HIDE DEF k
    <3>3. CASE job' = k
      BY <3>1, <3>2, <3>3
    <3>4. CASE job' = Finished(t)
      BY <3>1, <3>4, FinishedIs
    <3> QED BY <3>1, <3>3, <3>4
  <2>3. CASE ReadTags(t)
    <3>0. PICK v \in RatingsRead(f) : db' = db /\
            job' = [job EXCEPT ![t].at = "add",
              ![t].rec = [j.rec EXCEPT !.rating = v, !.old = disk[f].mtime # j.rec.mtime \/ v # rated[f],
                                       !.tags = IF disk[f] = Absent THEN @ ELSE disk[f].tags]]
      BY <2>3 DEF ReadTags
    <3> DEFINE o == disk[f].mtime # j.rec.mtime \/ v # rated[f]
               g == IF disk[f] = Absent THEN j.rec.tags ELSE disk[f].tags
               q == [j.rec EXCEPT !.rating = v, !.old = o, !.tags = g]
    <3>1. db' = db /\ job' = [job EXCEPT ![t].at = "add", ![t].rec = q]
      BY <3>0
    <3>2. q.mtime = j.rec.mtime /\ q.old = o /\ q.tags = g
      <4> HIDE DEF o, g
      <4> QED BY <1>1 DEF Record
    <3>3. /\ disk[f] # Absent => disk[f].tags \in 1..MaxTags /\ disk[f].mtime = Second[disk[f].tags]
          /\ disk[f] = Absent => disk[f].mtime = -1
      <4>1. disk[f] \in File
        BY <1>1 DEF TypeOK
      <4>2. Absent.mtime = -1
        BY DEF Absent
      <4> QED BY <4>1, <4>2, FilesAre
    <3>4. RecordTrue(q) /\ Reached(q, disk[f])
      <4>1. ASSUME q.mtime # -1, ~q.old
            PROVE  q.tags \in 1..MaxTags /\ q.mtime = Second[q.tags] /\ q.tags <= disk[f].tags
        <5>1. disk[f].mtime = j.rec.mtime
          BY <3>2, <4>1
        <5>2. disk[f] # Absent
          BY <3>2, <3>3, <4>1, <5>1
        <5>3. q.tags = disk[f].tags /\ q.mtime = disk[f].mtime
          BY <3>2, <5>1, <5>2
        <5> QED BY <3>3, <5>2, <5>3, Constants
      <4> QED BY <4>1 DEF RecordTrue, Reached
    <3> HIDE DEF q
    <3>5. job'[t].rec = q /\ job'[t].at = "add" /\ job'[t].path = f
          /\ \A u \in Thread : u # t => job'[u] = job[u]
      BY <1>1, <3>1 DEF Job
    <3> QED BY <3>1, <3>4, <3>5
  <2>4. CASE AddRecord(t)
    <3>1. db' = [db EXCEPT ![f] = j.rec] /\ j.at = "add" /\ job' = Finished(t)
      BY <2>4 DEF AddRecord, Timed, Ready
    <3> QED BY <3>1, FinishedIs
  <2> QED BY <2>1, <2>2, <2>3, <2>4
<1>3. disk' = disk /\ \A g : IsMoving(job'["server"], g) <=> IsMoving(job["server"], g)
  <2>1. disk' = disk /\ j.at \in {"get", "stat", "read", "add"}
    BY DEF ReadRecord, ReadTime, ReadTags, AddRecord, Ready
  <2>2. job'["server"] = job["server"] \/ t = "server"
    BY <1>2 DEF Thread
  <2> QED BY <1>2, <2>1, <2>2 DEF IsMoving
<1>4. ASSUME NEW u \in Thread, job'[u].at \in {"add", "rate"}
      PROVE  /\ RecordTrue(job'[u].rec)
             /\ IsMoving(job["server"], job'[u].path) \/ Reached(job'[u].rec, disk[job'[u].path])
  BY <1>2, <1>4 DEF RecordsTrue
<1>5. ASSUME NEW g \in Path
      PROVE  RecordTrue(db'[g]) /\ (IsMoving(job["server"], g) \/ Reached(db'[g], disk[g]))
  <2>1. CASE db' = db
    BY <2>1 DEF RecordsTrue
  <2>2. CASE db' = [db EXCEPT ![f] = j.rec] /\ j.at = "add"
    <3>1. db'[g] = IF g = f THEN j.rec ELSE db[g]
      BY <1>1, <2>2
    <3> QED BY <2>2, <3>1 DEF RecordsTrue
  <2> QED BY <1>2, <2>1, <2>2
<1>6. \A u \in Thread : job'[u].at \in {"add", "rate"} =>
        RecordTrue(job'[u].rec) /\ (IsMoving(job'["server"], job'[u].path) \/ Reached(job'[u].rec, disk'[job'[u].path]))
  BY <1>3, <1>4
<1>7. \A g \in Path : RecordTrue(db'[g]) /\ (IsMoving(job'["server"], g) \/ Reached(db'[g], disk'[g]))
  BY <1>3, <1>5
<1> QED BY <1>6, <1>7 DEF RecordsTrue, RecordTrue, Reached, IsMoving

(* It is enough that records stay, or are marked, and that no file becomes  *)
(* older unless it is moved there.                                         *)
LEMMA RecordsStay ==
  ASSUME TypeOK, RecordsTrue,
         \A f \in Path : \/ db'[f] \in {db[f], NoRecord} \/ db'[f].old
                        \/ \E t \in Thread : /\ job[t].at \in {"add", "rate"} /\ job[t].path = f
                                             /\ db'[f] = job[t].rec,
         \A t \in Thread : job'[t].at \in {"add", "rate"} =>
           \/ job'[t].rec.old
           \/ job'[t] = job[t]
           \/ /\ job'[t].path \in Path /\ job'[t].rec.old = db[job'[t].path].old
              /\ job'[t].rec.mtime = db[job'[t].path].mtime
              /\ job'[t].rec.tags = db[job'[t].path].tags,
         \A f \in Path : IsMoving(job["server"], f) => \/ IsMoving(job'["server"], f)
                                                     \/ /\ db'[f].old
                                                        /\ \A t \in Thread : job'[t].at \in {"add", "rate"} /\ job'[t].path = f => job'[t].rec.old,
         \A f \in Path : \/ disk'[f] \in {disk[f], Absent} \/ IsMoving(job'["server"], f)
                        \/ /\ disk[f] # Absent /\ disk[f].tags \in Nat /\ disk'[f].tags \in Nat
                           /\ disk[f].tags <= disk'[f].tags
  PROVE  RecordsTrue'
<1>1. ASSUME NEW f \in Path, NEW r \in Record, RecordTrue(r),
             IsMoving(job["server"], f) \/ Reached(r, disk[f]),
             IsMoving(job["server"], f) => IsMoving(job'["server"], f)
      PROVE  IsMoving(job'["server"], f) \/ Reached(r, disk'[f])
  <2>1. r.tags \in Nat
    BY DEF Record
  <2> QED BY <1>1, <2>1 DEF Reached
<1>2. ASSUME NEW t \in Thread, job[t].at \in {"add", "rate"}
      PROVE  job[t].path \in Path /\ job[t].rec \in Record
  BY <1>2 DEF TypeOK, Job
<1>3. \A f \in Path : db[f] \in Record
  BY DEF TypeOK
<1>4. ASSUME NEW f \in Path
      PROVE  RecordTrue(db'[f]) /\ (IsMoving(job'["server"], f) \/ Reached(db'[f], disk'[f]))
  <2>1. CASE db'[f].old
    BY <2>1 DEF RecordTrue, Reached
  <2>2. CASE db'[f] = NoRecord
    BY <2>2, JobsAre DEF RecordTrue, Reached
  <2>3. CASE ~db'[f].old /\ db'[f] = db[f]
    <3>1. RecordTrue(db[f]) /\ (IsMoving(job["server"], f) \/ Reached(db[f], disk[f]))
      BY DEF RecordsTrue
    <3>2. IsMoving(job["server"], f) => IsMoving(job'["server"], f)
      BY <2>3
    <3>3. db[f] \in Record
      BY <1>3
    <3>4. IsMoving(job'["server"], f) \/ Reached(db[f], disk'[f])
      BY <1>1, <3>1, <3>2, <3>3
    <3> QED BY <2>3, <3>1, <3>4, Zenon
  <2>4. ASSUME ~db'[f].old,
               NEW t \in Thread, job[t].at \in {"add", "rate"}, job[t].path = f, db'[f] = job[t].rec
        PROVE  RecordTrue(db'[f]) /\ (IsMoving(job'["server"], f) \/ Reached(db'[f], disk'[f]))
    <3>1. job[t].rec \in Record
      BY <1>2, <2>4, Zenon
    <3>2. PICK q \in Record : q = job[t].rec
      BY <3>1
    <3>3. RecordTrue(q) /\ (IsMoving(job["server"], f) \/ Reached(q, disk[f]))
      BY <2>4, <3>2, Zenon DEF RecordsTrue
    <3>4. IsMoving(job["server"], f) => IsMoving(job'["server"], f)
      BY <2>4, Zenon
    <3>5. IsMoving(job'["server"], f) \/ Reached(q, disk'[f])
      BY <1>1, <3>3, <3>4
    <3> QED BY <2>4, <3>2, <3>3, <3>5, Zenon
  <2> QED BY <2>1, <2>2, <2>3, <2>4
<1>5. ASSUME NEW t \in Thread, job'[t].at \in {"add", "rate"}
      PROVE  /\ RecordTrue(job'[t].rec)
             /\ IsMoving(job'["server"], job'[t].path) \/ Reached(job'[t].rec, disk'[job'[t].path])
  <2>1. CASE job'[t].rec.old
    BY <2>1 DEF RecordTrue, Reached
  <2>2. CASE ~job'[t].rec.old /\ job'[t] = job[t]
    <3>1. job[t].at \in {"add", "rate"} /\ job'[t] = job[t] /\ ~job[t].rec.old
      BY <1>5, <2>2, Zenon
    <3>2. job[t].path \in Path /\ job[t].rec \in Record
      BY <1>2, <3>1, Zenon
    <3>3. PICK g \in Path, q \in Record : g = job[t].path /\ q = job[t].rec
      BY <3>2
    <3>4. RecordTrue(q) /\ (IsMoving(job["server"], g) \/ Reached(q, disk[g]))
      BY <3>1, <3>3, Zenon DEF RecordsTrue
    <3>5. IsMoving(job["server"], g) => IsMoving(job'["server"], g)
      BY <3>1, <3>3, Zenon
    <3>6. IsMoving(job'["server"], g) \/ Reached(q, disk'[g])
      BY <1>1, <3>4, <3>5
    <3> QED BY <3>1, <3>3, <3>4, <3>6, Zenon
  <2>3. CASE /\ ~job'[t].rec.old /\ job'[t].path \in Path /\ job'[t].rec.old = db[job'[t].path].old
             /\ job'[t].rec.mtime = db[job'[t].path].mtime
             /\ job'[t].rec.tags = db[job'[t].path].tags
    <3>1. PICK g \in Path : g = job'[t].path
      BY <2>3
    <3>2. RecordTrue(db[g]) /\ (IsMoving(job'["server"], g) \/ Reached(db[g], disk'[g]))
      BY <1>1, <1>3, <1>5, <2>3, <3>1 DEF RecordsTrue
    <3> QED BY <2>3, <3>1, <3>2 DEF RecordTrue, Reached
  <2> QED BY <1>5, <2>1, <2>2, <2>3
<1> QED BY <1>4, <1>5 DEF RecordsTrue, RecordTrue, Reached, IsMoving

(* What the server's thread does with a record keeps tags and time.        *)
LEMMA ServerRecords ==
  ASSUME TypeOK, RecordsTrue,
         RatingChanged \/ PutRating \/ RemoveRecord \/ RemoveRating \/ PlaceRating
  PROVE  RecordsTrue'
<1> DEFINE j == job["server"]  f == j.path
<1>1. /\ job \in [Thread -> Job] /\ j \in Job /\ f \in Path /\ j.rec \in Record
      /\ db \in [Path -> Record] /\ db[f] \in Record
      /\ "server" \in Thread /\ "reader" \in Thread /\ disk' = disk
  <2>1. j.at \in {"rated", "rate", "removed", "unrate", "place"} /\ disk' = disk
    BY DEF RatingChanged, PutRating, RemoveRecord, RemoveRating, PlaceRating, Ready
  <2>2. job \in [Thread -> Job] /\ j \in Job /\ "server" \in Thread /\ "reader" \in Thread
    BY DEF TypeOK, Thread
  <2> QED BY <2>1, <2>2 DEF TypeOK, Job
<1>2. Finished("server")["server"].at \in {"idle", "turn"} /\ Finished("server")["reader"] = job["reader"]
  BY <1>1, FinishedIs
<1>3. CASE RatingChanged
  <2> DEFINE q == [db[f] EXCEPT !.rating = rated[f]]
             k == [job EXCEPT !["server"].at = "rate", !["server"].rec = q]
  <2>1. db' = db /\ job' \in {Finished("server"), k} /\ j.at = "rated"
    BY <1>3 DEF RatingChanged, Ready
  <2>2. q.mtime = db[f].mtime /\ q.old = db[f].old /\ q.tags = db[f].tags
    BY <1>1 DEF Record
  <2> HIDE DEF q
  <2>3. k["server"].rec = q /\ k["server"].path = f /\ k["reader"] = job["reader"]
    BY <1>1 DEF Job
  <2> HIDE DEF k
  <2>4. \A t \in Thread : job'[t].at \in {"add", "rate"} =>
          \/ job'[t] = job[t]
          \/ /\ job'[t].path = f /\ job'[t].rec.old = db[f].old
             /\ job'[t].rec.mtime = db[f].mtime /\ job'[t].rec.tags = db[f].tags
    BY <1>2, <2>1, <2>2, <2>3 DEF Thread
  <2>5. \A g \in Path : ~IsMoving(job["server"], g)
    BY <2>1 DEF IsMoving
  <2> QED BY <1>1, <2>1, <2>4, <2>5, RecordsStay
<1>4. CASE PutRating
  <2>1. db' = [db EXCEPT ![f] = j.rec] /\ j.at = "rate" /\ job' = Finished("server")
    BY <1>4 DEF PutRating, Ready
  <2>2. \A t \in Thread : job'[t].at \in {"add", "rate"} => job'[t] = job[t]
    BY <1>2, <2>1 DEF Thread
  <2>3. \A h \in Path : db'[h] = IF h = f THEN j.rec ELSE db[h]
    BY <1>1, <2>1
  <2>4. \A g \in Path : ~IsMoving(job["server"], g)
    BY <2>1 DEF IsMoving
  <2> QED BY <1>1, <2>1, <2>2, <2>3, <2>4, RecordsStay
<1>5. CASE RemoveRecord
  <2>1. /\ db' = [db EXCEPT ![f] = NoRecord] /\ job' = [job EXCEPT !["server"].at = "unrate"]
        /\ j.at = "removed"
    BY <1>5 DEF RemoveRecord, RecordGone, Goes, Ready
  <2>2. job'["server"].at = "unrate" /\ job'["server"].to = j.to /\ job'["reader"] = job["reader"]
    BY <1>1, <2>1 DEF Job
  <2>3. \A t \in Thread : job'[t].at \in {"add", "rate"} => job'[t] = job[t]
    BY <2>2 DEF Thread
  <2>4. \A h \in Path : db'[h] = IF h = f THEN NoRecord ELSE db[h]
    BY <1>1, <2>1
  <2>5. \A g \in Path : IsMoving(job["server"], g) => IsMoving(job'["server"], g)
    BY <2>1, <2>2 DEF IsMoving
  <2> QED BY <1>1, <2>3, <2>4, <2>5, RecordsStay
<1>6. CASE RemoveRating \/ PlaceRating
  <2> DEFINE S == {j.to} \cup (IF j.at = "unrate" THEN {f} ELSE {})
  <2>1. /\ j.at \in {"unrate", "place"}
        /\ \A h \in Path : h = j.to => db'[h].old
        /\ \A h \in Path : h # j.to => db'[h] = db[h]
        /\ \/ job'["server"].at \in {"idle", "turn"}
           \/ job'["server"].at = "place" /\ job'["server"].to = j.to
        /\ job'["reader"].at = job["reader"].at /\ job'["reader"].path = job["reader"].path
        /\ \/ job'["reader"] = job["reader"] /\ ~(job["reader"].at = "add" /\ job["reader"].path \in S)
           \/ job'["reader"].rec.old
    <3> HIDE DEF j, f
    <3> QED BY <1>6, RatingMovedIs DEF j, f
  <2>2. job["reader"].at # "rate" /\ j.to \in S
    BY DEF TypeOK, ReaderPlaces
  <2> HIDE DEF S
  <2>3. \A t \in Thread : job'[t].at \in {"add", "rate"} => job'[t].rec.old \/ job'[t] = job[t]
    BY <2>1 DEF Thread
  <2>4. ASSUME NEW h \in Path, IsMoving(job["server"], h)
        PROVE  /\ db'[h].old
               /\ \A t \in Thread : job'[t].at \in {"add", "rate"} /\ job'[t].path = h => job'[t].rec.old
    BY <2>1, <2>2, <2>4 DEF IsMoving, Thread
  <2> QED BY <1>1, <2>1, <2>3, <2>4, RecordsStay
<1> QED BY <1>3, <1>4, <1>5, <1>6

LEMMA CallRecords ==
  ASSUME TypeOK, RecordsTrue, NEW f \in Path,
         \/ \E c \in Client, w \in BOOLEAN : AddRequest(c, f, w)
         \/ GetImmediate(f) \/ RemoveFile(f)
         \/ \E r \in Ratings \cup {0} : Rate(f, r)
         \/ \E g \in Path \ {f}, one \in BOOLEAN : MoveFile(f, g, one)
  PROVE  RecordsTrue'
<1>1. /\ job \in [Thread -> Job] /\ db \in [Path -> Record] /\ disk \in [Path -> File]
      /\ "server" \in Thread /\ "reader" \in Thread
  BY DEF TypeOK, Thread
<1>2. ASSUME NEW at \in {"get", "rated", "removed", "unrate"}, NEW to \in Path \cup {None}
      PROVE  /\ Starting(at, f, to)["server"].at = at /\ Starting(at, f, to)["server"].to = to
             /\ Starting(at, f, to)["reader"] = job["reader"] /\ JobTypes(Starting(at, f, to))
  <2>1. at \in ServerPlaces
    BY DEF ServerPlaces
  <2> QED BY <2>1, StartingIs, StartingTyped
<1> DEFINE Kept ==
      /\ \A g \in Path : db'[g] = db[g] \/ db'[g].old
      /\ \A g \in Path : disk'[g] \in {disk[g], Absent} \/ IsMoving(job'["server"], g)
      /\ \/ job' = job
         \/ job'["reader"].at = "turn" /\ job'["server"] = job["server"]
         \/ /\ job'["server"].at \in {"get", "rated", "removed", "unrate"}
            /\ job'["reader"] = job["reader"] \/ job'["reader"].rec.old
<1>3. Kept
  <2>1. ASSUME NEW c \in Client, NEW w \in BOOLEAN, AddRequest(c, f, w)
        PROVE  Kept
    <3>1. db' = db /\ disk' = disk /\ job' \in {job, [job EXCEPT !["reader"].at = "turn"]}
      BY <2>1 DEF AddRequest, Woken
    <3>2. [job EXCEPT !["reader"].at = "turn"]["reader"].at = "turn"
          /\ [job EXCEPT !["reader"].at = "turn"]["server"] = job["server"]
      BY <1>1 DEF Job
    <3> QED BY <3>1, <3>2
  <2>2. CASE GetImmediate(f)
    BY <1>2, <2>2 DEF GetImmediate
  <2>3. CASE RemoveFile(f)
    <3>1. /\ db' = db /\ disk' = [disk EXCEPT ![f] = Absent] /\ job' = Starting("removed", f, None)
      BY <2>3 DEF RemoveFile
    <3> QED BY <1>1, <1>2, <3>1
  <2>4. ASSUME NEW r \in Ratings \cup {0}, Rate(f, r)
        PROVE  Kept
    <3>1. db' = db /\ disk' = disk /\ job' = Overtaken({f}, Starting("rated", f, None))
      BY <2>4 DEF Rate
    <3> QED BY <1>2, <3>1, OvertakenIs
  <2>5. ASSUME NEW g \in Path \ {f}, NEW one \in BOOLEAN, MoveFile(f, g, one)
        PROVE  Kept
    <3>1. job' = Starting(IF one THEN "unrate" ELSE "removed", f, g)
          /\ db' \in {db, [db EXCEPT ![f].old = TRUE]}
          /\ disk' = [disk EXCEPT ![f] = Absent, ![g] = disk[f]]
      BY <2>5 DEF MoveFile
    <3>2. ASSUME NEW h \in Path, db' = [db EXCEPT ![f].old = TRUE]
          PROVE  db'[h] = db[h] \/ db'[h].old
      BY <1>1, <3>2 DEF Record
    <3>3. job'["server"].at \in {"unrate", "removed"} /\ job'["server"].to = g
          /\ job'["reader"] = job["reader"]
      BY <1>2, <3>1
    <3>4. \A h \in Path : disk'[h] \in {disk[h], Absent} \/ h = g
      BY <1>1, <3>1
    <3>5. IsMoving(job'["server"], g)
      BY <3>3 DEF IsMoving
    <3> QED BY <3>1, <3>2, <3>3, <3>4, <3>5
  <2> QED BY <2>1, <2>2, <2>3, <2>4, <2>5
<1>4. \A t \in Thread : job'[t].at \in {"add", "rate"} => job'[t] = job[t] \/ job'[t].rec.old
  BY <1>3 DEF Thread
<1>5. \A g \in Path : ~IsMoving(job["server"], g)
  BY JobsAre DEF AddRequest, GetImmediate, RemoveFile, Rate, MoveFile, Called, IsMoving
<1> QED BY <1>3, <1>4, <1>5, RecordsStay

LEMMA StepRecords == TypeOK /\ RecordsTrue /\ [Next]_vars => RecordsTrue'
<1> SUFFICES ASSUME TypeOK, RecordsTrue, [Next]_vars PROVE RecordsTrue'
  OBVIOUS
<1>1. job \in [Thread -> Job] /\ "server" \in Thread /\ "reader" \in Thread
  BY DEF TypeOK, Thread
<1>2. ASSUME NEW t \in Thread, ReadRecord(t) \/ ReadTime(t) \/ ReadTags(t) \/ AddRecord(t)
      PROVE  RecordsTrue'
  BY <1>2, ReadingRecords
<1>3. ASSUME db' = db, job' = job, disk' = disk PROVE RecordsTrue'
  BY <1>3, RecordsStay
<1>4. ASSUME db' = db, job'["server"] = job["server"],
             job'["reader"].at \in {"turn", "asleep", "write", "get"} \/ job'["reader"] = job["reader"],
             \/ disk' = disk
             \/ \E f \in Path : disk[f] # Absent /\ Newest < MaxTags /\ disk' = Changed(f)
      PROVE  RecordsTrue'
  <2>1. \A t \in Thread : job'[t].at \in {"add", "rate"} => job'[t] = job[t]
    BY <1>4 DEF Thread
  <2>2. \A g \in Path : \/ disk'[g] = disk[g]
                       \/ /\ disk[g] # Absent /\ disk[g].tags \in Nat /\ disk'[g].tags \in Nat
                          /\ disk[g].tags <= disk'[g].tags
    <3>1. ASSUME NEW f \in Path, disk[f] # Absent, Newest < MaxTags, disk' = Changed(f), NEW g \in Path
          PROVE  \/ disk'[g] = disk[g]
                 \/ /\ disk[g] # Absent /\ disk[g].tags \in Nat /\ disk'[g].tags \in Nat
                    /\ disk[g].tags <= disk'[g].tags
      <4>1. /\ \A h \in Path : h # f => Changed(f)[h] = disk[h]
            /\ disk[f].tags \in Nat /\ Changed(f)[f].tags \in Nat
            /\ disk[f].tags <= Changed(f)[f].tags
        BY <3>1, ChangedIs
      <4> QED BY <3>1, <4>1
    <3> QED BY <1>4, <3>1
  <2> QED BY <1>4, <2>1, <2>2, RecordsStay
<1>5. CASE TakeRequest
  <2> DEFINE rq == Head(queues[InTurn(Waiting)])
             r == [Idle EXCEPT !.path = rq.path, !.client = InTurn(Waiting),
                               !.at = IF rq.write THEN "write" ELSE "get"]
             a == [job["reader"] EXCEPT !.at = "asleep"]
  <2>1. db' = db /\ disk' = disk /\ \/ job' = [job EXCEPT !["reader"] = a]
                                    \/ job' = [job EXCEPT !["reader"] = r]
    BY <1>5 DEF TakeRequest, Goes
  <2>2. r.at \in {"write", "get"} /\ a.at = "asleep"
    <3> HIDE DEF rq
    <3> QED BY <1>1, JobsAre DEF Job
  <2> HIDE DEF r, a
  <2>3. job'["server"] = job["server"] /\ job'["reader"] \in {a, r}
    BY <1>1, <2>1
  <2> QED BY <1>4, <2>1, <2>2, <2>3
<1>6. CASE WriteTags
  <2> DEFINE k == [job EXCEPT !["reader"].at = "get"]
  <2>1. /\ db' = db /\ job' \in {k, Finished("reader")}
        /\ \/ disk' = disk
           \/ \E f \in Path : disk[f] # Absent /\ Newest < MaxTags /\ disk' = Changed(f)
    BY <1>1, <1>6 DEF WriteTags, Goes, Ready, TypeOK
  <2>2. k["reader"].at = "get" /\ k["server"] = job["server"]
    BY <1>1 DEF Job
  <2>3. Finished("reader")["reader"].at = "turn" /\ Finished("reader")["server"] = job["server"]
    BY <1>1, JobsAre DEF Finished
  <2> HIDE DEF k
  <2> QED BY <1>4, <2>1, <2>2, <2>3
<1>7. ASSUME NEW f \in Path, Touch(f) PROVE RecordsTrue'
  BY <1>4, <1>7 DEF Touch
<1>8. ASSUME NEW c \in Client, ClearQueue(c) PROVE RecordsTrue'
  BY <1>3, <1>8 DEF ClearQueue
<1>9. CASE Destroy
  BY <1>3, <1>9 DEF Destroy
<1>10. CASE UNCHANGED vars
  BY <1>3, <1>10 DEF vars
<1>11. CASE RatingChanged \/ PutRating \/ RemoveRecord \/ RemoveRating \/ PlaceRating
  BY <1>11, ServerRecords
<1> QED BY <1>1, <1>2, <1>5, <1>6, <1>7, <1>8, <1>9, <1>10, <1>11, CallRecords
        DEF Next, ReaderStep, ServerStep

(* A record that hits was written in the second in which its file was.     *)
LEMMA RecordsGiveTags == TypeOK /\ RecordsTrue => CacheTrue
<1> SUFFICES ASSUME TypeOK, RecordsTrue, NEW f \in Path, Hit(db[f], f), ~db[f].old
             PROVE  WrittenWith(db[f].tags, f)
  BY DEF CacheTrue
<1>1. db[f].mtime # -1 /\ db[f].mtime = disk[f].mtime
  BY DEF Hit
<1> QED BY <1>1 DEF RecordsTrue, RecordTrue, WrittenWith

(* Whatever threads, changes, moves and removals do, the types are kept    *)
(* (tags_cache.cc, tags_db.cc).                                            *)
THEOREM TypeCorrect == Spec => []TypeOK
<1>1. Init => TypeOK
  BY InitTypes
<1>2. TypeOK /\ [Next]_vars => TypeOK'
  BY StepTypes
<1> QED BY <1>1, <1>2, PTL DEF Spec

(* A record that counts as up to date has tags that were written in the    *)
(* second in which its file was, unless the file was replaced between the  *)
(* reading of its time and of its tags (tags_cache.cc:26, 198).            *)
THEOREM CacheIsTrue == Spec => []CacheTrue
<1>1. Init => TypeOK /\ RecordsTrue
  BY InitTypes, InitRecords
<1>2. (TypeOK /\ RecordsTrue) /\ [Next]_vars => (TypeOK /\ RecordsTrue)'
  BY StepTypes, StepRecords
<1>3. TypeOK /\ RecordsTrue => CacheTrue
  BY RecordsGiveTags
<1> QED BY <1>1, <1>2, <1>3, PTL DEF Spec

(* What that means where no two changes fall into one second: the record   *)
(* has the tags of its file.                                               *)
CacheExact == \A f \in Path : Hit(db[f], f) /\ ~db[f].old => db[f].tags = disk[f].tags

THEOREM CacheIsExact ==
  ASSUME \A m, n \in 1..MaxTags : Second[m] = Second[n] => m = n
  PROVE  Spec => []CacheExact
<1>1. TypeOK /\ CacheTrue => CacheExact
  <2> SUFFICES ASSUME TypeOK, CacheTrue, NEW f \in Path, Hit(db[f], f), ~db[f].old
               PROVE  db[f].tags = disk[f].tags
    BY DEF CacheExact
  <2>1. disk[f] \in File /\ disk[f] # Absent
    BY DEF TypeOK, Hit, Absent
  <2>2. disk[f].tags \in 1..MaxTags /\ disk[f].mtime = Second[disk[f].tags]
    BY <2>1, FilesAre
  <2>3. db[f].tags \in 1..MaxTags /\ Second[db[f].tags] = disk[f].mtime
    BY DEF CacheTrue, WrittenWith
  <2> QED BY <2>2, <2>3
<1> QED BY <1>1, TypeCorrect, CacheIsTrue, PTL

-----------------------------------------------------------------------------
(* Every rating that counts is the file's, or about to be                  *)

LEMMA InitRatings == Init => RatingsHeld
<1> SUFFICES ASSUME Init PROVE RatingsHeld
  OBVIOUS
<1>1. \A f \in Path : db[f].mtime = -1
  BY JobsAre DEF Init
<1>2. \A t \in Thread : job[t].at \in {"idle", "turn"}
  BY JobsAre DEF Init
<1>3. "server" \in Thread
  BY DEF Thread
<1> QED BY <1>1, <1>2, <1>3 DEF RatingsHeld, Hit

(* Nothing that a rating depends on changes, and the reader does not get   *)
(* to the end of a reading.                                                *)
LEMMA QuietRatings ==
  ASSUME RatingsHeld, disk' = disk, rated' = rated, db' = db,
         job'["server"] = job["server"],
         job'["reader"] = job["reader"] \/ job'["reader"].at \in {"turn", "asleep", "write", "get"}
  PROVE  RatingsHeld'
<1>1. \A f \in Path : BeingRated(f)' <=> BeingRated(f)
  BY DEF BeingRated, IsMoving
<1>2. \A t \in Thread : job'[t].at \in {"add", "rate"} => job'[t] = job[t]
  BY DEF Thread
<1> QED BY <1>1, <1>2 DEF RatingsHeld, Hit

LEMMA ReadingRatings ==
  ASSUME TypeOK, RatingsHeld, NEW t \in Thread,
         ReadRecord(t) \/ ReadTime(t) \/ ReadTags(t) \/ AddRecord(t)
  PROVE  RatingsHeld'
<1> DEFINE f == job[t].path  j == job[t]
<1>1. /\ job \in [Thread -> Job] /\ j \in Job /\ f \in Path /\ j.rec \in Record /\ db \in [Path -> Record]
      /\ j.at \in {"get", "stat", "read", "add"} /\ disk' = disk /\ rated' = rated
      /\ rated[f] \in Ratings \cup {0} /\ "server" \in Thread
  <2>1. j.at \in {"get", "stat", "read", "add"} /\ disk' = disk /\ rated' = rated
    BY DEF ReadRecord, ReadTime, ReadTags, AddRecord, Ready
  <2>2. job \in [Thread -> Job] /\ j \in Job /\ "server" \in Thread
    BY DEF TypeOK, Thread
  <2> QED BY <2>1, <2>2 DEF TypeOK, Job
<1>2. /\ \A u \in Thread : u # t => job'[u] = job[u]
      /\ \/ db' = db /\ job'[t].at \in {"stat", "read", "idle", "turn"}
         \/ /\ db' = db /\ job'[t].at = "add" /\ job'[t].path = f
            /\ job'[t].rec.old \/ job'[t].rec.rating = rated[f]
         \/ db' = [db EXCEPT ![f] = j.rec] /\ j.at = "add" /\ job'[t].at \in {"idle", "turn"}
  <2>1. CASE ReadRecord(t)
    <3>1. db' = db /\ job' = [job EXCEPT ![t].at = "stat", ![t].rec = db[f]]
      BY <2>1 DEF ReadRecord
    <3> QED BY <1>1, <3>1 DEF Job
  <2>2. CASE ReadTime(t)
    <3> DEFINE k == [job EXCEPT ![t].at = "read", ![t].rec.mtime = disk[f].mtime]
    <3>1. db' = db /\ job' \in {Finished(t), k}
      BY <2>2 DEF ReadTime
    <3>2. k[t].at = "read" /\ \A u \in Thread : u # t => k[u] = job[u]
      BY <1>1 DEF Job
    <3> HIDE DEF k
    <3>3. CASE job' = k
      BY <3>1, <3>2, <3>3
    <3>4. CASE job' = Finished(t)
      BY <3>1, <3>4, FinishedIs
    <3> QED BY <3>1, <3>3, <3>4
  <2>3. CASE ReadTags(t)
    <3>0. PICK v \in RatingsRead(f) : db' = db /\
            job' = [job EXCEPT ![t].at = "add",
              ![t].rec = [j.rec EXCEPT !.rating = v, !.old = disk[f].mtime # j.rec.mtime \/ v # rated[f],
                                       !.tags = IF disk[f] = Absent THEN @ ELSE disk[f].tags]]
      BY <2>3 DEF ReadTags
    <3> DEFINE o == disk[f].mtime # j.rec.mtime \/ v # rated[f]
               g == IF disk[f] = Absent THEN j.rec.tags ELSE disk[f].tags
               q == [j.rec EXCEPT !.rating = v, !.old = o, !.tags = g]
    <3>1. db' = db /\ job' = [job EXCEPT ![t].at = "add", ![t].rec = q]
      BY <3>0
    <3>2. q.rating = v /\ q.old = o
      <4> HIDE DEF o, g
      <4> QED BY <1>1 DEF Record
    <3>4. q.old \/ q.rating = rated[f]
      BY <3>2
    <3> HIDE DEF q
    <3>3. job'[t].rec = q /\ job'[t].at = "add" /\ job'[t].path = f
          /\ \A u \in Thread : u # t => job'[u] = job[u]
      BY <1>1, <3>1 DEF Job
    <3> QED BY <3>1, <3>3, <3>4
  <2>4. CASE AddRecord(t)
    <3>1. db' = [db EXCEPT ![f] = j.rec] /\ j.at = "add" /\ job' = Finished(t)
      BY <2>4 DEF AddRecord, Timed, Ready
    <3> QED BY <3>1, FinishedIs
  <2> QED BY <2>1, <2>2, <2>3, <2>4
<1>3. \A g \in Path : BeingRated(g)' <=> BeingRated(g)
  BY <1>1, <1>2 DEF BeingRated, IsMoving
<1>4. ASSUME NEW u \in Thread, job'[u].at \in {"add", "rate"}, ~job'[u].rec.old
      PROVE  job'[u].rec.rating = rated'[job'[u].path]
  <2>1. CASE u = t
    BY <1>1, <1>2, <1>4, <2>1
  <2>2. CASE u # t
    BY <1>1, <1>2, <1>4, <2>2 DEF RatingsHeld
  <2> QED BY <2>1, <2>2
<1>5. ASSUME NEW g \in Path, Hit(db[g], g)', ~db'[g].old
      PROVE  db'[g].rating = rated'[g] \/ BeingRated(g)'
  <2>1. CASE db'[g] = db[g]
    <3>1. Hit(db[g], g)
      BY <1>1, <1>5, <2>1 DEF Hit
    <3> QED BY <1>1, <1>3, <1>5, <2>1, <3>1 DEF RatingsHeld
  <2>2. CASE g = f /\ db'[g] = j.rec /\ j.at = "add"
    BY <1>1, <1>5, <2>2 DEF RatingsHeld
  <2> QED BY <1>1, <1>2, <2>1, <2>2
<1>6. job'["server"].at \in {"removed", "unrate"} => disk'[job'["server"].path] = Absent
  BY <1>1, <1>2 DEF RatingsHeld
<1> QED BY <1>4, <1>5, <1>6 DEF RatingsHeld, Hit

LEMMA ServerRatings ==
  ASSUME TypeOK, RatingsHeld,
         RatingChanged \/ PutRating \/ RemoveRecord \/ RemoveRating \/ PlaceRating
  PROVE  RatingsHeld'
<1> DEFINE j == job["server"]  f == j.path  g == j.to
<1>1. /\ job \in [Thread -> Job] /\ j \in Job /\ f \in Path /\ j.rec \in Record
      /\ db \in [Path -> Record] /\ db[f] \in Record /\ rated \in [Path -> Ratings \cup {0}]
      /\ "server" \in Thread /\ "reader" \in Thread /\ disk' = disk
      /\ j.at \in {"rated", "rate", "removed", "unrate", "place"}
  <2>1. j.at \in {"rated", "rate", "removed", "unrate", "place"} /\ disk' = disk
    BY DEF RatingChanged, PutRating, RemoveRecord, RemoveRating, PlaceRating, Ready
  <2>2. job \in [Thread -> Job] /\ j \in Job /\ "server" \in Thread /\ "reader" \in Thread
    BY DEF TypeOK, Thread
  <2> QED BY <2>1, <2>2 DEF TypeOK, Job
<1>2. Finished("server")["server"].at \in {"idle", "turn"} /\ Finished("server")["reader"] = job["reader"]
  BY <1>1, FinishedIs
<1>3. CASE RatingChanged
  <2> DEFINE q == [db[f] EXCEPT !.rating = rated[f]]
             k == [job EXCEPT !["server"].at = "rate", !["server"].rec = q]
  <2>1. db' = db /\ rated' = rated /\ j.at = "rated"
        /\ \/ job' = Finished("server") /\ (Hit(db[f], f) => db[f].rating = rated[f])
           \/ job' = k
    BY <1>3 DEF RatingChanged, Ready, Dummy
  <2>2. q.rating = rated[f]
    BY <1>1 DEF Record
  <2> HIDE DEF q
  <2>3. /\ k["server"].rec = q /\ k["server"].at = "rate" /\ k["server"].path = f
        /\ k["reader"] = job["reader"]
    BY <1>1 DEF Job
  <2> HIDE DEF k
  <2>4. ASSUME NEW h \in Path
        PROVE  BeingRated(h) <=> h = f
    BY <2>1 DEF BeingRated, IsMoving
  <2>5. ASSUME NEW h \in Path, Hit(db[h], h), ~db[h].old
        PROVE  db[h].rating = rated[h] \/ BeingRated(h)'
    <3>1. CASE h # f
      BY <2>4, <2>5, <3>1 DEF RatingsHeld
    <3>2. CASE h = f
      BY <2>1, <2>3, <2>5, <3>2 DEF BeingRated, IsMoving
    <3> QED BY <3>1, <3>2
  <2>6. ASSUME NEW t \in Thread, job'[t].at \in {"add", "rate"}, ~job'[t].rec.old
        PROVE  job'[t].rec.rating = rated[job'[t].path]
    <3>1. CASE t = "reader"
      BY <1>2, <2>1, <2>3, <2>6, <3>1 DEF RatingsHeld
    <3>2. CASE t = "server"
      BY <1>2, <2>1, <2>2, <2>3, <2>6, <3>2
    <3> QED BY <3>1, <3>2 DEF Thread
  <2>7. job'["server"].at \notin {"removed", "unrate"}
    BY <1>2, <2>1, <2>3
  <2> QED BY <1>1, <2>1, <2>5, <2>6, <2>7 DEF RatingsHeld, Hit
<1>4. CASE PutRating
  <2>1. db' = [db EXCEPT ![f] = j.rec] /\ rated' = rated /\ j.at = "rate" /\ job' = Finished("server")
    BY <1>4 DEF PutRating, Ready
  <2>2. ASSUME NEW h \in Path
        PROVE  BeingRated(h) <=> h = f
    BY <2>1 DEF BeingRated, IsMoving
  <2>3. ASSUME NEW h \in Path, Hit(db[h], h)', ~db'[h].old
        PROVE  db'[h].rating = rated[h]
    <3>1. db'[h] = IF h = f THEN j.rec ELSE db[h]
      BY <1>1, <2>1
    <3>2. CASE h = f
      BY <1>1, <2>1, <2>3, <3>1, <3>2 DEF RatingsHeld
    <3>3. CASE h # f
      <4>1. Hit(db[h], h)
        BY <1>1, <2>3, <3>1, <3>3 DEF Hit
      <4> QED BY <2>2, <2>3, <3>1, <3>3, <4>1 DEF RatingsHeld
    <3> QED BY <3>2, <3>3
  <2>4. ASSUME NEW t \in Thread, job'[t].at \in {"add", "rate"}, ~job'[t].rec.old
        PROVE  job'[t].rec.rating = rated[job'[t].path]
    BY <1>2, <2>1, <2>4 DEF RatingsHeld, Thread
  <2> QED BY <1>2, <2>1, <2>3, <2>4 DEF RatingsHeld
<1>5. CASE RemoveRecord
  <2>1. db' = [db EXCEPT ![f] = NoRecord] /\ rated' = rated /\ j.at = "removed"
        /\ job' = [job EXCEPT !["server"].at = "unrate"]
    BY <1>5 DEF RemoveRecord, RecordGone, Goes, Ready
  <2>2. /\ job'["server"].at = "unrate" /\ job'["server"].path = f /\ job'["server"].to = g
        /\ job'["reader"] = job["reader"]
    BY <1>1, <2>1 DEF Job
  <2>3. ASSUME NEW h \in Path
        PROVE  BeingRated(h)' <=> BeingRated(h)
    BY <2>1, <2>2 DEF BeingRated, IsMoving
  <2>4. ASSUME NEW h \in Path, Hit(db[h], h)', ~db'[h].old
        PROVE  db'[h].rating = rated[h] \/ BeingRated(h)'
    <3>1. db'[h] = IF h = f THEN NoRecord ELSE db[h]
      BY <1>1, <2>1
    <3>2. h # f /\ db'[h] = db[h]
      BY <2>4, <3>1, JobsAre DEF Hit
    <3>3. Hit(db[h], h)
      BY <1>1, <2>4, <3>2 DEF Hit
    <3> QED BY <2>3, <2>4, <3>2, <3>3 DEF RatingsHeld
  <2>5. ASSUME NEW t \in Thread, job'[t].at \in {"add", "rate"}, ~job'[t].rec.old
        PROVE  job'[t].rec.rating = rated[job'[t].path]
    BY <2>2, <2>5 DEF RatingsHeld, Thread
  <2>6. disk[f] = Absent
    BY <2>1 DEF RatingsHeld
  <2> QED BY <1>1, <2>1, <2>2, <2>4, <2>5, <2>6 DEF RatingsHeld
<1>6. CASE RemoveRating \/ PlaceRating
  <2> DEFINE S == {g} \cup (IF j.at = "unrate" THEN {f} ELSE {})
  <2>1. /\ j.at \in {"unrate", "place"}
        /\ \A h \in Path : h = g => db'[h].old
        /\ \A h \in Path : h # g => db'[h] = db[h]
        /\ \A h \in Path : h \notin S => rated'[h] = rated[h]
        /\ \/ job'["server"].at \in {"idle", "turn"}
           \/ job'["server"].at = "place" /\ job'["server"].to = g
        /\ job'["reader"].at = job["reader"].at /\ job'["reader"].path = job["reader"].path
        /\ \/ job'["reader"] = job["reader"] /\ ~(job["reader"].at = "add" /\ job["reader"].path \in S)
           \/ job'["reader"].rec.old
    <3> HIDE DEF j, f, g
    <3> QED BY <1>6, RatingMovedIs DEF j, f, g
  <2>2. ASSUME NEW h \in Path, Hit(db[h], h)', ~db'[h].old
        PROVE  db'[h].rating = rated'[h]
    <3>1. h # g /\ db'[h] = db[h]
      BY <2>1, <2>2
    <3>2. Hit(db[h], h)
      BY <1>1, <2>2, <3>1 DEF Hit
    <3>3. h \notin S
      <4>1. j.at = "unrate" => disk[f].mtime = -1
        BY DEF RatingsHeld, Absent
      <4> QED BY <3>1, <3>2, <4>1 DEF Hit
    <3>4. ~BeingRated(h)
      BY <2>1, <3>1 DEF BeingRated, IsMoving
    <3> QED BY <2>1, <2>2, <3>1, <3>2, <3>3, <3>4 DEF RatingsHeld
  <2>3. ASSUME NEW t \in Thread, job'[t].at \in {"add", "rate"}, ~job'[t].rec.old
        PROVE  job'[t].rec.rating = rated'[job'[t].path]
    <3>1. t = "reader" /\ job'["reader"] = job["reader"] /\ job["reader"].at \in {"add", "rate"}
      BY <2>1, <2>3 DEF Thread
    <3>2. job["reader"].at = "add" /\ job["reader"].path \in Path
      BY <3>1, <1>1 DEF TypeOK, ReaderPlaces
    <3>3. job["reader"].path \notin S
      BY <2>1, <2>3, <3>1, <3>2
    <3> HIDE DEF S
    <3> QED BY <1>1, <2>1, <2>3, <3>1, <3>2, <3>3 DEF RatingsHeld
  <2> QED BY <2>1, <2>2, <2>3 DEF RatingsHeld
<1> QED BY <1>3, <1>4, <1>5, <1>6

(* The clock does not go back: a record that has the time of a file that    *)
(* changes had it before.                                                  *)
LEMMA ChangedRatings ==
  ASSUME TypeOK, RecordsTrue, RatingsHeld, NEW f \in Path, disk[f] # Absent, Newest < MaxTags,
         disk' = Changed(f), rated' = rated, db' = db, job'["server"] = job["server"],
         job'["reader"] = job["reader"] \/ job'["reader"].at = "get"
  PROVE  RatingsHeld'
<1>1. /\ \A g \in Path : g # f => disk'[g] = disk[g]
      /\ disk[f] \in File /\ disk'[f] \in File /\ disk'[f] # Absent
      /\ disk[f].tags \in Nat /\ disk'[f].tags \in Nat /\ disk[f].tags <= disk'[f].tags
  <2>1. disk[f] \in File
    BY DEF TypeOK
  <2>2. /\ Changed(f) \in [Path -> File] /\ \A g \in Path : g # f => Changed(f)[g] = disk[g]
        /\ Changed(f)[f] # Absent
        /\ disk[f].tags \in Nat /\ Changed(f)[f].tags \in Nat
        /\ disk[f].tags <= Changed(f)[f].tags
    BY ChangedIs
  <2> QED BY <2>1, <2>2
<1>2. \A g \in Path : BeingRated(g)' <=> BeingRated(g)
  BY DEF BeingRated, IsMoving
<1>3. ASSUME NEW g \in Path, Hit(db[g], g)', ~db[g].old
      PROVE  db[g].rating = rated[g] \/ BeingRated(g)
  <2>1. CASE g = f /\ ~BeingRated(g)
    <3>1. db[f].mtime # -1 /\ db[f].mtime = disk'[f].mtime
      BY <1>3, <2>1 DEF Hit
    <3>2. /\ db[f].tags \in 1..MaxTags /\ db[f].mtime = Second[db[f].tags]
          /\ db[f].tags <= disk[f].tags
      BY <1>3, <2>1, <3>1 DEF RecordsTrue, RecordTrue, Reached, BeingRated
    <3>3. /\ disk[f].tags \in 1..MaxTags /\ disk[f].mtime = Second[disk[f].tags]
          /\ disk'[f].tags \in 1..MaxTags /\ disk'[f].mtime = Second[disk'[f].tags]
      BY <1>1, FilesAre
    <3>4. /\ Second[db[f].tags] <= Second[disk[f].tags] /\ Second[disk[f].tags] <= Second[disk'[f].tags]
          /\ Second[db[f].tags] \in Nat /\ Second[disk[f].tags] \in Nat /\ Second[disk'[f].tags] \in Nat
      BY <1>1, <3>2, <3>3, ClockAssumption
    <3>5. Second[db[f].tags] = Second[disk'[f].tags]
      BY <3>1, <3>2, <3>3
    <3>6. Second[db[f].tags] = Second[disk[f].tags]
      BY ONLY <3>4, <3>5
    <3>7. Hit(db[f], f)
      BY <3>1, <3>2, <3>3, <3>6 DEF Hit
    <3> QED BY <1>3, <2>1, <3>7 DEF RatingsHeld
  <2>2. CASE g # f
    <3>1. Hit(db[g], g)
      BY <1>1, <1>3, <2>2 DEF Hit
    <3> QED BY <1>3, <3>1 DEF RatingsHeld
  <2> QED BY <2>1, <2>2
<1>4. \A t \in Thread : job'[t].at \in {"add", "rate"} => job'[t] = job[t]
  BY DEF Thread
<1>5. ASSUME job["server"].at \in {"removed", "unrate"}
      PROVE  disk'[job["server"].path] = Absent
  <2>1. disk[job["server"].path] = Absent
    BY <1>5 DEF RatingsHeld
  <2>2. job["server"].path \in Path
    BY <1>5 DEF TypeOK, Thread
  <2> QED BY <1>1, <2>1, <2>2
<1> QED BY <1>2, <1>3, <1>4, <1>5 DEF RatingsHeld

LEMMA CallRatings ==
  ASSUME TypeOK, RatingsHeld, NEW f \in Path,
         \/ \E c \in Client, w \in BOOLEAN : AddRequest(c, f, w)
         \/ GetImmediate(f) \/ RemoveFile(f)
         \/ \E r \in Ratings \cup {0} : Rate(f, r)
         \/ \E g \in Path \ {f}, one \in BOOLEAN : MoveFile(f, g, one)
  PROVE  RatingsHeld'
<1>1. /\ job \in [Thread -> Job] /\ db \in [Path -> Record] /\ disk \in [Path -> File]
      /\ rated \in [Path -> Ratings \cup {0}] /\ "server" \in Thread /\ "reader" \in Thread
  BY DEF TypeOK, Thread
<1>2. job["server"] = Idle /\ job["server"].at = "idle"
  BY JobsAre DEF AddRequest, GetImmediate, RemoveFile, Rate, MoveFile, Called
<1>3. \A h \in Path : ~BeingRated(h)
  BY <1>2 DEF BeingRated, IsMoving
<1>4. ASSUME NEW at \in {"get", "rated", "removed", "unrate"}, NEW to \in Path \cup {None}
      PROVE  /\ Starting(at, f, to)["server"].at = at /\ Starting(at, f, to)["server"].path = f
             /\ Starting(at, f, to)["server"].to = to
             /\ Starting(at, f, to)["reader"] = job["reader"] /\ JobTypes(Starting(at, f, to))
  <2>1. at \in ServerPlaces
    BY DEF ServerPlaces
  <2> QED BY <2>1, StartingIs, StartingTyped
<1>5. ASSUME NEW c \in Client, NEW w \in BOOLEAN, AddRequest(c, f, w)
      PROVE  RatingsHeld'
  <2> DEFINE k == [job EXCEPT !["reader"].at = "turn"]
  <2>1. disk' = disk /\ rated' = rated /\ db' = db /\ job' \in {job, k}
    BY <1>5 DEF AddRequest, Woken
  <2>2. k["reader"].at = "turn" /\ k["server"] = job["server"]
    BY <1>1 DEF Job
  <2> HIDE DEF k
  <2> QED BY <2>1, <2>2, QuietRatings
<1>6. ASSUME GetImmediate(f) PROVE RatingsHeld'
  <2>1. disk' = disk /\ rated' = rated /\ db' = db /\ job' = Starting("get", f, None)
    BY <1>6 DEF GetImmediate
  <2>2. job'["server"].at = "get" /\ job'["reader"] = job["reader"]
    BY <1>4, <2>1
  <2>3. \A t \in Thread : job'[t].at \in {"add", "rate"} => job'[t] = job[t]
    BY <2>2 DEF Thread
  <2> QED BY <1>3, <2>1, <2>2, <2>3 DEF RatingsHeld, Hit
<1>7. ASSUME RemoveFile(f) PROVE RatingsHeld'
  <2>1. /\ disk' = [disk EXCEPT ![f] = Absent] /\ rated' = rated /\ db' = db
        /\ job' = Starting("removed", f, None)
    BY <1>7 DEF RemoveFile
  <2>2. job'["server"].at = "removed" /\ job'["server"].path = f /\ job'["reader"] = job["reader"]
    BY <1>4, <2>1
  <2>3. \A t \in Thread : job'[t].at \in {"add", "rate"} => job'[t] = job[t]
    BY <2>2 DEF Thread
  <2>4. disk'[f] = Absent /\ \A h \in Path : h # f => disk'[h] = disk[h]
    BY <1>1, <2>1
  <2>5. ASSUME NEW h \in Path, Hit(db[h], h)', ~db[h].old
        PROVE  db[h].rating = rated[h]
    <3>1. h # f
      BY <2>1, <2>4, <2>5 DEF Hit, Absent
    <3>2. Hit(db[h], h)
      BY <2>1, <2>4, <2>5, <3>1 DEF Hit
    <3> QED BY <1>3, <2>5, <3>2 DEF RatingsHeld
  <2>6. ASSUME NEW t \in Thread, job'[t].at \in {"add", "rate"}, ~job'[t].rec.old
        PROVE  job'[t].rec.rating = rated[job'[t].path]
    BY <2>3, <2>6 DEF RatingsHeld
  <2> QED BY <2>1, <2>2, <2>4, <2>5, <2>6 DEF RatingsHeld
<1>8. ASSUME NEW r \in Ratings \cup {0}, Rate(f, r) PROVE RatingsHeld'
  <2>1. /\ disk' = disk /\ db' = db /\ rated' = [rated EXCEPT ![f] = r]
        /\ job' = Overtaken({f}, Starting("rated", f, None))
    BY <1>8 DEF Rate
  <2>2. /\ job'["server"].at = "rated" /\ job'["server"].path = f
        /\ job'["reader"].at = job["reader"].at
        /\ \/ job'["reader"] = job["reader"] /\ ~(job["reader"].at = "add" /\ job["reader"].path = f)
           \/ job'["reader"].rec.old
    BY <1>4, <2>1, OvertakenIs
  <2>3. \A h \in Path : h # f => rated'[h] = rated[h]
    BY <1>1, <2>1
  <2>4. BeingRated(f)'
    BY <2>2 DEF BeingRated, IsMoving
  <2>5. ASSUME NEW h \in Path, Hit(db[h], h), ~db[h].old
        PROVE  db[h].rating = rated'[h] \/ BeingRated(h)'
    BY <1>3, <2>3, <2>4, <2>5 DEF RatingsHeld
  <2>6. ASSUME NEW t \in Thread, job'[t].at \in {"add", "rate"}, ~job'[t].rec.old
        PROVE  job'[t].rec.rating = rated'[job'[t].path]
    <3>1. t = "reader" /\ job'["reader"] = job["reader"] /\ job["reader"].at \in {"add", "rate"}
      BY <2>2, <2>6 DEF Thread
    <3>2. job["reader"].at = "add" /\ job["reader"].path \in Path
      BY <3>1, <1>1 DEF TypeOK, ReaderPlaces
    <3>3. job["reader"].path # f
      BY <2>2, <2>6, <3>1, <3>2
    <3> QED BY <1>1, <2>3, <2>6, <3>1, <3>2, <3>3 DEF RatingsHeld
  <2> QED BY <2>1, <2>2, <2>5, <2>6 DEF RatingsHeld, Hit
<1>9. ASSUME NEW g \in Path \ {f}, NEW one \in BOOLEAN, MoveFile(f, g, one) PROVE RatingsHeld'
  <2>1. /\ disk' = [disk EXCEPT ![f] = Absent, ![g] = disk[f]] /\ rated' = rated
        /\ job' = Starting(IF one THEN "unrate" ELSE "removed", f, g)
        /\ db' \in {db, [db EXCEPT ![f].old = TRUE]}
    BY <1>9 DEF MoveFile
  <2>2. /\ job'["server"].at \in {"removed", "unrate"} /\ job'["server"].path = f
        /\ job'["server"].to = g /\ job'["reader"] = job["reader"]
    BY <1>4, <2>1
  <2>3. disk'[f] = Absent /\ \A h \in Path : h \notin {f, g} => disk'[h] = disk[h]
    BY <1>1, <2>1
  <2>4. BeingRated(g)'
    BY <2>2 DEF BeingRated, IsMoving
  <2>5. ASSUME NEW h \in Path, Hit(db[h], h)', ~db'[h].old
        PROVE  db'[h].rating = rated[h] \/ BeingRated(h)'
    <3>1. h # f
      BY <2>3, <2>5 DEF Hit, Absent
    <3>2. db'[h] = db[h]
      BY <1>1, <2>1, <3>1
    <3>3. CASE h # g
      <4>1. Hit(db[h], h)
        BY <2>3, <2>5, <3>1, <3>2, <3>3 DEF Hit
      <4> QED BY <1>3, <2>5, <3>2, <4>1 DEF RatingsHeld
    <3> QED BY <2>4, <3>3
  <2>6. \A t \in Thread : job'[t].at \in {"add", "rate"} => job'[t] = job[t]
    BY <2>2 DEF Thread
  <2>7. ASSUME NEW t \in Thread, job'[t].at \in {"add", "rate"}, ~job'[t].rec.old
        PROVE  job'[t].rec.rating = rated[job'[t].path]
    BY <2>6, <2>7 DEF RatingsHeld
  <2> QED BY <2>1, <2>2, <2>3, <2>5, <2>7 DEF RatingsHeld
<1> QED BY <1>5, <1>6, <1>7, <1>8, <1>9

LEMMA StepRatings == TypeOK /\ RecordsTrue /\ RatingsHeld /\ [Next]_vars => RatingsHeld'
<1> SUFFICES ASSUME TypeOK, RecordsTrue, RatingsHeld, [Next]_vars PROVE RatingsHeld'
  OBVIOUS
<1>1. job \in [Thread -> Job] /\ "server" \in Thread /\ "reader" \in Thread
  BY DEF TypeOK, Thread
<1>2. ASSUME NEW t \in Thread, ReadRecord(t) \/ ReadTime(t) \/ ReadTags(t) \/ AddRecord(t)
      PROVE  RatingsHeld'
  BY <1>2, ReadingRatings
<1>3. CASE TakeRequest
  <2> DEFINE rq == Head(queues[InTurn(Waiting)])
             r == [Idle EXCEPT !.path = rq.path, !.client = InTurn(Waiting),
                               !.at = IF rq.write THEN "write" ELSE "get"]
             a == [job["reader"] EXCEPT !.at = "asleep"]
  <2>1. /\ disk' = disk /\ rated' = rated /\ db' = db
        /\ \/ job' = [job EXCEPT !["reader"] = a]
           \/ job' = [job EXCEPT !["reader"] = r]
    BY <1>3 DEF TakeRequest, Goes
  <2>2. r.at \in {"write", "get"} /\ a.at = "asleep"
    <3> HIDE DEF rq
    <3> QED BY <1>1, JobsAre DEF Job
  <2> HIDE DEF r, a
  <2>3. job'["server"] = job["server"] /\ job'["reader"] \in {a, r}
    BY <1>1, <2>1
  <2> QED BY <2>1, <2>2, <2>3, QuietRatings
<1>4. CASE WriteTags
  <2> DEFINE f == job["reader"].path  k == [job EXCEPT !["reader"].at = "get"]
  <2>1. /\ rated' = rated /\ db' = db /\ f \in Path
        /\ \/ disk[f] # Absent /\ Newest < MaxTags /\ disk' = Changed(f) /\ job' = k
           \/ disk' = disk /\ job' = Finished("reader")
    BY <1>1, <1>4 DEF WriteTags, Goes, Ready, TypeOK
  <2>2. k["reader"].at = "get" /\ k["server"] = job["server"]
    BY <1>1 DEF Job
  <2>3. Finished("reader")["reader"].at = "turn" /\ Finished("reader")["server"] = job["server"]
    BY <1>1, JobsAre DEF Finished
  <2> HIDE DEF k
  <2>4. CASE disk[f] # Absent /\ Newest < MaxTags /\ disk' = Changed(f) /\ job' = k
    BY <2>1, <2>2, <2>4, ChangedRatings
  <2>5. CASE disk' = disk /\ job' = Finished("reader")
    BY <2>1, <2>3, <2>5, QuietRatings
  <2> QED BY <2>1, <2>4, <2>5
<1>5. ASSUME NEW f \in Path, Touch(f) PROVE RatingsHeld'
  BY <1>5, ChangedRatings DEF Touch
<1>6. ASSUME NEW c \in Client, ClearQueue(c) PROVE RatingsHeld'
  BY <1>6, QuietRatings DEF ClearQueue
<1>7. CASE Destroy
  BY <1>7, QuietRatings DEF Destroy
<1>8. CASE UNCHANGED vars
  BY <1>8, QuietRatings DEF vars
<1>9. CASE RatingChanged \/ PutRating \/ RemoveRecord \/ RemoveRating \/ PlaceRating
  BY <1>9, ServerRatings
<1> QED BY <1>1, <1>2, <1>3, <1>4, <1>5, <1>6, <1>7, <1>8, <1>9, CallRatings
        DEF Next, ReaderStep, ServerStep

(* A record that counts as up to date has the file's rating once the       *)
(* server is done with it, but for readings that the rating overtook and   *)
(* records that a renaming left (tags_cache.cc:82-106, 229-300).  *)
THEOREM RatingIsTrue == Spec => []RatingTrue
<1>1. Init => CacheInv
  BY InitTypes, InitRecords, InitRatings DEF CacheInv
<1>2. CacheInv /\ [Next]_vars => CacheInv'
  BY StepTypes, StepRecords, StepRatings DEF CacheInv
<1>3. CacheInv => RatingTrue
  BY DEF CacheInv, RatingsHeld, RatingTrue, BeingRated, IsMoving
<1> QED BY <1>1, <1>2, <1>3, PTL DEF Spec

-----------------------------------------------------------------------------
(* Turns of the clients                                                    *)

(* The reader goes from its turn to a request only by taking one.          *)
LEMMA TurnTaken ==
  ASSUME TypeOK, Next, job["reader"].at = "turn", job'["reader"].at \in {"get", "write"}
  PROVE  TakeRequest
<1>1. job \in [Thread -> Job] /\ "server" \in Thread /\ "reader" \in Thread
  BY DEF TypeOK, Thread
<1>2. ~WriteTags /\ \A t \in Thread :
        ReadRecord(t) \/ ReadTime(t) \/ ReadTags(t) \/ AddRecord(t) => t = "server"
  BY DEF WriteTags, ReadRecord, ReadTime, ReadTags, AddRecord, Ready, Thread
<1>3. ASSUME job'["reader"] = job["reader"] \/ job'["reader"].at \in {"turn", "add"} PROVE FALSE
  BY <1>3
<1>4. ~(ReadRecord("server") \/ ReadTime("server") \/ ReadTags("server") \/ AddRecord("server"))
  <2>1. SUFFICES ASSUME \/ ReadRecord("server") \/ ReadTime("server")
                        \/ ReadTags("server") \/ AddRecord("server")
                 PROVE  job'["reader"] = job["reader"]
    BY <1>3
  <2>2. Finished("server")["reader"] = job["reader"]
    BY <1>1, FinishedIs
  <2> QED BY <1>1, <2>1, <2>2 DEF ReadRecord, ReadTime, ReadTags, AddRecord
<1>5. ~(RatingChanged \/ PutRating \/ RemoveRecord \/ RemoveRating \/ PlaceRating)
  <2>1. SUFFICES ASSUME RatingChanged \/ PutRating \/ RemoveRecord \/ RemoveRating \/ PlaceRating
                 PROVE  job'["reader"].at = job["reader"].at
    OBVIOUS
  <2>2. Finished("server")["reader"] = job["reader"] /\ JobTypes(Finished("server"))
    BY <1>1, FinishedIs, FinishedTyped
  <2>3. CASE RemoveRating \/ PlaceRating
    BY <2>3, RatingMovedIs
  <2>4. CASE RatingChanged \/ PutRating \/ RemoveRecord
    BY <1>1, <2>2, <2>4 DEF RatingChanged, PutRating, RemoveRecord, Goes
  <2> QED BY <2>1, <2>3, <2>4
<1>6. ASSUME NEW f \in Path PROVE ~Touch(f)
  BY <1>3 DEF Touch
<1>7. ASSUME NEW c \in Client PROVE ~ClearQueue(c)
  BY <1>3 DEF ClearQueue
<1>8. ~Destroy
  BY <1>3 DEF Destroy
<1>9. ASSUME NEW f \in Path,
             \/ \E c \in Client, w \in BOOLEAN : AddRequest(c, f, w)
             \/ GetImmediate(f) \/ RemoveFile(f)
             \/ \E r \in Ratings \cup {0} : Rate(f, r)
             \/ \E g \in Path \ {f}, one \in BOOLEAN : MoveFile(f, g, one)
      PROVE  FALSE
  <2>1. ASSUME NEW at \in {"get", "rated", "removed", "unrate"}, NEW to \in Path \cup {None}
        PROVE  Starting(at, f, to)["reader"] = job["reader"] /\ JobTypes(Starting(at, f, to))
    <3>1. at \in ServerPlaces
      BY DEF ServerPlaces
    <3> QED BY <3>1, StartingIs, StartingTyped
  <2>2. ASSUME NEW c \in Client, NEW w \in BOOLEAN, AddRequest(c, f, w) PROVE FALSE
    BY <2>2 DEF AddRequest, Woken
  <2>3. ~GetImmediate(f) /\ ~RemoveFile(f)
    BY <1>3, <2>1 DEF GetImmediate, RemoveFile
  <2>4. ASSUME NEW r \in Ratings \cup {0}, Rate(f, r) PROVE FALSE
    BY <2>1, <2>4, OvertakenIs DEF Rate
  <2>5. ASSUME NEW g \in Path \ {f}, NEW one \in BOOLEAN, MoveFile(f, g, one) PROVE FALSE
    BY <2>1, <2>5 DEF MoveFile
  <2> QED BY <1>9, <2>2, <2>3, <2>4, <2>5
<1> QED BY <1>1, <1>2, <1>4, <1>5, <1>6, <1>7, <1>8, <1>9 DEF Next, ReaderStep, ServerStep

(* No client is served twice in a row while another waits                  *)
(* (tags_cache.cc:108-141).                                                *)
THEOREM ServesInTurn == Spec => ServedInTurn
<1> DEFINE Served == job["reader"].at = "turn" /\ job'["reader"].at \in {"get", "write"} /\ last' = last
                       => \A c \in Client \ {last} : queues[c] = <<>>
<1>1. TypeOK /\ [Next]_vars => [Served]_vars
  <2> SUFFICES ASSUME TypeOK, Next, job["reader"].at = "turn",
                      job'["reader"].at \in {"get", "write"}, last' = last
               PROVE  \A c \in Client \ {last} : queues[c] = <<>>
    OBVIOUS
  <2>1. TakeRequest
    BY TurnTaken
  <2>2. Waiting # {}
    BY <2>1 DEF TakeRequest, Goes, TypeOK, Thread, Job
  <2>3. InTurn(Waiting) = last
    BY <2>1, <2>2 DEF TakeRequest
  <2> QED BY <2>2, <2>3, TurnIs
<1> HIDE DEF Served
<1>2. Spec => [][Served]_vars
  BY <1>1, TypeCorrect, PTL DEF Spec
<1> QED BY <1>2 DEF ServedInTurn, Served

-----------------------------------------------------------------------------
(* The file of ratings (RatingsFile), with its constants and variables; its *)
(* files to begin with are Files here.                                     *)

CONSTANTS BufSize, Char, Name, Files, MaxLen
VARIABLES file, call, pc, pos, n, fpos, k, digit, place, start, missed

Scan == INSTANCE RatingsFile WITH File <- Files

\* Names are not empty and have no newline in them (ratings.cc:24-25 leaves
\* those out); the end of a file is no character.
ConstantsOk ==
  /\ BufSize \in Nat \ {0} /\ MaxLen \in Nat
  /\ Scan!Digit \cup {Scan!NL, Scan!Space} \subseteq Char /\ Scan!Eof \notin Char
  /\ Name \subseteq Seq(Char \ {Scan!NL}) /\ <<>> \notin Name
  /\ Files \subseteq Seq(Char) /\ Scan!Calls # {}

Finding == {"line", "space", "name", "end", "skip"}

TypeInv ==
  /\ file \in Seq(Char) /\ call \in Scan!Calls
  /\ pc \in Finding \cup {"idle", "found", "none", "broken"}
  /\ pos \in Nat /\ n \in Nat /\ fpos \in Nat /\ k \in Nat /\ digit \in Scan!Digit
  /\ place \in Int /\ start \in Nat /\ missed \in Nat

\* fpos is short of the end of the chunk by what it missed, which is nothing
\* as long as the first chunk holds the whole file.
ChunkInv ==
  pc \in Finding =>
    /\ pos + n <= Len(file) /\ fpos + missed = pos + n
    /\ pos + n = 0 \/ BufSize <= pos + n \/ pos + n = Len(file)
    /\ missed > 0 => BufSize < Len(file)

NoneBefore(q) == \A p \in 0..(q - 1) : Scan!LineAt(p) => ~Scan!EntryAt(p)
NoNewline(from, to) == \A i \in from..to : file[i] # Scan!NL

LineInv == pc = "line" => Scan!LineAt(pos) /\ NoneBefore(pos)

\* In a line: the lines before it are no entries for the name.
InLine == Scan!LineAt(start) /\ NoneBefore(start) /\ start < pos /\ NoNewline(start + 1, pos)

DigitInv ==
  pc \in {"space", "name", "end"} =>
    InLine /\ file[start + 1] = digit

SpaceInv == pc = "space" => pos = start + 1

NameInv ==
  pc \in {"name", "end"} =>
    /\ pos = start + 2 + k /\ file[start + 2] = Scan!Space
    /\ \A i \in 1..k : file[start + 2 + i] = Scan!name[i]
    /\ IF pc = "end" THEN k = Len(Scan!name) /\ place = start - missed ELSE k < Len(Scan!name)

SkipInv == pc = "skip" => InLine /\ ~Scan!EntryAt(start)

FoundInv ==
  pc = "found" => place = start - missed /\ (missed > 0 => BufSize < Len(file))

ScanInv == /\ TypeInv /\ ChunkInv /\ LineInv /\ DigitInv /\ SpaceInv /\ NameInv /\ SkipInv
        /\ FoundInv /\ Scan!FirstEntry

-----------------------------------------------------------------------------
(* Reading a character goes on by one, and finds none only at the end.      *)
LEMMA GetCReads ==
  ASSUME ConstantsOk, TypeInv, ChunkInv, pc \in Finding, Scan!GetC, missed' = missed
  PROVE  /\ pos' \in Nat /\ n' \in Nat /\ fpos' \in Nat
         /\ pos' + n' <= Len(file) /\ fpos' + missed = pos' + n'
         /\ pos' + n' = 0 \/ BufSize <= pos' + n' \/ pos' + n' = Len(file)
         /\ Scan!NextChar = Scan!Eof => pos = Len(file)
         /\ Scan!NextChar # Scan!Eof =>
              /\ pos' = pos + 1 /\ pos < Len(file)
              /\ Scan!NextChar = file[pos + 1] /\ Scan!NextChar \in Char
<1> DEFINE m == IF n = 0 THEN Scan!Chunk(pos) ELSE n
<1>1. /\ pos \in Nat /\ n \in Nat /\ fpos \in Nat /\ Len(file) \in Nat /\ BufSize \in Nat \ {0}
      /\ pos + n <= Len(file) /\ fpos + missed = pos + n /\ missed \in Nat
      /\ pos + n = 0 \/ BufSize <= pos + n \/ pos + n = Len(file)
  BY DEF TypeInv, ChunkInv, ConstantsOk
<1>2. /\ fpos' = IF n = 0 THEN fpos + m ELSE fpos
      /\ pos' = IF m = 0 THEN pos ELSE pos + 1
      /\ n' = IF m = 0 THEN 0 ELSE m - 1
  BY DEF Scan!GetC
<1>3. /\ m \in Nat /\ pos + m <= Len(file)
      /\ n = 0 => (BufSize <= m \/ pos + m = Len(file))
      /\ m = 0 => n = 0 /\ pos = Len(file)
      /\ n # 0 => m = n
  BY <1>1 DEF Scan!Chunk
<1>4. m # 0 => file[pos + 1] \in Char /\ file[pos + 1] # Scan!Eof
  <2>1. file \in Seq(Char) /\ Scan!Eof \notin Char
    BY DEF TypeInv, ConstantsOk
  <2>2. m # 0 => pos + 1 \in 1..Len(file)
    BY <1>1, <1>3
  <2> QED BY <2>1, <2>2
<1>5. Scan!NextChar = IF m = 0 THEN Scan!Eof ELSE file[pos + 1]
  BY <1>1 DEF Scan!NextChar, Scan!Chunk
<1> HIDE DEF m
<1>6. CASE m = 0
  <2>1. /\ pos' = pos /\ n' = 0 /\ fpos' = fpos /\ Scan!NextChar = Scan!Eof
    BY <1>6, <1>1, <1>2, <1>3, <1>5
  <2> QED BY <2>1, <1>6, <1>1, <1>3
<1>7. CASE m # 0
  <2>1. /\ pos' = pos + 1 /\ n' = m - 1 /\ Scan!NextChar = file[pos + 1] /\ Scan!NextChar # Scan!Eof
        /\ Scan!NextChar \in Char
    BY <1>7, <1>2, <1>4, <1>5
  <2>2. fpos' \in Nat /\ fpos' + missed = pos + m
    BY <1>1, <1>2, <1>3
  <2>3. pos' + n' = pos + m /\ pos' \in Nat /\ n' \in Nat /\ pos < Len(file)
    BY <2>1, <1>1, <1>3, <1>7
  <2>4. pos + m = 0 \/ BufSize <= pos + m \/ pos + m = Len(file)
    BY <1>1, <1>3
  <2> QED BY <2>1, <2>2, <2>3, <2>4, <1>1, <1>3
<1> QED BY <1>6, <1>7

(* Past a line that is no entry, up to where the next may begin.            *)
LEMMA PastLine ==
  ASSUME start \in Nat, NEW q \in Nat, start < q,
         NoneBefore(start), ~Scan!EntryAt(start), NoNewline(start + 1, q - 1)
  PROVE  NoneBefore(q)
<1> SUFFICES ASSUME NEW p \in 0..(q - 1), Scan!LineAt(p)
             PROVE  ~Scan!EntryAt(p)
  BY DEF NoneBefore
<1>1. CASE p \in 0..(start - 1)
  BY <1>1 DEF NoneBefore
<1>2. CASE p = start
  BY <1>2
<1>3. CASE p \in (start + 1)..(q - 1)
  BY <1>3 DEF NoNewline, Scan!LineAt
<1> QED BY <1>1, <1>2, <1>3

(* Characters of a name and of the file.                                    *)
LEMMA Characters ==
  ASSUME ConstantsOk, TypeInv
  PROVE  /\ Scan!name \in Seq(Char \ {Scan!NL}) /\ Len(Scan!name) \in Nat \ {0}
         /\ \A i \in 1..Len(Scan!name) : Scan!name[i] # Scan!NL
         /\ file \in Seq(Char) /\ Len(file) \in Nat
<1>1. Scan!name \in Name
  BY DEF TypeInv, Scan!Calls, Scan!name
<1>2. Scan!name \in Seq(Char \ {Scan!NL}) /\ Scan!name # <<>>
  BY <1>1 DEF ConstantsOk
<1>3. Len(Scan!name) \in Nat \ {0}
  BY <1>2
<1>4. \A i \in 1..Len(Scan!name) : Scan!name[i] \in Char \ {Scan!NL}
  BY <1>2, <1>3
<1> QED BY <1>2, <1>3, <1>4 DEF TypeInv

LEMMA LineKeeps ==
  ASSUME ConstantsOk, ScanInv, Scan!Line
  PROVE  ScanInv'
<1> DEFINE c == Scan!NextChar
<1>1. /\ pc = "line" /\ start' = pos /\ missed' = missed /\ place' = place /\ k' = k
      /\ file' = file /\ call' = call
      /\ digit' = IF c \in Scan!Digit THEN c ELSE digit
      /\ pc' = IF c = Scan!Eof THEN "none" ELSE IF c = Scan!NL THEN "line"
               ELSE IF c \in Scan!Digit THEN "space" ELSE "skip"
  BY DEF Scan!Line
<1>2. /\ pos' \in Nat /\ n' \in Nat /\ fpos' \in Nat
      /\ pos' + n' <= Len(file) /\ fpos' + missed = pos' + n'
      /\ pos' + n' = 0 \/ BufSize <= pos' + n' \/ pos' + n' = Len(file)
      /\ c = Scan!Eof => pos = Len(file)
      /\ c # Scan!Eof => pos' = pos + 1 /\ pos < Len(file) /\ c = file[pos + 1] /\ c \in Char
  BY <1>1, GetCReads DEF ScanInv, Scan!Line, Finding
<1>3. TypeInv'
  BY <1>1, <1>2 DEF ScanInv, TypeInv, Finding
<1>4. ChunkInv'
  BY <1>1, <1>2 DEF ScanInv, ChunkInv, Finding
<1>5. Scan!LineAt(pos) /\ NoneBefore(pos) /\ pos \in Nat
  BY <1>1 DEF ScanInv, LineInv, TypeInv
<1>6. Len(file) \in Nat /\ Len(Scan!name) \in Nat \ {0}
  BY Characters DEF ScanInv
<1>7. CASE c = Scan!Eof
  <2>1. pc' = "none" /\ NoneBefore(Len(file))
    BY <1>1, <1>2, <1>5, <1>7
  <2>2. Scan!FirstEntry'
    BY <2>1, <1>1 DEF Scan!FirstEntry, NoneBefore, Scan!LineAt, Scan!EntryAt, Scan!name
  <2> QED BY <2>1, <2>2, <1>3, <1>4 DEF ScanInv, LineInv, DigitInv, SpaceInv, NameInv, SkipInv, FoundInv
<1>8. CASE c = Scan!NL
  <2>1. pc' = "line" /\ pos' = pos + 1 /\ file[pos + 1] = Scan!NL /\ c # Scan!Eof
    BY <1>1, <1>2, <1>8 DEF Scan!NL, Scan!Eof
  <2>2. ~Scan!EntryAt(pos)
    BY <2>1 DEF Scan!EntryAt, Scan!Digit, Scan!NL
  <2>3. NoneBefore(pos + 1) /\ Scan!LineAt(pos + 1)
    BY <2>1, <2>2, <1>5 DEF NoneBefore, Scan!LineAt
  <2>4. LineInv'
    BY <2>1, <2>3, <1>1 DEF LineInv, NoneBefore, Scan!LineAt, Scan!EntryAt, Scan!name
  <2> QED BY <2>1, <2>4, <1>3, <1>4 DEF ScanInv, DigitInv, SpaceInv, NameInv, SkipInv, FoundInv, Scan!FirstEntry
<1>9. CASE c # Scan!Eof /\ c # Scan!NL
  <2>1. /\ pc' = IF c \in Scan!Digit THEN "space" ELSE "skip"
        /\ start' = pos /\ pos' = pos + 1 /\ file[pos + 1] = c
    BY <1>1, <1>2, <1>9
  <2>2. InLine'
    BY <2>1, <1>1, <1>5, <1>9 DEF InLine, NoneBefore, NoNewline, Scan!LineAt, Scan!EntryAt, Scan!name
  <2>3. DigitInv' /\ SpaceInv'
    BY <2>1, <2>2, <1>1 DEF DigitInv, SpaceInv
  <2>4. SkipInv'
    <3>1. c \notin Scan!Digit => ~Scan!EntryAt(pos)
      BY <2>1 DEF Scan!EntryAt
    <3>2. c \notin Scan!Digit => ~Scan!EntryAt(start)'
      BY <3>1, <2>1, <1>1 DEF Scan!EntryAt, Scan!name
    <3> QED BY <3>2, <2>1, <2>2 DEF SkipInv
  <2> QED BY <2>1, <2>3, <2>4, <1>3, <1>4 DEF ScanInv, LineInv, NameInv, FoundInv, Scan!FirstEntry
<1> QED BY <1>7, <1>8, <1>9

LEMMA AfterDigitKeeps ==
  ASSUME ConstantsOk, ScanInv, Scan!AfterDigit
  PROVE  ScanInv'
<1> DEFINE c == Scan!NextChar
<1>1. /\ pc = "space" /\ start' = start /\ missed' = missed /\ place' = place /\ k' = 0
      /\ file' = file /\ call' = call /\ digit' = digit
      /\ pc' = IF c = Scan!Eof THEN "none" ELSE IF c = Scan!NL THEN "line"
               ELSE IF c = Scan!Space THEN "name" ELSE "skip"
  BY DEF Scan!AfterDigit
<1>2. /\ pos' \in Nat /\ n' \in Nat /\ fpos' \in Nat
      /\ pos' + n' <= Len(file) /\ fpos' + missed = pos' + n'
      /\ pos' + n' = 0 \/ BufSize <= pos' + n' \/ pos' + n' = Len(file)
      /\ c = Scan!Eof => pos = Len(file)
      /\ c # Scan!Eof => pos' = pos + 1 /\ pos < Len(file) /\ c = file[pos + 1] /\ c \in Char
  BY <1>1, GetCReads DEF ScanInv, Scan!AfterDigit, Finding
<1>3. TypeInv'
  BY <1>1, <1>2 DEF ScanInv, TypeInv, Finding
<1>4. ChunkInv'
  BY <1>1, <1>2 DEF ScanInv, ChunkInv, Finding
<1>5. /\ InLine /\ file[start + 1] = digit /\ pos = start + 1 /\ start \in Nat
      /\ NoneBefore(start) /\ NoNewline(start + 1, start + 1)
  BY <1>1 DEF ScanInv, DigitInv, SpaceInv, TypeInv, InLine
<1>6. Len(file) \in Nat /\ Len(Scan!name) \in Nat \ {0}
  BY Characters DEF ScanInv
<1>7. CASE c = Scan!Eof
  <2>1. pc' = "none" /\ ~Scan!EntryAt(start) /\ Len(file) = start + 1
    BY SMTT(20), <1>1, <1>2, <1>5, <1>6, <1>7 DEF Scan!EntryAt
  <2>2. NoneBefore(Len(file))
    BY <2>1, <1>5, <1>6, PastLine DEF NoNewline
  <2>3. Scan!FirstEntry'
    BY <2>1, <2>2, <1>1 DEF Scan!FirstEntry, NoneBefore, Scan!LineAt, Scan!EntryAt, Scan!name
  <2> QED BY <2>1, <2>3, <1>3, <1>4 DEF ScanInv, LineInv, DigitInv, SpaceInv, NameInv, SkipInv, FoundInv
<1>8. CASE c = Scan!NL
  <2>1. pc' = "line" /\ pos' = start + 2 /\ file[start + 2] = Scan!NL /\ c # Scan!Eof
    BY <1>1, <1>2, <1>5, <1>8 DEF Scan!NL, Scan!Eof
  <2>2. ~Scan!EntryAt(start)
    BY <2>1 DEF Scan!EntryAt, Scan!Space, Scan!NL
  <2>3. NoneBefore(start + 2) /\ Scan!LineAt(start + 2)
    BY <2>1, <2>2, <1>5, PastLine DEF Scan!LineAt
  <2>4. LineInv'
    BY <2>1, <2>3, <1>1 DEF LineInv, NoneBefore, Scan!LineAt, Scan!EntryAt, Scan!name
  <2> QED BY <2>1, <2>4, <1>3, <1>4 DEF ScanInv, DigitInv, SpaceInv, NameInv, SkipInv, FoundInv, Scan!FirstEntry
<1>9. CASE c # Scan!Eof /\ c # Scan!NL
  <2>1. /\ pc' = IF c = Scan!Space THEN "name" ELSE "skip"
        /\ pos' = start + 2 /\ file[start + 2] = c
    BY <1>1, <1>2, <1>5, <1>9
  <2>2. InLine'
    <3>1. NoNewline(start + 1, start + 2) /\ start < start + 2
      BY <2>1, <1>5, <1>9 DEF NoNewline
    <3>2. Scan!LineAt(start) /\ NoneBefore(start)
      BY <1>5 DEF InLine
    <3> QED BY <3>1, <3>2, <2>1, <1>1 DEF InLine, NoneBefore, NoNewline, Scan!LineAt, Scan!EntryAt, Scan!name
  <2>3. DigitInv' /\ NameInv'
    BY <2>1, <2>2, <1>1, <1>5, <1>6 DEF DigitInv, NameInv, Scan!name
  <2>4. SkipInv'
    <3>1. c # Scan!Space => ~Scan!EntryAt(start)
      BY <2>1 DEF Scan!EntryAt
    <3>2. c # Scan!Space => ~Scan!EntryAt(start)'
      BY <3>1, <2>1, <1>1 DEF Scan!EntryAt, Scan!name
    <3> QED BY <3>2, <2>1, <2>2 DEF SkipInv
  <2> QED BY <2>1, <2>3, <2>4, <1>3, <1>4 DEF ScanInv, LineInv, SpaceInv, FoundInv, Scan!FirstEntry
<1> QED BY <1>7, <1>8, <1>9

(* Comparing never passes the end of the chunk or of the name.              *)
LEMMA ComparedIs ==
  ASSUME ConstantsOk, ScanInv, pc = "name"
  PROVE  /\ Scan!Compared \in Nat /\ Scan!Compared <= n /\ k + Scan!Compared <= Len(Scan!name)
         /\ k + Scan!Compared < Len(Scan!name) => Scan!Compared = n
         /\ InLine /\ file[start + 1] = digit /\ file[start + 2] = Scan!Space
         /\ pos = start + 2 + k /\ start \in Nat /\ n \in Nat /\ k \in Nat /\ k < Len(Scan!name)
         /\ \A i \in 1..k : file[start + 2 + i] = Scan!name[i]
         /\ Scan!Matches(Scan!Compared) => \A i \in 1..(k + Scan!Compared) : file[start + 2 + i] = Scan!name[i]
         /\ Scan!Matches(Scan!Compared) => NoNewline(start + 1, pos + Scan!Compared)
         /\ pos + n <= Len(file) /\ fpos + missed = pos + n /\ fpos \in Nat /\ missed \in Nat
<1>1. /\ InLine /\ file[start + 1] = digit /\ file[start + 2] = Scan!Space
      /\ pos = start + 2 + k /\ start \in Nat /\ n \in Nat /\ k \in Nat /\ k < Len(Scan!name)
      /\ \A i \in 1..k : file[start + 2 + i] = Scan!name[i]
      /\ pos + n <= Len(file) /\ fpos + missed = pos + n /\ fpos \in Nat /\ missed \in Nat
  BY DEF ScanInv, DigitInv, NameInv, TypeInv, ChunkInv, Finding
<1>2. Len(Scan!name) \in Nat /\ \A i \in 1..Len(Scan!name) : Scan!name[i] # Scan!NL
  BY Characters DEF ScanInv
<1>3. /\ Scan!Compared \in Nat /\ Scan!Compared <= n /\ k + Scan!Compared <= Len(Scan!name)
      /\ k + Scan!Compared < Len(Scan!name) => Scan!Compared = n
  BY <1>1, <1>2 DEF Scan!Compared
<1>4. ASSUME Scan!Matches(Scan!Compared)
      PROVE  /\ \A i \in 1..(k + Scan!Compared) : file[start + 2 + i] = Scan!name[i]
             /\ NoNewline(start + 1, pos + Scan!Compared)
  <2> DEFINE m == Scan!Compared
  <2>1. \A i \in 1..m : Scan!name[k + i] = file[pos + i]
    BY <1>4 DEF Scan!Matches
  <2>2. m \in Nat /\ k + m <= Len(Scan!name)
    BY <1>3
  <2> HIDE DEF m
  <2>3. ASSUME NEW i \in 1..(k + m)
        PROVE  file[start + 2 + i] = Scan!name[i]
    <3>1. CASE i \in 1..k
      BY <3>1, <1>1
    <3>2. CASE i \in (k + 1)..(k + m)
      <4>1. i - k \in 1..m /\ k + (i - k) = i /\ pos + (i - k) = start + 2 + i
        BY <3>2, <1>1, <2>2
      <4> QED BY <4>1, <2>1
    <3> QED BY <2>3, <2>2, <1>1, <3>1, <3>2
  <2>4. ASSUME NEW j \in (start + 1)..(pos + m)
        PROVE  file[j] # Scan!NL
    <3>1. CASE j \in (start + 1)..pos
      BY <3>1, <1>1 DEF InLine, NoNewline
    <3>2. CASE j \in (pos + 1)..(pos + m)
      <4>1. /\ j - start - 2 \in 1..(k + m) /\ start + 2 + (j - start - 2) = j
            /\ j - start - 2 \in 1..Len(Scan!name)
        BY <3>2, <1>1, <1>2, <2>2
      <4> QED BY <4>1, <2>3, <1>2
    <3> QED BY <2>4, <2>2, <1>1, <3>1, <3>2
  <2>5. NoNewline(start + 1, pos + m)
    BY <2>4 DEF NoNewline
  <2> QED BY <2>3, <2>5 DEF m
<1> QED BY <1>1, <1>3, <1>4

LEMMA MismatchKeeps ==
  ASSUME ConstantsOk, ScanInv, Scan!Mismatch
  PROVE  ScanInv'
<1>1. /\ pc = "name" /\ ~Scan!Matches(Scan!Compared) /\ pc' = "skip"
      /\ file' = file /\ call' = call /\ pos' = pos /\ n' = n /\ fpos' = fpos /\ k' = k
      /\ digit' = digit /\ place' = place /\ start' = start /\ missed' = missed
  BY DEF Scan!Mismatch, Scan!scan
<1>2. PICK i \in 1..Scan!Compared : Scan!name[k + i] # file[pos + i]
  BY <1>1 DEF Scan!Matches
<1>3. k + i \in 1..Len(Scan!name) /\ file[start + 2 + (k + i)] # Scan!name[k + i]
  <2>1. /\ Scan!Compared \in Nat /\ k + Scan!Compared <= Len(Scan!name) /\ k \in Nat /\ start \in Nat
        /\ pos = start + 2 + k
    BY <1>1, ComparedIs
  <2>2. Len(Scan!name) \in Nat
    BY Characters DEF ScanInv
  <2>3. k + i \in 1..Len(Scan!name) /\ start + 2 + (k + i) = pos + i
    BY <2>1, <2>2
  <2> QED BY <2>3, <1>2
<1>4. ~Scan!EntryAt(start)
  BY <1>3 DEF Scan!EntryAt
<1>5. SkipInv'
  BY <1>1, <1>4, ComparedIs DEF SkipInv, InLine, NoneBefore, NoNewline, Scan!LineAt, Scan!EntryAt, Scan!name
<1>6. TypeInv' /\ ChunkInv'
  BY <1>1 DEF ScanInv, TypeInv, ChunkInv, Finding
<1> QED BY <1>1, <1>5, <1>6 DEF ScanInv, LineInv, DigitInv, SpaceInv, NameInv, FoundInv, Scan!FirstEntry

(* Reading on after the first line began: what fpos misses does not lie in  *)
(* the first chunk.                                                         *)
LEMMA ReadsOn ==
  ASSUME ConstantsOk, TypeInv, ChunkInv, pc \in Finding, 0 < pos, Scan!ReadOn(pos + n), fpos' = fpos
  PROVE  /\ pos' = pos + n /\ n' = Scan!Chunk(pos + n) /\ pos' \in Nat /\ n' \in Nat /\ missed' \in Nat
         /\ pos' + n' <= Len(file) /\ fpos' + missed' = pos' + n'
         /\ BufSize <= pos' + n' \/ pos' + n' = Len(file)
         /\ missed' > 0 => BufSize < Len(file)
         /\ Scan!Chunk(pos + n) = 0 => pos + n = Len(file)
<1>1. /\ pos \in Nat /\ n \in Nat /\ fpos \in Nat /\ missed \in Nat
      /\ Len(file) \in Nat /\ BufSize \in Nat \ {0}
  BY DEF TypeInv, ConstantsOk
<1>2. /\ pos + n <= Len(file) /\ fpos + missed = pos + n
      /\ BufSize <= pos + n \/ pos + n = Len(file)
      /\ missed > 0 => BufSize < Len(file)
  BY <1>1 DEF ChunkInv
<1>3. /\ Scan!Chunk(pos + n) \in Nat /\ pos + n + Scan!Chunk(pos + n) <= Len(file)
      /\ Scan!Chunk(pos + n) = 0 => pos + n = Len(file)
      /\ Scan!Chunk(pos + n) > 0 => pos + n < Len(file)
  <2> DEFINE q == pos + n
             l == Len(file)
  <2>1. q \in Nat /\ l \in Nat /\ q <= l /\ BufSize \in Nat \ {0}
    BY <1>1, <1>2
  <2>2. Scan!Chunk(q) = IF BufSize < l - q THEN BufSize ELSE l - q
    BY DEF Scan!Chunk
  <2> HIDE DEF q, l
  <2>3. /\ Scan!Chunk(q) \in Nat /\ q + Scan!Chunk(q) <= l
        /\ Scan!Chunk(q) = 0 => q = l
        /\ Scan!Chunk(q) > 0 => q < l
    BY <2>1, <2>2
  <2> QED BY <2>3 DEF q, l
<1>4. pos' = pos + n /\ n' = Scan!Chunk(pos + n) /\ missed' = missed + Scan!Chunk(pos + n)
  BY DEF Scan!ReadOn
<1> QED BY <1>1, <1>2, <1>3, <1>4

LEMMA NextChunkKeeps ==
  ASSUME ConstantsOk, ScanInv, Scan!NextChunk
  PROVE  ScanInv'
<1>1. /\ pc = "name" /\ Scan!Matches(Scan!Compared) /\ k + Scan!Compared < Len(Scan!name)
      /\ k' = k + Scan!Compared /\ Scan!ReadOn(pos + Scan!Compared)
      /\ pc' = IF Scan!Chunk(pos + Scan!Compared) = 0 THEN "none" ELSE "name"
      /\ file' = file /\ call' = call /\ fpos' = fpos /\ digit' = digit /\ place' = place
      /\ start' = start
  BY DEF Scan!NextChunk
<1>2. /\ Scan!Compared = n /\ InLine /\ file[start + 1] = digit /\ file[start + 2] = Scan!Space
      /\ pos = start + 2 + k /\ start \in Nat /\ n \in Nat /\ k \in Nat
      /\ \A i \in 1..(k + n) : file[start + 2 + i] = Scan!name[i]
      /\ NoNewline(start + 1, pos + n)
  BY <1>1, ComparedIs
<1>3. /\ pos' = pos + n /\ n' = Scan!Chunk(pos + n) /\ pos' \in Nat /\ n' \in Nat /\ missed' \in Nat
      /\ pos' + n' <= Len(file) /\ fpos' + missed' = pos' + n'
      /\ BufSize <= pos' + n' \/ pos' + n' = Len(file)
      /\ missed' > 0 => BufSize < Len(file)
      /\ Scan!Chunk(pos + n) = 0 => pos + n = Len(file)
  BY <1>1, <1>2, ReadsOn DEF ScanInv, Finding
<1>4. Len(file) \in Nat /\ Len(Scan!name) \in Nat \ {0}
  BY Characters DEF ScanInv
<1>5. TypeInv' /\ ChunkInv'
  BY <1>1, <1>2, <1>3 DEF ScanInv, TypeInv, ChunkInv, Finding
<1>6. CASE pc' = "none"
  <2>1. Len(file) = pos + n
    BY <1>1, <1>2, <1>3, <1>6
  <2>2. ~Scan!EntryAt(start)
    BY <2>1, <1>1, <1>2, <1>4 DEF Scan!EntryAt
  <2>3. NoneBefore(start) /\ start < Len(file) /\ NoNewline(start + 1, Len(file) - 1)
    BY SMTT(20), <2>1, <1>2, <1>4 DEF InLine, NoNewline
  <2>4. NoneBefore(Len(file))
    BY <2>2, <2>3, <1>2, <1>4, PastLine
  <2>5. Scan!FirstEntry'
    BY <2>4, <1>1, <1>6 DEF Scan!FirstEntry, NoneBefore, Scan!LineAt, Scan!EntryAt, Scan!name
  <2> QED BY <2>5, <1>5, <1>6 DEF ScanInv, LineInv, DigitInv, SpaceInv, NameInv, SkipInv, FoundInv
<1>7. CASE pc' = "name"
  <2>1. InLine'
    <3>1. Scan!LineAt(start) /\ NoneBefore(start) /\ start < pos + n
      BY <1>2 DEF InLine
    <3> QED BY <3>1, <1>1, <1>2, <1>3 DEF InLine, NoneBefore, NoNewline, Scan!LineAt, Scan!EntryAt, Scan!name
  <2>2. DigitInv'
    BY <2>1, <1>1, <1>2, <1>7 DEF DigitInv
  <2>3. /\ k' = k + n /\ k + n < Len(Scan!name) /\ start' = start
        /\ pos' = start + 2 + (k + n)
    <3> DEFINE m == Scan!Compared
               l == Len(Scan!name)
    <3>1. m = n /\ k' = k + m /\ k + m < l /\ start' = start /\ pos' = pos + n
      BY <1>1, <1>2, <1>3
    <3>2. pos = start + 2 + k /\ start \in Nat /\ n \in Nat /\ k \in Nat
      BY <1>2
    <3> HIDE DEF m
    <3> QED BY <3>1, <3>2
  <2>4. /\ file'[start + 2] = Scan!Space
        /\ \A i \in 1..(k + n) : file'[start + 2 + i] = (Scan!name[i])'
        /\ Len(Scan!name)' = Len(Scan!name)
    BY <1>1, <1>2 DEF Scan!name
  <2>5. NameInv'
    BY <2>3, <2>4, <1>7 DEF NameInv
  <2> QED BY <2>2, <2>5, <1>5, <1>7 DEF ScanInv, LineInv, SpaceInv, SkipInv, FoundInv, Scan!FirstEntry
<1> QED BY <1>1, <1>6, <1>7

LEMMA WholeNameKeeps ==
  ASSUME ConstantsOk, ScanInv, Scan!WholeName
  PROVE  ScanInv'
<1>1. /\ pc = "name" /\ Scan!Matches(Scan!Compared) /\ k + Scan!Compared = Len(Scan!name)
      /\ k' = Len(Scan!name) /\ pos' = pos + Scan!Compared /\ n' = n - Scan!Compared
      /\ place' = fpos - (n - Scan!Compared) - Len(Scan!name) - 2 /\ pc' = "end"
      /\ file' = file /\ call' = call /\ fpos' = fpos /\ digit' = digit /\ start' = start
      /\ missed' = missed
  BY DEF Scan!WholeName
<1>2. /\ Scan!Compared \in Nat /\ Scan!Compared <= n /\ InLine
      /\ file[start + 1] = digit /\ file[start + 2] = Scan!Space
      /\ pos = start + 2 + k /\ start \in Nat /\ n \in Nat /\ k \in Nat
      /\ \A i \in 1..(k + Scan!Compared) : file[start + 2 + i] = Scan!name[i]
      /\ NoNewline(start + 1, pos + Scan!Compared)
      /\ pos + n <= Len(file) /\ fpos + missed = pos + n /\ fpos \in Nat /\ missed \in Nat
  BY <1>1, ComparedIs
<1>3. Len(file) \in Nat /\ Len(Scan!name) \in Nat \ {0}
  BY Characters DEF ScanInv
<1>4. /\ pos' = start' + 2 + k' /\ place' = start' - missed' /\ pos' + n' = pos + n
      /\ pos' \in Nat /\ n' \in Nat /\ k' \in Nat /\ place' \in Int
  <2> DEFINE m == Scan!Compared
             l == Len(Scan!name)
  <2>1. /\ m \in Nat /\ m <= n /\ l \in Nat /\ k + m = l /\ pos = start + 2 + k
        /\ start \in Nat /\ n \in Nat /\ k \in Nat /\ fpos + missed = pos + n
        /\ fpos \in Nat /\ missed \in Nat
    BY <1>1, <1>2, <1>3
  <2>2. /\ k' = l /\ pos' = pos + m /\ n' = n - m /\ place' = fpos - (n - m) - l - 2
        /\ start' = start /\ missed' = missed
    BY <1>1
  <2> HIDE DEF m, l
  <2> QED BY <2>1, <2>2
<1>5. TypeInv' /\ ChunkInv'
  BY <1>1, <1>2, <1>4 DEF ScanInv, TypeInv, ChunkInv, Finding
<1>6. InLine'
  <2>1. Scan!LineAt(start) /\ NoneBefore(start) /\ start < pos + Scan!Compared
    BY <1>2 DEF InLine
  <2> QED BY <2>1, <1>1, <1>2 DEF InLine, NoneBefore, NoNewline, Scan!LineAt, Scan!EntryAt, Scan!name
<1>7. DigitInv'
  BY <1>6, <1>1, <1>2 DEF DigitInv
<1>8. NameInv'
  BY <1>1, <1>2, <1>4 DEF NameInv, Scan!name
<1> QED BY <1>1, <1>5, <1>7, <1>8 DEF ScanInv, LineInv, SpaceInv, SkipInv, FoundInv, Scan!FirstEntry

LEMMA AfterNameKeeps ==
  ASSUME ConstantsOk, ScanInv, Scan!AfterName
  PROVE  ScanInv'
<1> DEFINE c == Scan!NextChar
<1>1. /\ pc = "end" /\ start' = start /\ missed' = missed /\ place' = place /\ k' = k
      /\ file' = file /\ call' = call /\ digit' = digit
      /\ pc' = IF c \in {Scan!Eof, Scan!NL} THEN "found" ELSE "skip"
  BY DEF Scan!AfterName
<1>2. /\ pos' \in Nat /\ n' \in Nat /\ fpos' \in Nat
      /\ pos' + n' <= Len(file) /\ fpos' + missed = pos' + n'
      /\ pos' + n' = 0 \/ BufSize <= pos' + n' \/ pos' + n' = Len(file)
      /\ c = Scan!Eof => pos = Len(file)
      /\ c # Scan!Eof => pos' = pos + 1 /\ pos < Len(file) /\ c = file[pos + 1] /\ c \in Char
  BY <1>1, GetCReads DEF ScanInv, Scan!AfterName, Finding
<1>3. TypeInv'
  BY <1>1, <1>2 DEF ScanInv, TypeInv, Finding
<1>4. ChunkInv'
  BY <1>1, <1>2 DEF ScanInv, ChunkInv, Finding
<1>5. /\ InLine /\ file[start + 1] = digit /\ pos = start + 2 + Len(Scan!name) /\ start \in Nat
      /\ file[start + 2] = Scan!Space /\ \A i \in 1..Len(Scan!name) : file[start + 2 + i] = Scan!name[i]
      /\ place = start - missed /\ (missed > 0 => BufSize < Len(file)) /\ digit \in Scan!Digit
      /\ pos <= Len(file) /\ n \in Nat
  <2>1. InLine /\ file[start + 1] = digit
    BY <1>1 DEF ScanInv, DigitInv
  <2>2. /\ pos = start + 2 + k /\ file[start + 2] = Scan!Space /\ k = Len(Scan!name)
        /\ \A i \in 1..k : file[start + 2 + i] = Scan!name[i]
        /\ place = start - missed
    BY <1>1 DEF ScanInv, NameInv
  <2>3. start \in Nat /\ digit \in Scan!Digit /\ n \in Nat /\ pos \in Nat
    BY DEF ScanInv, TypeInv
  <2>4. Len(file) \in Nat
    BY Characters DEF ScanInv
  <2>5. pos + n <= Len(file) /\ (missed > 0 => BufSize < Len(file))
    BY <1>1 DEF ScanInv, ChunkInv, Finding
  <2>6. pos <= Len(file)
    BY <2>3, <2>4, <2>5
  <2> QED BY <2>1, <2>2, <2>3, <2>5, <2>6
<1>6. Len(file) \in Nat /\ Len(Scan!name) \in Nat \ {0}
  BY Characters DEF ScanInv
<1>7. CASE c \in {Scan!Eof, Scan!NL}
  <2>1. pc' = "found"
    BY <1>1, <1>7
  <2>2. Scan!EntryAt(start)
    <3>1. pos = start + 2 + Len(Scan!name) /\ start \in Nat /\ Len(Scan!name) \in Nat
      BY <1>5, <1>6
    <3>2. pos = Len(file) \/ file[pos + 1] = Scan!NL
      BY <1>2, <1>7
    <3>3. pos + 1 = start + 3 + Len(Scan!name)
      BY <3>1
    <3>4. start + 2 + Len(Scan!name) = Len(file) \/ file[start + 3 + Len(Scan!name)] = Scan!NL
      BY <3>1, <3>2, <3>3
    <3> QED BY <3>4, <1>5, <1>6 DEF Scan!EntryAt
  <2>3. Scan!FirstEntry'
    BY <2>1, <2>2, <1>1, <1>5 DEF Scan!FirstEntry, InLine, NoneBefore, Scan!LineAt, Scan!EntryAt, Scan!name
  <2>4. FoundInv'
    BY <1>1, <1>5 DEF FoundInv
  <2> QED BY <2>1, <2>3, <2>4, <1>3, <1>4 DEF ScanInv, LineInv, DigitInv, SpaceInv, NameInv, SkipInv
<1>8. CASE c \notin {Scan!Eof, Scan!NL}
  <2>1. pc' = "skip" /\ pos' = pos + 1 /\ pos < Len(file) /\ file[pos + 1] # Scan!NL
    BY <1>1, <1>2, <1>8
  <2>2. ~Scan!EntryAt(start)
    BY <2>1, <1>5, <1>6 DEF Scan!EntryAt
  <2>3. InLine'
    <3>1. Scan!LineAt(start) /\ NoneBefore(start) /\ start < pos + 1 /\ NoNewline(start + 1, pos)
      BY <1>5, <1>6 DEF InLine
    <3>2. pos \in Nat
      BY <1>5, <1>6
    <3>3. NoNewline(start + 1, pos + 1)
      BY <3>1, <3>2, <2>1 DEF NoNewline
    <3> QED BY <3>1, <3>3, <2>1, <1>1 DEF InLine, NoneBefore, NoNewline, Scan!LineAt, Scan!EntryAt, Scan!name
  <2>4. SkipInv'
    BY <2>1, <2>2, <2>3, <1>1 DEF SkipInv, Scan!EntryAt, Scan!name
  <2> QED BY <2>1, <2>4, <1>3, <1>4 DEF ScanInv, LineInv, DigitInv, SpaceInv, NameInv, FoundInv, Scan!FirstEntry
<1> QED BY <1>7, <1>8

LEMMA SkipToNewlineKeeps ==
  ASSUME ConstantsOk, ScanInv, Scan!SkipToNewline
  PROVE  ScanInv'
<1>1. PICK i \in 1..n : Scan!NewlineAt(i) /\ pos' = pos + i /\ n' = n - i
  BY DEF Scan!SkipToNewline
<1>2. /\ pc = "skip" /\ pc' = "line" /\ file' = file /\ call' = call /\ fpos' = fpos /\ k' = k
      /\ digit' = digit /\ place' = place /\ start' = start /\ missed' = missed
  BY DEF Scan!SkipToNewline
<1>3. /\ InLine /\ ~Scan!EntryAt(start) /\ start \in Nat /\ pos \in Nat /\ n \in Nat
      /\ pos + n <= Len(file) /\ fpos + missed = pos + n
      /\ pos + n = 0 \/ BufSize <= pos + n \/ pos + n = Len(file)
      /\ missed > 0 => BufSize < Len(file)
  BY <1>2 DEF ScanInv, SkipInv, TypeInv, ChunkInv, Finding
<1>4. pos' \in Nat /\ n' \in Nat /\ pos' + n' = pos + n
  BY <1>1, <1>3
<1>5. TypeInv' /\ ChunkInv'
  BY <1>2, <1>3, <1>4 DEF ScanInv, TypeInv, ChunkInv, Finding
<1>6. NoNewline(start + 1, pos + i - 1)
  <2> SUFFICES ASSUME NEW j \in (start + 1)..(pos + i - 1)
               PROVE  file[j] # Scan!NL
    BY DEF NoNewline
  <2>1. CASE j \in (start + 1)..pos
    BY <2>1, <1>3 DEF InLine, NoNewline
  <2>2. CASE j \in (pos + 1)..(pos + i - 1)
    <3>1. j - pos \in 1..(i - 1) /\ pos + (j - pos) = j
      BY <2>2, <1>1, <1>3
    <3> QED BY <3>1, <1>1 DEF Scan!NewlineAt
  <2> QED BY <2>1, <2>2, <1>1, <1>3
<1>7. start < pos + i /\ pos + i \in Nat
  BY <1>1, <1>3 DEF InLine
<1>8. NoneBefore(pos + i)
  BY <1>3, <1>6, <1>7, PastLine DEF InLine
<1>9. Scan!LineAt(pos + i)
  BY <1>1 DEF Scan!NewlineAt, Scan!LineAt
<1>10. LineInv'
  BY <1>1, <1>2, <1>8, <1>9 DEF LineInv, NoneBefore, Scan!LineAt, Scan!EntryAt, Scan!name
<1> QED BY <1>2, <1>5, <1>10 DEF ScanInv, DigitInv, SpaceInv, NameInv, SkipInv, FoundInv, Scan!FirstEntry

LEMMA SkipChunkKeeps ==
  ASSUME ConstantsOk, ScanInv, Scan!SkipChunk
  PROVE  ScanInv'
<1>1. /\ pc = "skip" /\ \A i \in 1..n : file[pos + i] # Scan!NL
      /\ Scan!ReadOn(pos + n) /\ pc' = IF Scan!Chunk(pos + n) = 0 THEN "none" ELSE "skip"
      /\ file' = file /\ call' = call /\ fpos' = fpos /\ k' = k
      /\ digit' = digit /\ place' = place /\ start' = start
  BY DEF Scan!SkipChunk
<1>2. InLine /\ ~Scan!EntryAt(start) /\ start \in Nat /\ pos \in Nat /\ n \in Nat
  BY <1>1 DEF ScanInv, SkipInv, TypeInv
<1>3. 0 < pos /\ start < pos + n
  BY <1>2 DEF InLine
<1>4. /\ pos' = pos + n /\ n' = Scan!Chunk(pos + n) /\ pos' \in Nat /\ n' \in Nat /\ missed' \in Nat
      /\ pos' + n' <= Len(file) /\ fpos' + missed' = pos' + n'
      /\ BufSize <= pos' + n' \/ pos' + n' = Len(file)
      /\ missed' > 0 => BufSize < Len(file)
      /\ Scan!Chunk(pos + n) = 0 => pos + n = Len(file)
  BY <1>1, <1>3, ReadsOn DEF ScanInv, Finding
<1>5. TypeInv' /\ ChunkInv'
  BY <1>1, <1>4 DEF ScanInv, TypeInv, ChunkInv, Finding
<1>6. NoNewline(start + 1, pos + n)
  <2> SUFFICES ASSUME NEW j \in (start + 1)..(pos + n)
               PROVE  file[j] # Scan!NL
    BY DEF NoNewline
  <2>1. CASE j \in (start + 1)..pos
    BY <2>1, <1>2 DEF InLine, NoNewline
  <2>2. CASE j \in (pos + 1)..(pos + n)
    <3>1. j - pos \in 1..n /\ pos + (j - pos) = j
      BY <2>2, <1>2
    <3> QED BY <3>1, <1>1
  <2> QED BY <2>1, <2>2, <1>2
<1>7. CASE pc' = "none"
  <2>1. Len(file) = pos + n
    BY <1>1, <1>4, <1>7
  <2>2. NoNewline(start + 1, Len(file) - 1) /\ start < Len(file) /\ Len(file) \in Nat
    BY <2>1, <1>2, <1>3, <1>6 DEF NoNewline
  <2>3. NoneBefore(Len(file))
    BY <2>2, <1>2, PastLine DEF InLine
  <2>4. Scan!FirstEntry'
    BY <2>3, <1>1, <1>7 DEF Scan!FirstEntry, NoneBefore, Scan!LineAt, Scan!EntryAt, Scan!name
  <2> QED BY <2>4, <1>5, <1>7 DEF ScanInv, LineInv, DigitInv, SpaceInv, NameInv, SkipInv, FoundInv
<1>8. CASE pc' = "skip"
  <2>1. Scan!LineAt(start) /\ NoneBefore(start)
    BY <1>2 DEF InLine
  <2>2. InLine'
    BY <2>1, <1>1, <1>3, <1>4, <1>6 DEF InLine, NoneBefore, NoNewline, Scan!LineAt, Scan!EntryAt, Scan!name
  <2>3. SkipInv'
    BY <2>2, <1>1, <1>2 DEF SkipInv, Scan!EntryAt, Scan!name
  <2> QED BY <2>3, <1>5, <1>8 DEF ScanInv, LineInv, DigitInv, SpaceInv, NameInv, FoundInv, Scan!FirstEntry
<1> QED BY <1>1, <1>7, <1>8

(* What is done with the answer leaves a file of characters, and the next   *)
(* search begins at its beginning.                                          *)
LEMMA FileOfCharacters ==
  ASSUME ConstantsOk, ScanInv, Scan!Answer
  PROVE  file' \in Seq(Char)
<1>1. /\ file \in Seq(Char) /\ Len(file) \in Nat /\ Scan!name \in Seq(Char \ {Scan!NL})
      /\ call.rating \in Scan!Digit /\ Scan!Digit \cup {Scan!NL, Scan!Space} \subseteq Char
  BY Characters DEF ScanInv, TypeInv, Scan!Calls, ConstantsOk
<1>2. CASE UNCHANGED file
  BY <1>1, <1>2
<1>3. CASE Scan!AppendRating
  <2>1. Scan!name \in Seq(Char)
    BY <1>1
  <2>2. <<call.rating, Scan!Space>> \in Seq(Char) /\ <<Scan!NL>> \in Seq(Char)
    BY <1>1
  <2>3. Scan!Entry(call.rating, Scan!name) \in Seq(Char)
    BY <2>1, <2>2, ConcatProperties DEF Scan!Entry
  <2> QED BY <2>3, <1>1, <1>3, ConcatProperties DEF Scan!AppendRating, Scan!Returns
<1>4. CASE Scan!Overwrite
  <2>1. [i \in 1..Len(file) |-> IF i = place + 1 THEN call.rating ELSE file[i]] \in Seq(Char)
    BY <1>1
  <2> QED BY <2>1, <1>1, <1>4 DEF Scan!Overwrite, Scan!Returns
<1>5. CASE Scan!Remove
  <2>1. place \in Nat /\ Scan!Length \in Nat /\ Scan!Length >= 3
    BY <1>1, <1>5 DEF Scan!Remove, ScanInv, TypeInv, Scan!Length
  <2>2. ASSUME NEW a \in Nat, a <= Len(file), NEW b \in 1..(Len(file) + 1)
        PROVE  SubSeq(file, 1, a) \in Seq(Char) /\ SubSeq(file, b, Len(file)) \in Seq(Char)
    BY <2>2, <1>1
  <2>3. Scan!Closed \in Seq(Char)
    <3>1. CASE Len(file) <= Scan!Length
      BY <3>1 DEF Scan!Closed
    <3>2. CASE Scan!Length < Len(file) /\ place + Scan!Length < Len(file)
      <4>1. /\ SubSeq(file, 1, place) \in Seq(Char)
            /\ SubSeq(file, place + Scan!Length + 1, Len(file)) \in Seq(Char)
        BY <3>2, <2>1, <2>2, <1>1
      <4>2. SubSeq(file, 1, place) \o SubSeq(file, place + Scan!Length + 1, Len(file)) \in Seq(Char)
        BY <4>1, ConcatProperties
      <4> QED BY <4>2, <3>2, <2>1, <1>1 DEF Scan!Closed
    <3>3. CASE Scan!Length < Len(file) /\ ~(place + Scan!Length < Len(file))
      <4>1. /\ place <= Len(file) => Scan!Larger(place, Len(file) - Scan!Length) \in 0..Len(file)
            /\ Scan!Closed = SubSeq(file, 1, Scan!Larger(place, Len(file) - Scan!Length))
        BY <3>3, <2>1, <1>1 DEF Scan!Closed, Scan!Larger
      <4>2. place <= Len(file)
        BY <1>5, <2>1, <1>1 DEF Scan!Remove, ScanInv, FoundInv, TypeInv, Scan!FirstEntry, Scan!EntryAt
      <4> QED BY <4>1, <4>2, <2>2, <1>1
    <3> QED BY <3>1, <3>2, <3>3, <2>1, <1>1
  <2> QED BY <2>3, <1>5 DEF Scan!Remove
<1> QED BY <1>2, <1>3, <1>4, <1>5 DEF Scan!Answer, Scan!Read, Scan!NothingToRemove, Scan!Broken, Scan!Returns

LEMMA AnswerKeeps ==
  ASSUME ConstantsOk, ScanInv, Scan!Answer
  PROVE  ScanInv'
<1>1. file' \in Seq(Char)
  BY FileOfCharacters
<1>2. CASE pc' \in {"idle", "broken"} /\ UNCHANGED <<call, Scan!scan>>
  <2>1. TypeInv'
    BY <1>1, <1>2 DEF ScanInv, TypeInv, Scan!scan
  <2> QED BY <2>1, <1>2 DEF ScanInv, ChunkInv, LineInv, DigitInv, SpaceInv, NameInv, SkipInv, FoundInv,
                            Scan!FirstEntry, Finding
<1>3. CASE pc' = "line" /\ Scan!Rewound /\ call' \in Scan!Calls
  <2>1. TypeInv'
    BY <1>1, <1>3 DEF ScanInv, TypeInv, Scan!Rewound, Finding, Scan!Digit
  <2>2. ChunkInv'
    <3>1. Len(file') \in Nat /\ 0 <= Len(file')
      BY <1>1
    <3> QED BY <3>1, <1>3 DEF ChunkInv, Scan!Rewound
  <2>3. LineInv'
    BY <1>3 DEF LineInv, Scan!Rewound, Scan!LineAt, NoneBefore
  <2> QED BY <2>1, <2>2, <2>3, <1>3 DEF ScanInv, DigitInv, SpaceInv, NameInv, SkipInv, FoundInv, Scan!FirstEntry
<1>4. Scan!Remove => \/ pc' = "idle" /\ UNCHANGED <<call, Scan!scan>>
                     \/ pc' = "line" /\ Scan!Rewound /\ call' \in Scan!Calls
  BY DEF Scan!Remove, ScanInv, TypeInv, Scan!Calls
<1> QED BY <1>2, <1>3, <1>4 DEF Scan!Answer, Scan!Read, Scan!AppendRating, Scan!Overwrite,
                                Scan!NothingToRemove, Scan!Broken, Scan!Returns

LEMMA CallKeeps ==
  ASSUME ConstantsOk, ScanInv, NEW c \in Scan!Calls, Scan!Call(c)
  PROVE  ScanInv'
<1>1. pc' = "line" /\ Scan!Rewound /\ call' = c /\ file' = file
  BY DEF Scan!Call
<1>2. TypeInv'
  BY <1>1 DEF ScanInv, TypeInv, Scan!Rewound, Finding, Scan!Digit
<1>3. ChunkInv'
  <2>1. Len(file) \in Nat /\ 0 <= Len(file)
    BY DEF ScanInv, TypeInv
  <2> QED BY <2>1, <1>1 DEF ChunkInv, Scan!Rewound
<1>4. LineInv'
  BY <1>1 DEF LineInv, Scan!Rewound, Scan!LineAt, NoneBefore
<1> QED BY <1>1, <1>2, <1>3, <1>4 DEF ScanInv, DigitInv, SpaceInv, NameInv, SkipInv, FoundInv, Scan!FirstEntry

(* The inductive invariant, for every file, name and size of a chunk.       *)
THEOREM SearchIsRight ==
  ASSUME ConstantsOk
  PROVE  Scan!Spec => []ScanInv
<1>1. Scan!Init => ScanInv
  <2> SUFFICES ASSUME Scan!Init PROVE ScanInv
    OBVIOUS
  <2>1. call \in Scan!Calls /\ file \in Seq(Char)
    BY DEF Scan!Init, ConstantsOk
  <2>2. TypeInv
    BY <2>1 DEF Scan!Init, TypeInv, Scan!Digit
  <2> QED BY <2>2 DEF Scan!Init, ScanInv, ChunkInv, LineInv, DigitInv, SpaceInv, NameInv, SkipInv, FoundInv,
                      Scan!FirstEntry, Finding
<1>2. ScanInv /\ [Scan!Next]_(Scan!vars) => ScanInv'
  <2> SUFFICES ASSUME ScanInv, [Scan!Next]_(Scan!vars) PROVE ScanInv'
    OBVIOUS
  <2>1. CASE UNCHANGED Scan!vars
    <3>1. /\ file' = file /\ call' = call /\ pc' = pc /\ pos' = pos /\ n' = n /\ fpos' = fpos
          /\ k' = k /\ digit' = digit /\ place' = place /\ start' = start /\ missed' = missed
      BY <2>1 DEF Scan!vars, Scan!scan
    <3>2. TypeInv' /\ ChunkInv' /\ SpaceInv' /\ FoundInv'
      BY <3>1 DEF ScanInv, TypeInv, ChunkInv, SpaceInv, FoundInv
    <3>3. LineInv' /\ Scan!FirstEntry'
      BY <3>1 DEF ScanInv, LineInv, Scan!FirstEntry, NoneBefore, Scan!LineAt, Scan!EntryAt, Scan!name
    <3>4. InLine' <=> InLine
      BY <3>1 DEF InLine, NoneBefore, NoNewline, Scan!LineAt, Scan!EntryAt, Scan!name
    <3>5. DigitInv' /\ NameInv'
      BY <3>1, <3>4 DEF ScanInv, DigitInv, NameInv, Scan!name
    <3>6. SkipInv'
      BY <3>1, <3>4 DEF ScanInv, SkipInv, Scan!EntryAt, Scan!name
    <3> QED BY <3>2, <3>3, <3>5, <3>6 DEF ScanInv
  <2>2. CASE Scan!Line
    BY <2>2, LineKeeps
  <2>3. CASE Scan!AfterDigit
    BY <2>3, AfterDigitKeeps
  <2>4. CASE Scan!Mismatch
    BY <2>4, MismatchKeeps
  <2>5. CASE Scan!NextChunk
    BY <2>5, NextChunkKeeps
  <2>6. CASE Scan!WholeName
    BY <2>6, WholeNameKeeps
  <2>7. CASE Scan!AfterName
    BY <2>7, AfterNameKeeps
  <2>8. CASE Scan!SkipToNewline
    BY <2>8, SkipToNewlineKeeps
  <2>9. CASE Scan!SkipChunk
    BY <2>9, SkipChunkKeeps
  <2>10. CASE Scan!Answer
    BY <2>10, AnswerKeeps
  <2>11. CASE \E c \in Scan!Calls : Scan!Call(c)
    BY <2>11, CallKeeps
  <2> QED BY <2>1, <2>2, <2>3, <2>4, <2>5, <2>6, <2>7, <2>8, <2>9, <2>10, <2>11 DEF Scan!Next, Scan!Find
<1> QED BY <1>1, <1>2, PTL DEF Scan!Spec

(* The rating found is the one of the first line for the name, and nothing  *)
(* is found only if there is no such line, however the file falls into      *)
(* chunks (find_rating(), ratings.cc:35-139).                               *)
THEOREM FirstEntryIsFound ==
  ASSUME ConstantsOk
  PROVE  Scan!Spec => []Scan!FirstEntry
<1>1. ScanInv => Scan!FirstEntry
  BY DEF ScanInv
<1> QED BY <1>1, SearchIsRight, PTL

(* The offset reported is the digit's in every file that fits into a chunk  *)
(* (ratings.cc:98-100), so that Overwrite and Remove change that line.      *)
THEOREM PlaceIsRightInSmallFiles ==
  ASSUME ConstantsOk
  PROVE  Scan!Spec => []Scan!PlaceInSmallFiles
<1>1. ScanInv => Scan!PlaceInSmallFiles
  <2> SUFFICES ASSUME ScanInv, Len(file) <= BufSize, pc = "found" PROVE place = start
    BY DEF Scan!PlaceInSmallFiles, Scan!PlaceIsRating
  <2>1. /\ place = start - missed /\ (missed > 0 => BufSize < Len(file))
        /\ missed \in Nat /\ start \in Nat
    BY DEF ScanInv, FoundInv, TypeInv
  <2>2. BufSize \in Nat /\ Len(file) \in Nat
    BY DEF ConstantsOk, ScanInv, TypeInv
  <2> QED BY <2>1, <2>2
<1> QED BY <1>1, SearchIsRight, PTL

================================================================================
