--------------------------- MODULE ServerProcess ---------------------------
(***************************************************************************)
(* The life of the server process and of its database file (Main.cpp, the  *)
(* constructor and destructor of Server, Database::init, load and save),   *)
(* over several runs of the program.  The client threads are reduced to    *)
(* what they do to the database: add a text, add a user.  Nobody stops     *)
(* them; they go on while the destructor of Server saves the database.     *)
(*                                                                         *)
(* A file is a sequence of records; a record that was cut by the end of    *)
(* the file, which deserialize rejects, is Torn.                           *)
(***************************************************************************)
EXTENDS Integers, Sequences, SequencesExt

CONSTANTS
  Users,     \* names of accounts
  MaxTexts,  \* bound: texts taken over all runs
  MaxUsers,  \* bound: accounts in memory
  MaxRuns,   \* bound: runs of the program
  Files,     \* what the file may be at first
  Faults     \* what may go wrong: "settings" a bad port or address, "unreadable"
             \* and "unwritable" fopen()/ofstream fail, "full" a write fails,
             \* "bind" the port is taken, "accept" accept() or poll() fails,
             \* "crash" the process dies elsewhere than in save(), "torn" in it

Text(n) == [kind |-> "text", n |-> n]
User(u) == [kind |-> "user", name |-> u]
Other   == [kind |-> "other"]  \* a message load() does not keep
Torn    == [kind |-> "torn"]
NoFile  == <<Torn, Torn>>      \* a value no file has

Records == {Text(n) : n \in 1..MaxTexts} \cup {User(u) : u \in Users} \cup {Other}

(***************************************************************************)
(* What Database::load makes of a file.                                    *)
(***************************************************************************)
\* getMessage returns nullptr at the end of the file and at a torn record.
Readable(file) ==
  CHOOSE n \in 0 .. Len(file) :
    /\ \A i \in 1 .. n : file[i] # Torn
    /\ n < Len(file) => file[n+1] = Torn

\* addSerializableObject: the records of one kind, in the order of the file.
Added(kind, file) ==
  LET Upto[i \in 0 .. Readable(file)] ==
        IF i = 0 THEN <<>>
        ELSE IF file[i].kind = kind THEN Append(Upto[i-1], file[i])
        ELSE Upto[i-1]
  IN  Upto[Readable(file)]

UsersOf(file) == LET us == Added("user", file)
                 IN  [i \in DOMAIN us |-> us[i].name]
BacklogOf(file) == LET ts == Added("text", file)
                   IN  [i \in DOMAIN ts |-> ts[i].n]

\* Texts are numbered in the order in which they were taken: those of a first
\* file in the order in which they stand there.
ASSUME ProcessAssumption ==
  /\ {MaxTexts, MaxUsers, MaxRuns} \subseteq Nat
  /\ Faults \subseteq {"settings", "unreadable", "unwritable", "full", "bind",
                       "accept", "crash", "torn"}
  /\ \A f \in Files : \/ f = NoFile
                      \/ /\ f \in Seq(Records)
                         /\ \A i \in DOMAIN BacklogOf(f) : BacklogOf(f)[i] = i

VARIABLES
  at,        \* where the main thread is
  server,    \* the pointer of Main.cpp: "null", "set" or "dangling"
  running_,  \* Server::running_
  users_, backlog_,  \* the fields of Database
  stream,    \* records written to the ofstream of save()
  flushed,   \* how many of them are in the file
  next, limit,  \* the iterators of the loops of save()
  failed,    \* the ofstream has failed
  disk,      \* the file
  runs,      \* runs started so far
  asked,     \* history: CTRL+C was pressed in this run
  taken,     \* history: number of texts taken over all runs
  atStop,    \* history: records in memory when the main loop was left
  durable    \* history: records a save() wrote and no failed save() lost

dbVars   == <<users_, backlog_>>
saveVars == <<stream, flushed, next, limit, failed>>
histVars == <<taken, atStop, durable>>
vars == <<at, server, running_, dbVars, saveVars, disk, runs, asked, histVars>>

InDatabase(file) == {r \in Range(file) : r.kind \in {"text", "user"}}

Init ==
  /\ at = "down" /\ server = "null" /\ running_ = FALSE
  /\ users_ = <<>> /\ backlog_ = <<>>
  /\ stream = <<>> /\ flushed = 0 /\ next = 1 /\ limit = 0 /\ failed = FALSE
  /\ disk \in Files /\ runs = 0 /\ asked = FALSE
  /\ taken = Len(BacklogOf(disk))
  /\ atStop = [texts |-> <<>>, users |-> <<>>]
  /\ durable = InDatabase(disk)

\* What a save() that ends without having written everything leaves of them.
StillSaved == durable \cap InDatabase(disk)

\* The process ends, however it does.
Ends == at' = "down" /\ users_' = <<>> /\ backlog_' = <<>> /\ server' = "null"

Fault(f) == f \in Faults

(***************************************************************************)
(* main() up to waitConnexion.                                             *)
(***************************************************************************)
Start ==
  /\ at = "down" /\ runs < MaxRuns
  /\ runs' = runs + 1
  /\ at' = "settings" /\ running_' = FALSE /\ asked' = FALSE
  /\ UNCHANGED <<server, dbVars, saveVars, disk, histVars>>

BadSettings ==
  /\ at = "settings" /\ Fault("settings")
  /\ Ends
  /\ UNCHANGED <<running_, saveVars, disk, runs, asked, histVars>>

GoodSettings ==
  /\ at = "settings" /\ at' = "load"
  /\ UNCHANGED <<server, running_, dbVars, saveVars, disk, runs, asked, histVars>>

\* mutant: a file that cannot be read is taken for a new database
Unreadable_IsNew == at' = "bind" /\ UNCHANGED <<server, dbVars>>
Unreadable == Ends

FileExists(file) == file # NoFile

DatabaseInit ==
  /\ at = "load"
  /\ \/ /\ ~FileExists(disk)
        /\ at' = "bind" /\ UNCHANGED <<server, dbVars>>
     \/ /\ FileExists(disk)
        /\ at' = "bind" /\ UNCHANGED server
        /\ users_' = UsersOf(disk) /\ backlog_' = BacklogOf(disk)
     \/ FileExists(disk) /\ Fault("unreadable") /\ Unreadable
  /\ UNCHANGED <<running_, saveVars, disk, runs, asked, histVars>>

Bind ==
  /\ at = "bind"
  /\ \/ at' = "made" /\ server' = "set" /\ UNCHANGED dbVars
     \/ Fault("bind") /\ Ends
  /\ UNCHANGED <<running_, saveVars, disk, runs, asked, histVars>>

(***************************************************************************)
(* waitConnexion and the signal handler.                                   *)
(***************************************************************************)
StartWaiting ==
  /\ at = "made"
  /\ running_' = TRUE /\ at' = "loop"
  /\ UNCHANGED <<server, dbVars, saveVars, disk, runs, asked, histVars>>

RunningTest_Missing == FALSE  \* mutant: while(true)
RunningTest == ~running_

\* The loop ends or throws what main() catches; then main() deletes the server,
\* whose destructor saves the database.
LeaveLoop ==
  /\ at = "loop" /\ at' = "open"
  /\ atStop' = [texts |-> [i \in DOMAIN backlog_ |-> Text(backlog_[i])],
                users |-> [i \in DOMAIN users_ |-> User(users_[i])]]
  /\ UNCHANGED <<server, running_, dbVars, saveVars, disk, runs, asked, taken,
                 durable>>

StopWaiting == RunningTest /\ LeaveLoop
AcceptFails == Fault("accept") /\ LeaveLoop

Stop == running_' = FALSE

\* After delete server the handler writes into freed memory, which does
\* nothing that matters here.
Sigint ==
  /\ at \in {"load", "bind", "made", "loop", "open", "texts", "users", "gone"}
  /\ ~asked /\ asked' = TRUE
  /\ IF server = "set" THEN Stop ELSE UNCHANGED running_
  /\ UNCHANGED <<at, server, dbVars, saveVars, disk, runs, histVars>>

(***************************************************************************)
(* Database::save.  The stream may be flushed at any point, in the middle  *)
(* of a record too; close() flushes it all.                                *)
(***************************************************************************)
Truncated_Appends(file) ==  \* mutant: the file is opened for appending
  IF file = NoFile THEN <<>> ELSE file
Truncated(file) == <<>>

OpenFile ==
  /\ at = "open"
  /\ \/ /\ at' = "texts" /\ disk' = Truncated(disk)
        /\ stream' = Truncated(disk) /\ flushed' = Len(Truncated(disk))
        /\ next' = 1 /\ limit' = Len(backlog_) /\ failed' = FALSE
        /\ UNCHANGED <<server, dbVars>>
     \/ /\ Fault("unwritable")
        /\ at' = "gone" /\ server' = "dangling"
        /\ users_' = <<>> /\ backlog_' = <<>>
        /\ failed' = TRUE /\ UNCHANGED <<disk, stream, flushed, next, limit>>
  /\ UNCHANGED <<running_, runs, asked, histVars>>

Write(record) ==
  /\ next <= limit
  /\ stream' = Append(stream, record) /\ next' = next + 1
  /\ UNCHANGED <<at, server, running_, dbVars, flushed, limit, failed, disk,
                 runs, asked, histVars>>

WriteText == at = "texts" /\ Write(Text(backlog_[next]))

LoopOver_StopsShort(n) == IF n = 0 THEN 0 ELSE n - 1  \* mutant: the last one missed
LoopOver(n) == n

WriteUsers ==
  /\ at = "texts" /\ next > limit
  /\ at' = "users" /\ next' = 1 /\ limit' = LoopOver(Len(users_))
  /\ UNCHANGED <<server, running_, dbVars, stream, flushed, failed, disk, runs,
                 asked, histVars>>

WriteUser == at = "users" /\ Write(User(users_[next]))

\* k records and perhaps a part of the next one are in the file.
InFile(k, part) == SubSeq(stream, 1, k) \o IF part THEN <<Torn>> ELSE <<>>

Flush(k, part) ==
  /\ at \in {"texts", "users"} /\ ~failed
  /\ k \in flushed..Len(stream) /\ (part => k < Len(stream))
  /\ flushed' = k /\ disk' = InFile(k, part)
  /\ disk' # disk
  /\ UNCHANGED <<at, server, running_, dbVars, stream, next, limit, failed, runs,
                 asked, histVars>>

\* A write fails; the stream keeps quiet about it and writes no more.
WriteFails ==
  /\ at \in {"texts", "users"} /\ Fault("full") /\ ~failed
  /\ failed' = TRUE
  /\ UNCHANGED <<at, server, running_, dbVars, stream, flushed, next, limit, disk,
                 runs, asked, histVars>>

\* save() returns true, the destructor of Database deletes everything.
CloseFile ==
  /\ at = "users" /\ next > limit
  /\ at' = "gone" /\ server' = "dangling"
  /\ disk' = IF failed THEN disk ELSE stream
  /\ durable' = IF failed THEN StillSaved ELSE durable \cup InDatabase(stream)
  /\ flushed' = Len(stream)
  /\ UNCHANGED <<running_, dbVars, stream, next, limit, failed, runs, asked, taken,
                 atStop>>

Exit ==
  /\ at = "gone"
  /\ Ends
  /\ UNCHANGED <<running_, saveVars, disk, runs, asked, histVars>>

(***************************************************************************)
(* Client threads, from the first connection to the end of the process.    *)
(* A push_back that reallocates a vector save() runs over leaves its loop  *)
(* with dangling iterators: the process may crash.                         *)
(***************************************************************************)
Serving == at \in {"loop", "open", "texts", "users"}

Race(vector) == at = vector /\ Fault("torn") /\ Ends /\ durable' = StillSaved

AddMsg ==
  /\ Serving /\ taken < MaxTexts
  /\ taken' = taken + 1
  /\ \/ /\ backlog_' = Append(backlog_, taken + 1)
        /\ UNCHANGED <<at, server, users_, durable>>
     \/ Race("texts")
  /\ UNCHANGED <<running_, saveVars, disk, runs, asked, atStop>>

\* Logins race, so that the user may be there already (ChatServer).
AddUser(u) ==
  /\ Serving /\ Len(users_) < MaxUsers
  /\ \/ users_' = Append(users_, u) /\ UNCHANGED <<at, server, backlog_, durable>>
     \/ Race("users")
  /\ UNCHANGED <<running_, saveVars, disk, runs, asked, taken, atStop>>

Crash ==
  /\ \/ /\ at \notin {"down", "texts", "users"} /\ Fault("crash")
        /\ UNCHANGED durable
     \/ /\ at \in {"texts", "users"} /\ Fault("torn")
        /\ durable' = StillSaved
  /\ Ends
  /\ UNCHANGED <<running_, saveVars, disk, runs, asked, taken, atStop>>

MainStep ==
  \/ BadSettings \/ GoodSettings \/ DatabaseInit \/ Bind \/ StartWaiting
  \/ StopWaiting \/ OpenFile \/ WriteText \/ WriteUsers \/ WriteUser \/ CloseFile
  \/ Exit

Next ==
  \/ Start \/ MainStep \/ AcceptFails \/ Sigint \/ WriteFails \/ AddMsg \/ Crash
  \/ \E u \in Users : AddUser(u)
  \/ \E k \in 0..(MaxTexts + MaxUsers), part \in BOOLEAN : Flush(k, part)

Spec == Init /\ [][Next]_vars

\* The main thread is scheduled; nobody has to press CTRL+C.
FairSpec == Spec /\ WF_vars(MainStep)
=============================================================================
