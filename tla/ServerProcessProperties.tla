----------------------- MODULE ServerProcessProperties -----------------------
(***************************************************************************)
(* What the database file has to guarantee from one run to the next.       *)
(***************************************************************************)
EXTENDS ServerProcess

\* Every variable keeps its type.
ProcessTypeOK ==
  /\ at \in {"down", "settings", "load", "bind", "made", "loop", "open",
             "texts", "users", "gone"}
  /\ server \in {"null", "set", "dangling"}
  /\ running_ \in BOOLEAN /\ failed \in BOOLEAN /\ asked \in BOOLEAN
  /\ users_ \in Seq(Users) /\ backlog_ \in Seq(1..MaxTexts)
  /\ stream \in Seq(Records) /\ flushed \in 0..Len(stream)
  /\ next \in 1..limit + 1 /\ limit \in Nat /\ runs \in 0..MaxRuns /\ taken \in 0..MaxTexts
  /\ disk = NoFile \/ disk \in Seq(Records \cup {Torn})
  /\ atStop \in [texts : Seq(Records), users : Seq(Records)] /\ durable \subseteq Records

Rising(s) == \A i, j \in DOMAIN s : i < j => s[i] < s[j]

\* Over any number of restarts, crashes and failures, the backlog in memory
\* and the one in the file hold the texts in the order they were taken, and
\* none of them twice: save() replaces the file, it does not add to it.
OrderKept ==
  Rising(backlog_) /\ (disk # NoFile => Rising(BacklogOf(disk)))

\* A save() that meets no fault keeps everything the database held when the
\* main loop was left: texts and users reach the file, whole and in order,
\* whatever the client threads add meanwhile.
StopSaves ==
  at = "gone" /\ ~failed =>
    /\ IsPrefix(atStop.texts, disk)
    /\ Range(atStop.users) \subseteq Range(disk)

\* A text or account that was saved is in the file whenever save() is not
\* writing it, and is still there after any number of later runs: only a save()
\* that failed or died halfway may lose it.  A failed start, a refused port, a
\* file that cannot be opened and a crash outside of save() do not.
DurableKept ==
  at \notin {"texts", "users"} => durable \subseteq InDatabase(disk)

\* CTRL+C while the server waits for connections ends the process.
StopsWhenWaiting == (at = "loop" /\ ~running_) ~> (at = "down")

(***************************************************************************)
(* Why they hold.  Memory grows only at the end, so what save() has still  *)
(* to write and what it has written already are parts of it that stay.     *)
(***************************************************************************)
\* The texts in s stand in the order in which they were taken.
InOrder(s) ==
  /\ \A i \in DOMAIN s : s[i].kind = "text" => s[i].n <= taken
  /\ \A i, j \in DOMAIN s :
       i < j /\ s[i].kind = "text" /\ s[j].kind = "text" => s[i].n < s[j].n

\* Only the last record of a file is torn.
FileInv ==
  disk # NoFile => InOrder(disk) /\ \A i \in DOMAIN disk : disk[i] = Torn => i = Len(disk)

BacklogInv == Rising(backlog_) /\ \A i \in DOMAIN backlog_ : backlog_[i] <= taken

\* The part of memory that save() writes, if it has not failed: the loops stop
\* where the vectors ended when they began.
TextsToSave == CASE at = "texts" -> limit
                 [] at = "users" -> Len(stream) + 1 - next
                 [] OTHER -> Len(backlog_)
UsersToSave == IF at = "users" THEN limit ELSE Len(users_)

TextsWritten == IF at = "texts" THEN next - 1 ELSE TextsToSave
UsersWritten == IF at = "texts" THEN 0 ELSE next - 1

\* What was written to the stream, and what reached the file of it.
StreamInv ==
  at \in {"texts", "users"} =>
    /\ TextsToSave \in 0 .. Len(backlog_) /\ UsersToSave \in 0 .. Len(users_)
    /\ Len(stream) = TextsWritten + UsersWritten
    /\ \A i \in 1 .. TextsWritten : stream[i] = Text(backlog_[i])
    /\ \A i \in 1 .. UsersWritten : stream[TextsWritten + i] = User(users_[i])
    /\ \E part \in BOOLEAN : disk = InFile(flushed, part)

\* From load() until save() has ended, what is durable is in memory and will be
\* saved.
DurableInv ==
  at \in {"bind", "made", "loop", "open", "texts", "users"} =>
    durable \subseteq {Text(backlog_[i]) : i \in 1 .. TextsToSave}
                      \cup {User(users_[i]) : i \in 1 .. UsersToSave}

\* So is what was there when the main loop was left.
StopInv ==
  at \in {"open", "texts", "users"} =>
    /\ Len(atStop.texts) <= TextsToSave /\ Len(atStop.users) <= UsersToSave
    /\ \A i \in DOMAIN atStop.texts : atStop.texts[i] = Text(backlog_[i])
    /\ \A i \in DOMAIN atStop.users : atStop.users[i] = User(users_[i])

\* The invariant that holds in every step because it held before.
ProcessInv ==
  /\ ProcessTypeOK /\ FileInv /\ BacklogInv /\ StreamInv /\ DurableInv /\ StopInv
  /\ DurableKept /\ StopSaves
=============================================================================
