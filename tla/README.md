# A verification of the chat server and client (inf3405)

The repository holds two C++11 programs: a chat server (`Server/Server`) and a
curses client (`Client/Client`). They share, as two identical copies, a binary
message format and a buffer that cuts a TCP stream into messages (`Message/`).
This directory holds TLA+ models of both programs, the TLC runs that check them
on small instances, and TLAPS proofs of what matters most for every instance.

Contents: [inventory](#1-inventory) · [modules](#2-modules-and-how-they-map-to-the-code) ·
[runs](#3-runs) · [findings](#4-where-code-and-comments-disagree) ·
[proofs](#5-proofs) · [limits](#6-what-is-abstracted-or-left-out) ·
[plan](#7-plan)

## 1. Inventory

| component | state | operations | what makes it correct |
|---|---|---|---|
| Client threads and relay (`Server.cpp`, `Client.cpp`) | `Server::clients_`, `mutex_`; per client `name_`, `auth_`, `queue_`, socket, buffer | accept + register, `waitAuthentification`, `getBacklog`, `sendQueuedMessages`, `waitMessage`, `sendText`, hang-up test, `unregister` | everyone who is in gets every text once, in one order; the replay is a prefix of the record; nobody speaks without a login |
| Accounts (`Database.cpp`, `User.cpp`) | `Database::users_` | `getUser`, `addUser`, `validatePass` | accounts stay; a name of the file needs its password; who knows it is not turned away for nothing |
| Database file (`Database.cpp`) | the file, `users_`, `backlog_` | `init`, `load`, `save` | saved texts stay, in order, once; a file cut anywhere gives its whole records |
| Server process (`Main.cpp`, `Server.cpp`) | `server`, `running_` | start, constructor, accept loop, SIGINT handler, destructor | a stop ends the process and keeps the database |
| Wire format (`Message/*.cpp`) | none | `serialize`, `deserialize`, `getSize` of five messages | a reader gets the message that was written |
| Buffer (`Message/Buffer.h`) | `buffer_`, `pos_` | `getMessage`, `rewind`, `getData` over a socket (`NetworkBuffer`) or a file (`FileBuffer`) | messages come out whole and in order however the stream is cut |
| Client main loop and threads (`Client/Client.cpp`) | `type_`, `running_`, `mutexType_`, three condition variables | `mainLoop`, `checkInput`, `checkSocket`, `authentificate`, the end of `main` | each event is handled, the loop ends for a reason, and then all threads end and the terminal is restored |
| Input line (`Window.cpp`, `Client/Client.cpp`) | `text_`, `size_`, the cells of the window and its cursor | `init`, `getLine`, `getInput` | the texts sent are the lines as edited, and the window shows the line |
| Command lines (both `Main.cpp`, `Utils.cpp`) | static settings | `parseLongCommands`, `promptSettings`, defaults, `stou`, the checks of the constructors | the program runs with the settings that were meant |

How they interact. `main()` constructs a `Server`, which loads the database and
binds its port; `waitConnexion` accepts and starts one thread per connection.
Client threads share `clients_` and `backlog_` under `Server::mutex_`, but log
in, look up accounts, scan `clients_` and copy the backlog without it, and read
and write `name_` and `auth_` without any lock. SIGINT ends the accept loop;
the destructor saves the database while the client threads go on. On the other
side the client's main thread owns the terminal and the socket, and two threads
tell it, through `type_` and condition variables without predicates, which of
the two is readable; it sends from the same thread that must notice when the
server is gone.

The hard behaviours are therefore interleavings of unlocked logins, a
registration that races with the thread it registers, TCP fragments and
hang-ups in every state, a file that is replaced while others write to its
source, lost and spurious wake-ups, and a lock held over a wait.
`PROJECT.json` lists them, each at its line, with the properties that cover it.

## 2. Modules and how they map to the code

`PROJECT.json` maps every definition to the lines it stands for.

* **ChatServer** — the running server. A step is a stretch of code between two
  accesses to shared state; `pc[c]` is where the thread of client `c` is. A
  login is `AuthRecv`, `Lookup` (`getUser`, `validatePass`), `Scan` or
  `AddUser`/`PushUser`, `Reply`, `SetName`, `SetAuth`; then `CopyBacklog`
  (unlocked), `QueueBacklog` and the loop `FlushOne`/`FlushDone`, `ReadText`,
  `SendLock`, `SendQueue` (one client of `clients_` per step), `SendCommit`,
  `PeekClosed`/`PeekOpen`, `UnregLock`, `Erase`, `ClearAuth`. The main thread
  is `Accept` (the constructor starts the thread), `RegisterLock`,
  `RegisterPush`. `sock`, `in`, `buf`, `out` are the connection, with closed,
  reset and broken sockets; `SigPipe` is `send()` on a broken one. A peer that does
  not read (`PeerStall`) blocks the thread that sends to it: `Sent` is not enabled
  then.
  A data race on a vector is undefined: `DataRace` may end the process, and the
  actions around it also allow the lost write and the stale read. A login of which
  `recv()` returns only a part is taken for a failed one (`AuthNoMessage`); later,
  `TimesOut` is a `recv()` that finds nothing.
* **ChatServerProperties** — types, mutex, accounts, what a peer is told first
  (`StatusFirst`), who is refused (`RefusedForAReason`), delivery, liveness. The
  liveness properties follow one client, `Watched`, chosen arbitrarily: clients
  are interchangeable.
* **ChatRoom** — the abstract specification: one log; whoever is inside is
  given its entries one by one from the point where it came in.
  **ChatServerRoom** states the refinement mapping: a text is posted when
  `sendText` takes the mutex, a client is inside while it is in `clients_` and
  authenticated, and given a text when `send()` accepts it.
* **ChatServerClaims** — what Server.h says of the server and the code violates.
* **ServerProcess**, **ServerProcessProperties** — start, load, accept loop,
  SIGINT, destructor and `save()`, record by record, with what of the stream
  has reached the file (`Flush`), over several runs of the program. `durable`
  remembers what a good `save()` wrote, and forgets what a failed or interrupted
  one no longer has in the file, `atStop` what memory held when the main loop was
  left. `load` reads the records before the first torn one (`Readable`), and
  adds every text and every account among them (`Added`). `FileExists` decides
  between `load` and an empty database, `Stop` is what the handler of SIGINT calls.
* **MessageBuffer** — every byte of the wire format and of `Buffer`, with
  `Radix` for the 256 values of a byte, `Size` for the 1024 bytes of the buffer
  and `Wrap` for the range of `pos_`. `deserialize` reads lengths beyond
  `pos_`, so the filler there is part of the state. `reader` chooses who reads:
  a thread of the server (`ToServer`), the client (`ToClient`), both over
  `recv`, or `load()` over `fread` (`Saved`), from a file that ends at any byte.
  With `CutStatus = FALSE` the two bytes of a status arrive together; every
  other message may be cut anywhere.
* **ClientApp**, **ClientAppProperties** — login, main loop, threads, condition
  variables (a waiter is in `"waiting"`; a notification that finds nobody there
  is lost), the lock `mutexType_`, halves of messages in socket and buffer, messages
  that are no texts (`foreign`), the end of the program (`DestroyWindow`,
  `DeleteClient`, `"exited"`), a `send()` that blocks (`stalled`) and SIGPIPE in
  one to a server that is gone (`"killed"`). `platform` chooses between the two
  forms of `checkInput`: on Windows it waits for a key without a look at `running_`
  (`GivesUp`). Any answer to the login makes the client go on, as in the code. Two
  histories record what the guarantees depend on: `lost`, that a `notify_one()`
  came before the `wait()` it was meant for, and `spurred`, how often a `wait()`
  returned without one.
* **LineInput** — `getLine` key by key, what `getInput` does with a line, and
  the row of the input window: `Put` is `waddch` as curses does it
  (marked external), with characters that take two cells; `MoveLeft`, `Echo`,
  `RubOut` are what the code calls it for.
* **CommandLine** — the scan of `argv`, the prompts, the defaults, the checks of
  `main` and of the constructors (`Server*`, `Client*`), of either program
  (`program`). The port is a number: `stoul` reads digits into `LongRange`
  values, `stou` narrows them to `IntRange`.
* **ChatServerProofs** (types, mutex, logins and accounts, the order of an author),
  **ChatServerRelayProofs** (live texts, replay, the refinement of ChatRoom),
  **ServerProcessProofs**, **MessageBufferProofs**, **ClientAppProofs**,
  **LineInputProofs**, **CommandLineProofs** — the theorems; **SequenceLemmas** —
  what they share about sequences; **MC...** — the constants of the runs.

Definitions marked `mutant:` change the definition they stand before as a
plausible bug would. TLC finds the property each is paired with violated.

## 3. Runs

Every cfg says `CHECK_DEADLOCK FALSE`, because all these systems do stop: the
bounded peers have nothing left to send, the process has died or ended, the
client has returned from `mainLoop` or is stuck waiting for input.

| run | question | bounds |
|---|---|---|
| `ChatServer_relay` | `MutexHeld`, `LiveExact`, `StatusFirst`, `SpeakersAreAuthenticated`, `AuthorOrder`, and the refinement `ImplementsRoom` | 2 clients, 3 messages each, 1 past text: a login, two texts, and a reader that comes in meanwhile |
| `ChatServer_accounts` | `LoadedAccountsSafe`, `AccountsKept`, `RefusedForAReason` while accounts are created | 3 clients, a login each, 2 passwords, 2 names: one twice in the file, and the empty one, which is new |
| `ChatServer_faults` | `TypeOK`, and that `LiveExact`, `ReplayIsPrefix` and `RefusedForAReason` survive hang-ups, resets, foreign messages, fragments, failing and blocking `send()` | 2 clients, 2 messages, 1 past text |
| `ChatServer_live` | `TakenIsLogged`, `QueueDrains`, `HungUpLeaves` | 2 clients, a login and a text each, hang-ups, resets that answer what is sent after them, peers that stop reading, fair threads |
| `ServerProcess_runs` | `ProcessTypeOK`, `OrderKept`, `StopSaves`, `DurableKept`, `StopsWhenWaiting` | 2 names, 2 accounts in memory, 2 texts, 3 runs of the program, 4 initial files, all faults |
| `MessageBuffer_cut` | `BufferTypeOK`, `GotIsPrefix`, `BytesConserved`, `NeverJammed`, `LoadsWhole`, `AllArrive` | 3 messages out of 5, 3 and 4 kinds (to the server, to the client, in the file), the largest among them, a stream cut at any byte but within a status and a file that ends at any byte; a byte has 6 values, and the largest message fills the buffer of 17 bytes exactly (in the code it has 529 of 1024) |
| `ClientApp_live` | `ClientTypeOK`, `LockedIsHolder`, `Handshake`, `QuitsForAReason`, `StopsInTheEnd` (down to the exit), `KeysAreRead`, `SocketIsRead` | 1 message in two halves, 1 key of four kinds, 1 spurious wake-up, both platforms, any timing, fair threads |
| `LineInput_edit` | `LinesFit`, `SentAsEdited`, `EchoMatches` | 6 keys, lines of at most 3, a row of 4 cells, a character that takes two |
| `CommandLine_both` | `InArgv`, `StartsAsMeant`, `GivesUpForAReason` | server: command lines of up to 4 words, client: up to 3; all answers; ports modulo 100000 and 10000, so that a word wraps to an allowed one and another would if it were cut |
| `Claim_double_login` | finds `NoDoubleLogin` violated | 2 clients, one account |
| `Claim_missed_text` | finds `NoMissedText` violated | 2 clients, a login and a text each |
| `Claim_quit` | finds `QuitSuffices` violated | 2 keys, no texts, no spurious wake-ups, fair threads |

Why these bounds are enough to be of use: each hazard needs at most two actors
besides the main thread (two logins, an author and a reader, two client
threads and the main loop); two texts of one author and a past text are the
least with which order, holes and repetition differ; two runs are the least
for what one leaves to the next, and a third shows what the second passes on.
`RefusedForAReason` needs three logins at most: the one that is refused, the one
that makes the account, and the one that looks like its owner.
The client needs one message and one key for the two threads to compete; a second
wake-up without a reason does what the first one does.
In the wire format every length field, number, boundary and filler value
occurs; the scaled byte keeps the modulo and the multi-byte numbers.

Fairness. Server: weak fairness of the main thread's registration and of each
client thread, that is, the operating system schedules runnable threads, and a
`std::mutex` that is free for good is given to a waiter (the traffic of a run is
bounded, so it is free in the end). A thread in `send()` is runnable only while
its peer reads. Peers owe nothing: they need not send, hang up or read.
`TakenIsLogged` holds although some peer reads nothing, because no thread sends
while it holds the mutex; `QueueDrains` says what it says of a peer that reads;
`HungUpLeaves` also of one that did not read before it hung up. Client: weak fairness
of the three threads, and nothing about how long a thread takes from one step to the
next; user and server owe nothing. ServerProcess: weak fairness of the main
thread, except for the failure of `accept()` or `poll()`, which must not be
what ends the loop; nobody must press CTRL+C. MessageBuffer: weak fairness of
`getMessage` for the two readers that call it again and again, `load()` and a thread of
the server after the login. The client has none: it calls `getMessage`
when `poll()` saw something in the socket, and so no liveness is claimed of it.

The sleeps of one second in `mainLoop` come before the first wake-up only, and no
property relies on them. What the client guarantees is therefore stated
with what can go wrong: `StopsInTheEnd`, `KeysAreRead` and `SocketIsRead` end in the
event they promise or with a thread that is `Forgotten`, and `Handshake` says that this
takes a lost notification. The last two also end when the client stops, and while
`send()` blocks, since one thread does both.

## 4. Where code and comments disagree

Three runs state a sentence of a header or of the README as a property, and TLC
finds the behaviour of the code that violates it:

* `Claim_double_login` (Server.h:53-54, "If the username is already connected,
  the authentification will be refused."): the scan skips the clients that *are*
  authenticated (Server.cpp:213), so a second login under the same name succeeds.
* `Claim_missed_text` (Server.h:66-68, "we need to send it back to the other
  users connected"): the backlog is copied before the mutex is taken
  (Server.cpp:229), and a client may authenticate before it is pushed into
  `clients_` (Server.cpp:174-179). A text recorded in between reaches it neither
  replayed nor live.
* `Claim_quit` (src/README.md:30-31, "Pour quitter l'application, il suffit
  d'écrire '/quit' en tant que message et appuyer une touche."): a thread that has
  tested `running_` and not yet called `wait()` misses the last `notify_one()`
  (Client.cpp:278-279), and `join()` never returns, whatever keys are pressed.

The other disagreements met while modelling are behaviours of the modules, but
no run states them. On the server:

* The inverted test compares a name with clients that are *not* authenticated:
  a user may be locked out by an object whose login failed, and the owner of the
  empty name by anyone who has not logged in yet (Server.cpp:213, 221).
* `addUser` takes no lock: two logins of a new name make two accounts of it,
  and two appends may write one slot (Database.cpp:120-126).
* A client whose login fails, or whose thread ends before the main thread
  pushes it, stays in `clients_` for good (Server/Client.cpp:51).
* Texts that arrived together with the end of the connection are dropped
  (Server/Client.cpp:95), the author of a text is sent it although Server.h:68
  says otherwise (Server.cpp:253), and on Linux `send()` to a reset connection
  kills the process (Server/Client.cpp:118).
* `send()` has no timeout: the thread of a peer that does not read stays in it,
  sends and reads nothing more, and the queue of that client grows
  (Server/Client.cpp:118).
* A CTRL+C that comes before the accept loop is overwritten (Server.cpp:127).
* A text taken while the destructor saves is lost, and so is one still in
  `sendText` then (Database.cpp:97); `load` and
  `save` report success for a torn file and for failed writes
  (Database.cpp:69, 111).

* `getSocketAddr` combines the four bytes of the address into one
  (Server/Client.cpp:164), where ServerText.h:58-60 promises an address.
* On Windows the database file is opened in text mode, which ends at the first
  byte 26 and rewrites line ends (Database.cpp:57).

In the messages: a status cut after its first byte makes `pos_` wrap below
zero (Status.cpp:28; with `CutStatus = TRUE`, `BufferTypeOK` fails), and the
length of a string of 256 characters is sent as 0 (Auth.cpp:87). The self test
hands 47 bytes to `deserialize` and says that they are 30 (Message/Test.cpp:60).

In the client and the prompts:

* A second text in the buffer waits until more bytes arrive, possibly for ever
  (Client.cpp:165).
* A notification that finds the main thread elsewhere is lost too, and both threads
  stay stuck from then on (Client.cpp:133, 179): then nothing is read any more.
* A `wait()` that returns for no reason makes the client handle the last event
  again, and call `recv()` on a socket that has nothing, which quits it
  (Client.cpp:259).
* A message that is no server text quits the client without a word
  (Client.cpp:213-217).
* On Windows a thread that waits for a key does not notice the end of the client
  (Client.cpp:120-125): also after the server closed the connection a key must be
  pressed.
* A login that is refused is printed and then ignored: the client goes on, and
  the server neither answers nor closes the connection any more
  (Client.cpp:230).
* The answer to the login is cast to a status without a look at its type
  (Client.cpp:314); `StatusFirst`, on the side of the server, is why that does
  no harm.
* A text sent after the server closed the connection raises SIGPIPE, and the
  client dies with the terminal in curses mode; one sent to a server that does not
  read blocks the client (Client.cpp:333).
* A backspace takes one cell away from the window, which is too little after a
  control character, and nothing at the start of a second row (Window.cpp:110):
  `EchoMatches` is stated for the other lines. On Windows the key is 8 and not
  127 (Window.cpp:100).
* `stou` narrows an unsigned long to an int and takes a sign and whatever
  follows the digits: "5025x" is 5025, and a negative number can become an
  allowed port (Utils.cpp:51-55) although the comment there says "make sure it is
  positive"; `StartsAsMeant` says nothing of negative numbers.
* On Windows the default name points into a buffer that has gone out of scope
  (Client/Main.cpp:207-210).
* An empty answer keeps the value of the command line although the prompt
  says "(empty means default)" (Server/Main.cpp:162, 165, Client/Main.cpp:132,
  135); `StartsAsMeant` leaves this case out (`EnterOverGiven`).

## 5. Proofs

All are safety theorems, checked by TLAPS for every value of the constants that
satisfies the named assumptions of the module.

* `TypeCorrect` (`Spec => []TypeOK`). `TypeOK` is inductive as it stands,
  because it includes `LocalsRead`: where a thread uses the credentials or the
  text, it has read them. The proof goes through one lemma per part of
  `TypeOK`, each with one step per action.
* `MutualExclusion` (`Spec => []MutexHeld`), inductive together with `TypeOK`:
  the holder determines where the threads are, and the reverse.
* `LoadedAccounts` (`Spec => []LoadedAccountsSafe`). Not inductive: between
  the check of the password and `auth_ = true` lie seven steps in which other
  threads append accounts. `AccountInv` adds that `users_` begins with the accounts
  of the file (an append that is under way writes behind them), that what is
  written is a name the file does not have, and that what passed the check
  keeps its credentials until it is named. The lemma `FirstMatch` says that the
  first match of a loaded name is the same in `users_` and in the file.
* `AnswersFirst` (`Spec => []StatusFirst`). `AnswerInv` relates `pc` to what was
  sent: nothing before the reply, a good reply first afterwards, and nothing in
  the queue of a client that is not past it.
* `SpeakersLoggedIn` (`Spec => []SpeakersAreAuthenticated`). `SpeakerInv` says
  that whoever has a text recorded or is about to record one has passed its
  login (`Spoke`), and that `cred` and `out[c][1]` do not change from then on.
* `AccountsStay` (`Spec => []AccountsKept`). `KeptInv` says, of every client
  between the check and the end, that its account is in `users_`, or that
  another client has created one (`Creator`), which may have taken its slot.
  What is in the file never goes, by `AccountInv`.
* `NobodyLockedOut` (`Spec => []RefusedForAReason`). `RefusalInv` says that a
  refusal of somebody who knows the password has a reason (`Excuse`), that a client has
  the empty name until it is named, so that a reason stays one, and that no
  account of the file is created again.
* `AuthorsInOrder` (`Spec => []AuthorOrder`). `QueueInv` says that the texts of
  one author rise in its buffer and socket (`Waiting`), and that what is recorded
  or being recorded lies below all that still waits (`Recording`, `Passed`).
* `LiveTextsExact` (`Spec => []LiveExact`) and `ReplayInOrder`
  (`Spec => []ReplayIsPrefix`). Both rest on `RelayInv`, of every client: whether
  it is authenticated and registered follows from where the threads are; the
  loop of `sendText` visits registered clients only; who never was inside was given
  nothing live; and the copy of the backlog, made without the mutex, is a
  beginning of it until it is queued, which happens once. `LogFor` counts the
  text that is being queued for those already visited, so that the equation
  holds in the middle of the loop too. `TypeOK` and `MutexHeld` are used: two
  loops at once would break it.
* `ServerIsRoom` (`Spec => ImplementsRoom`): the server implements ChatRoom. The
  mapping is proved step by step: taking the mutex in `SendLock` is `Post`,
  registration or `SetAuth`, whichever comes second, is `Enter`, an accepted `send()`
  of a live text is `Give`, and everything else stutters. That the room gives
  the right entry is `RelayInv`.
* `ProcessTypeCorrect`, `OrderIsKept`, `SavesAtStop`, `SavedIsKept` in ServerProcess
  (`ProcessTypeOK`, `OrderKept`, `StopSaves`, `DurableKept`), from one `ProcessInv`:
  memory grows at its end only, the part of it that `save()` still has to write
  (`TextsToSave`, `UsersToSave`) stays, the stream is what was written of the texts
  and then of the users, the file holds what was flushed of it and perhaps a
  torn record, and both `durable` and `atStop` lie in the part to save.
* `BufferIsSound`, `MessagesComeOut`, `NoByteIsLost`, `SpaceIsLeft` in MessageBuffer
  (`BufferTypeOK`, `GotIsPrefix`, `BytesConserved`, `NeverJammed`), assuming
  `CutStatus = FALSE`, and `LoadsAll` (`LoadsWhole`), which assumes nothing about
  statuses. The lemma `RoundTrip` says of each kind of message that
  `deserialize`, given the first bytes of one, returns it if all of them are
  there and null if not (of a status: unless it has one byte), whatever lies
  beyond; `ValueOfNumber` that a number put together from its bytes is the number.
  `BufferInv` adds where the reader is in the stream: what it returned is a
  beginning of what was sent, the rest of the bytes is what is buffered and
  what was not read, and these do not end within a status.
* `TypeLockDiscipline` (`Spec => []LockedIsHolder`) in ClientApp; `LockInv`
  adds the types of the fields it involves. This and the next three are proved
  for spurious wake-ups and lost notifications in any number.
* `HandshakeHolds` (`Spec => []Handshake`). `HandInv` says whom the main loop owes a
  notification in each of its states, and that it is at most one thread, as
  long as no notification was lost (`IdleIsServed`, `NobodyLeft`).
* `NothingIsLost` (`Spec => []ClientTypeOK`): the types, and that every half
  text is in the socket, in the buffer or taken. It is inductive; `TypeParts`
  cuts it into parts that are proved action by action.
* `QuitsWithReason` (`Spec => []QuitsForAReason`). `QuitsInv` adds to `HandInv`
  that, as long as every `wait()` was notified, what the socket thread saw in
  `poll()` is still there when it notifies, and when the main loop, woken for
  the socket, reads it. A lost notification delays this and does not undo it.
* `TextsFit` (`Spec => []LinesFit`) in LineInput; the strengthening types
  `text_`, `msg`, `sent` and the row of the window.
* `LinesAreSent` (`Spec => []SentAsEdited`) and `RowShowsLine`
  (`Spec => []EchoMatches`). `Meaning` is what the keys taken so far say, computed
  from all of them; `MeantInv` says that `text_` is the line it ends with, that
  the texts sent and the one about to be sent are those it ends before, that
  the keys waiting are the last ones typed, and that the row shows the line as
  long as the line has stayed in it, which keeps it two cells shorter than the row.
* `ScanStaysInArgv` (`Spec => []InArgv`) in CommandLine: `cmds` is always the
  index of a word that was there.
* `StartsWithSettings` (`Spec => []StartsAsMeant`) and `GivesUpRightly`
  (`Spec => []GivesUpForAReason`). `SettingInv` says what the scan has done by
  the words before `cmds`: which of them were options, which bad, what each
  option was last given; and that the loop stands before an option or at the end.
  `PortOf` says that the port is the number of its word or the complement of it,
  `IsConverted` that a number of a `uint_t` is never refused.

An invariant that is not inductive was strengthened until it was, and the
strengthening was checked by TLC on the instance of the run before it was
proved. The assumptions on the constants are those the code justifies: the file holds
accounts and texts, the texts of the file are told from the new ones
(`LoadedAssumption`, `PastAssumption`) and numbered as they stand (ServerProcess),
`NoCred` is not a credential (`CredAssumption`), thread names are not client
names (`ThreadsAssumption`), the largest message fits into the buffer
(`FormatAssumption`: 3 + 16 + 2 * 255 of 1024 bytes), and only the server sends a
status, over a connection (`MessageAssumption`). `MessageAssumption` also limits
strings to the length their byte can say. For texts `getLine` sees to that; a longer
name or password is not refused by the client and is the divergence of section 4.

What a helper computes over a sequence of any length (`TextsOf`, `Readable`,
`Added`, `Bytes`, `Value`, `Meaning`, `IsOption`) is a recursive function in the model, since the
prover knows nothing of `SelectSeq` and the folds. Its lemmas are proved by
induction over a set of numbers (`NatSetInduction` in SequenceLemmas), the form of
induction that needs no operator as a parameter.

Every invariant of the runs is the subject of a theorem. Only model-checked is
what is temporal: liveness under fairness and ENABLED are out of reach of the
prover.

## 6. What is abstracted or left out

* `Client::mutex_` guards single operations on a deque and is folded into them,
  with the unlocked `queue_.empty()`.
* The order of `clients_` is a set: `SendQueue` visits it in any order.
* A failing or interrupted `poll()` in a client thread goes round the loop and
  changes nothing. The time-outs of `recv()` are `ReadNothing`.
* What a peer does after its thread ended is ignored. In ClientApp the answer
  to the login arrives whole, a text in two halves.
* SIGINT before the handler is installed is `Crash`.
* A read error in `load()`, which returns true with the records read so far, is not
  among the faults of ServerProcess: `DurableKept` says nothing of a disk that
  fails to read. `GotIsPrefix` and the other invariants of MessageBuffer say
  nothing of a status cut in two (`CutStatus = FALSE`).
* ClientApp: a `send()` to a server that does not read is not entered until there
  is room (`stalled`), and the server's not reading matters only while a line is
  waiting to be sent.
* Addresses, ports and times in a text are left to MessageBuffer.
* The Windows branches differ from Linux in `send()` on a broken connection
  (`OnBroken`), and in how the keyboard and signals are reached.
* The output window is a count of texts: what `printMessage` and `printLine`
  make of one, and where the window scrolls, is layout.
* Not modelled: `Logger` and `Database::print` (they write lines and change
  nothing), the option `--test` (it exists with `__DEBUG__` only, which no
  makefile defines), the self test of the messages (a program of its own, without
  state shared with the others), the utilities nobody calls
  (`getStringNullOrLength`, `convertAddr`, `widen`) and `exKbHit` (it asks the
  Windows console), PDCurses (headers of a library), the build files.

## 7. Plan

Order of work, the most important behaviour first: (1) ChatServer with its
room, (2) the client's threads, (3) wire format and buffer, (4) process and
file, (5) input and command line. All of these are written and checked, and
the theorems of section 5 are proved. Left to do:

1. the client and the server composed through one connection with the buffer
   of MessageBuffer on both ends, and a database shared between ChatServer and
   ServerProcess, so that what was relayed in one run is replayed in the next.
