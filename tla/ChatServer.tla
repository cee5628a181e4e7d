----------------------------- MODULE ChatServer -----------------------------
(***************************************************************************)
(* The chat server while it runs (Server/Server/Server.cpp, Client.cpp,    *)
(* Database.cpp): the main thread that accepts connections, and one thread *)
(* per connection that authenticates its peer, replays the backlog, relays *)
(* the texts the peer sends to every registered client and finally removes *)
(* its client from the server.                                             *)
(*                                                                         *)
(* Threads share Server::clients_ and Database::backlog_ under             *)
(* Server::mutex_, but several accesses take no lock: the account lookup   *)
(* and creation, the scan of clients_ in authentificate, the copy of the   *)
(* backlog, and every access to name_ and auth_.  A step of the model is a *)
(* stretch of code between two such accesses.  std::mutex Client::mutex_   *)
(* only guards single deque operations and is folded into them.            *)
(***************************************************************************)
EXTENDS Naturals, Sequences

CONSTANTS
  Clients,       \* the Client objects of one server run, one per connection
  Names,         \* user names a peer may present
  Passwords,     \* passwords a peer may present
  NoName,        \* the empty string a Client's name_ starts with
  NoCred,        \* cred[c] before the peer's MSG_AUTH was read
  LoadedUsers,   \* users_ as Database::load left it
  LoadedBacklog, \* backlog_ as Database::load left it
  MaxSend,       \* bound: messages one peer sends
  Faults,        \* what peers and network may do beyond sending auth and text
  OnBroken       \* what send() on a broken socket does: "sigpipe" on Linux,
                 \* "error" on Windows

Creds == [name : Names, pass : Passwords]
NoOne == "nobody"
Main  == "main"

Texts   == [user : Names \cup {NoName}, from : Clients \cup {"past"},
            n : 1 .. MaxSend]
Entries == [kind : {"live", "replay"}, text : Texts]   \* elements of queue_
Replies == [kind : {"status"}, code : {"ok", "not_ok", "not_auth"}]
Inputs  == [type : {"auth"}, name : Names, pass : Passwords]
             \cup [type : {"text"}, n : 1 .. MaxSend]
             \cup [type : {"other"}]  \* MSG_QUIT, MSG_RESP or MSG_SERVER_TEXT

ASSUME ThreadsAssumption == {NoOne, Main, "past"} \cap Clients = {}
ASSUME CredAssumption == NoCred \notin Creds
ASSUME LoadedAssumption ==
  /\ LoadedUsers \in Seq(Creds)
  /\ LoadedBacklog \in Seq(Texts)
ASSUME PastAssumption ==
  \A i \in 1 .. Len(LoadedBacklog) : LoadedBacklog[i].from = "past"
ASSUME ParameterAssumption ==
  /\ MaxSend \in Nat
  /\ Faults \subseteq {"stall", "close", "reset", "other", "fragment"}
  /\ OnBroken \subseteq {"sigpipe", "error"}

VARIABLES
  proc,       \* "up", or how the process died: "sigpipe" or "race"
  pcMain,     \* where Server::waitConnexion is
  newClient,  \* its local variable client
  mutex_,     \* the thread that holds Server::mutex_, or NoOne
  clients_,   \* Server::clients_; only the iteration order is abstracted
  users_,     \* Database::users_
  backlog_,   \* Database::backlog_
  todo,       \* clients_ the loop of Server::sendText has still to visit
  pc,         \* where the thread of each client is
  name_, auth_, queue_,  \* the fields of each Client
  cred,       \* locals name and pass of waitAuthentification
  slot,       \* the end of users_ when addUser found no such name
  snapshot,   \* local backlog of Server::getBacklog
  text,       \* local message of waitMessage: its number, 0 when there is none
  sock,       \* state of each connection as the server's kernel sees it
  in,         \* messages in the socket, not yet received
  buf,        \* messages received into NetworkBuffer, not yet handled
  out,        \* what send() accepted
  nsent,      \* number of messages the peer has sent
  since       \* history: index of the last text before c was registered and
              \* authenticated, the point from which sendText serves it

mainVars    == <<pcMain, newClient>>
dataVars    == <<clients_, users_, backlog_>>
lockVars    == <<mutex_, todo>>
clientVars  == <<name_, auth_, queue_>>
localVars   == <<cred, slot, snapshot, text>>
netVars     == <<sock, in, buf, out, nsent>>
vars == <<proc, mainVars, lockVars, dataVars, pc, clientVars, localVars,
          netVars, since>>

Labels == {"none", "auth", "lookup", "scan", "adduser", "pushuser", "refuse",
           "reply", "setname", "setauth", "copy", "backlog", "backflush",
           "flush", "read", "error", "sendlock", "sending", "peek", "unreg",
           "erase", "clearauth", "done"}

Init ==
  /\ proc = "up"
  /\ pcMain = "accept" /\ newClient = NoOne
  /\ mutex_ = NoOne /\ todo = {}
  /\ clients_ = {} /\ users_ = LoadedUsers /\ backlog_ = LoadedBacklog
  /\ pc = [c \in Clients |-> "none"]
  /\ name_ = [c \in Clients |-> NoName]
  /\ auth_ = [c \in Clients |-> FALSE]
  /\ queue_ = [c \in Clients |-> <<>>]
  /\ cred = [c \in Clients |-> NoCred]
  /\ slot = [c \in Clients |-> 0]
  /\ snapshot = [c \in Clients |-> <<>>]
  /\ text = [c \in Clients |-> 0]
  /\ sock = [c \in Clients |-> "open"]
  /\ in = [c \in Clients |-> <<>>]
  /\ buf = [c \in Clients |-> <<>>]
  /\ out = [c \in Clients |-> <<>>]
  /\ nsent = [c \in Clients |-> 0]
  /\ since = [c \in Clients |-> 0]

At(c, label) == proc = "up" /\ pc[c] = label
Goto(c, label) == pc' = [pc EXCEPT ![c] = label]

(***************************************************************************)
(* The mutex of the server.                                                *)
(***************************************************************************)
MutexFree_Always == TRUE  \* mutant: no mutual exclusion
MutexFree == mutex_ = NoOne
Lock(t) == MutexFree /\ mutex_' = t
Unlock_Forgotten == UNCHANGED mutex_  \* mutant: a missing unlock()
Unlock == mutex_' = NoOne

(***************************************************************************)
(* The connection, as TCP shows it to the server.  While the peer does not *)
(* read ("stalled") there is no room left and send(), which has no timeout,*)
(* blocks.  After the peer closed its end ("closed") sends are still       *)
(* accepted until the peer's reset arrives ("broken").  A reset of an open *)
(* connection ("reset") is reported once, by the next recv() or send(),    *)
(* then it is "broken" too.                                                *)
(***************************************************************************)
Connected(c) == sock[c] \in {"open", "stalled"}

\* send() returned: with "stalled" it does not, and the thread stays where it is.
Sent(c, item) ==
  /\ sock[c] \in {"open", "closed"}
  /\ out' = [out EXCEPT ![c] = Append(@, item)]
  /\ UNCHANGED sock

SendError(c) ==
  /\ \/ sock[c] = "reset"
     \/ sock[c] = "broken" /\ "error" \in OnBroken
  /\ sock' = [sock EXCEPT ![c] = "broken"]
  /\ UNCHANGED out

ErrorReported(c) ==
  sock' = IF sock[c] = "reset" THEN [sock EXCEPT ![c] = "broken"] ELSE sock

Status(code) == [kind |-> "status", code |-> code]

\* What the peer does is of no effect before its thread started or after it
\* ended.
Peer(c) == proc = "up" /\ pc[c] \notin {"none", "done"}

Offered(c) ==
  [type : {"auth"}, name : Names, pass : Passwords]
    \cup [type : {"text"}, n : {nsent[c] + 1}]
    \cup {m \in [type : {"other"}] : "other" \in Faults}

PeerSend(c) ==
  /\ Peer(c) /\ Connected(c) /\ nsent[c] < MaxSend
  /\ \E m \in Offered(c) : in' = [in EXCEPT ![c] = Append(@, m)]
  /\ nsent' = [nsent EXCEPT ![c] = @ + 1]
  /\ UNCHANGED <<proc, mainVars, lockVars, dataVars, pc, clientVars, localVars,
                 sock, buf, out, since>>

InSend(c) ==
  \/ pc[c] \in {"refuse", "reply", "error"}
  \/ pc[c] \in {"backflush", "flush"} /\ queue_[c] # <<>>

\* The peer does not read, or goes on to: of no effect but on a thread in send().
PeerStall(c) ==
  /\ "stall" \in Faults
  /\ Peer(c) /\ InSend(c) /\ Connected(c)
  /\ sock' = [sock EXCEPT ![c] = IF @ = "open" THEN "stalled" ELSE "open"]
  /\ UNCHANGED <<proc, mainVars, lockVars, dataVars, pc, clientVars, localVars,
                 in, buf, out, nsent, since>>

\* A peer that closes with unread data resets the connection instead.
PeerClose(c) ==
  /\ "close" \in Faults
  /\ Peer(c) /\ sock[c] = "open"
  /\ sock' = [sock EXCEPT ![c] = "closed"]
  /\ UNCHANGED <<proc, mainVars, lockVars, dataVars, pc, clientVars, localVars,
                 in, buf, out, nsent, since>>

\* The peer's reset: its answer to what is sent after it closed, or at any time.
PeerReset(c) ==
  /\ Peer(c)
  /\ \/ /\ "close" \in Faults /\ sock[c] = "closed" /\ InSend(c)
        /\ sock' = [sock EXCEPT ![c] = "broken"]
     \/ /\ "reset" \in Faults /\ Connected(c)
        /\ sock' = [sock EXCEPT ![c] = "reset"]
  /\ UNCHANGED <<proc, mainVars, lockVars, dataVars, pc, clientVars, localVars,
                 in, buf, out, nsent, since>>

(***************************************************************************)
(* The main thread: Server::waitConnexion.  The constructor of Client      *)
(* starts the thread of the client before the client is in clients_.       *)
(***************************************************************************)
Accept(c) ==
  /\ At(c, "none") /\ pcMain = "accept"
  /\ pcMain' = "register" /\ newClient' = c
  /\ Goto(c, "auth")
  /\ UNCHANGED <<proc, lockVars, dataVars, clientVars, localVars, netVars, since>>

RegisterLock ==
  /\ proc = "up" /\ pcMain = "register"
  /\ Lock(Main)
  /\ pcMain' = "push"
  /\ UNCHANGED <<proc, newClient, todo, dataVars, pc, clientVars, localVars,
                 netVars, since>>

RegisterPush ==
  /\ proc = "up" /\ pcMain = "push"
  /\ clients_' = clients_ \cup {newClient}
  /\ Unlock
  /\ pcMain' = "accept" /\ newClient' = NoOne
  /\ since' = IF auth_[newClient]
                THEN [since EXCEPT ![newClient] = Len(backlog_)] ELSE since
  /\ UNCHANGED <<proc, todo, users_, backlog_, pc, clientVars, localVars, netVars>>

(***************************************************************************)
(* Client::waitAuthentification with Server::authentificate.               *)
(***************************************************************************)
IsAuth(m) == m.type = "auth"

AuthRecv(c) ==
  /\ At(c, "auth") /\ in[c] # <<>>
  /\ LET m == Head(in[c]) IN
       \/ /\ IsAuth(m)
          /\ cred' = [cred EXCEPT ![c] = [name |-> m.name, pass |-> m.pass]]
          /\ Goto(c, "lookup")
       \/ /\ ~IsAuth(m)
          /\ Goto(c, "done")
          /\ UNCHANGED cred
  /\ buf' = [buf EXCEPT ![c] = Tail(in[c])]
  /\ in' = [in EXCEPT ![c] = <<>>]
  /\ UNCHANGED <<proc, mainVars, lockVars, dataVars, clientVars, slot, snapshot,
                 text, sock, out, nsent, since>>

NoMessage_Ignored == "lookup"  \* mutant: nullptr not checked
NoMessage == "done"

\* getMessage() returned nullptr: end of stream, an error, or one recv() that
\* brought only the first bytes of the message.
AuthNoMessage(c) ==
  /\ At(c, "auth")
  /\ \/ in[c] = <<>> /\ ~Connected(c) /\ ErrorReported(c)
     \/ in[c] # <<>> /\ "fragment" \in Faults /\ UNCHANGED sock
  /\ Goto(c, NoMessage)
  /\ UNCHANGED <<proc, mainVars, lockVars, dataVars, clientVars, localVars,
                 in, buf, out, nsent, since>>

FirstNamed(i, n) ==
  /\ users_[i].name = n
  /\ \A j \in 1 .. i-1 : users_[j].name # n

PassMatches_Any(u, c) == TRUE  \* mutant: validatePass() not called
PassMatches(u, c) == u.pass = cred[c].pass

Lookup(c) ==
  /\ At(c, "lookup")
  /\ \/ /\ \A i \in 1 .. Len(users_) : users_[i].name # cred[c].name
        /\ Goto(c, "adduser")
     \/ \E i \in 1 .. Len(users_) :
          /\ FirstNamed(i, cred[c].name)
          /\ Goto(c, IF PassMatches(users_[i], c) THEN "scan" ELSE "refuse")
  /\ UNCHANGED <<proc, mainVars, lockVars, dataVars, clientVars, localVars,
                 netVars, since>>

\* Some thread changes clients_, or the name_ of one of its elements, while the
\* scan, which takes no lock, reads them.
ClientsChanging ==
  \/ pcMain = "push"
  \/ \E d \in Clients : pc[d] = "erase"
  \/ \E d \in clients_ : pc[d] = "setname"

NameTaken_AnyName(n) == \E d \in clients_ : ~auth_[d]  \* mutant: names not compared
NameTaken(n) == \E d \in clients_ : ~auth_[d] /\ name_[d] = n

Scan(c) ==
  /\ At(c, "scan")
  /\ \/ NameTaken(cred[c].name) /\ Goto(c, "refuse")
     \/ /\ ~NameTaken(cred[c].name) \/ ClientsChanging
        /\ Goto(c, "reply")
  /\ UNCHANGED <<proc, mainVars, lockVars, dataVars, clientVars, localVars,
                 netVars, since>>

AddUser(c) ==
  /\ At(c, "adduser")
  /\ \/ /\ \E i \in 1 .. Len(users_) : users_[i].name = cred[c].name
        /\ Goto(c, "refuse")
        /\ UNCHANGED slot
     \/ /\ \A i \in 1 .. Len(users_) : users_[i].name # cred[c].name
        /\ slot' = [slot EXCEPT ![c] = Len(users_) + 1]
        /\ Goto(c, "pushuser")
  /\ UNCHANGED <<proc, mainVars, lockVars, dataVars, clientVars, cred, snapshot,
                 text, netVars, since>>

\* push_back stores at the end it has read, before or after the push_back of
\* another thread: what that thread stored there is then lost.
Stored_First(k, u) == <<u>> \o users_  \* mutant: at the front
Stored(k, u) == Append(SubSeq(users_, 1, k-1), u)

PushUser(c) ==
  /\ At(c, "pushuser")
  /\ \E k \in {slot[c], Len(users_) + 1} :
       k <= Len(users_) + 1 /\ users_' = Stored(k, cred[c])
  /\ slot' = [slot EXCEPT ![c] = 0]
  /\ Goto(c, "reply")
  /\ UNCHANGED <<proc, mainVars, lockVars, clients_, backlog_, clientVars, cred,
                 snapshot, text, netVars, since>>

Refused_GoesOn == "setname"  \* mutant: return false missing
Refused == "done"

Refuse(c) ==
  /\ At(c, "refuse")
  /\ Sent(c, Status("not_auth")) \/ SendError(c)
  /\ Goto(c, Refused)
  /\ UNCHANGED <<proc, mainVars, lockVars, dataVars, clientVars, localVars,
                 in, buf, nsent, since>>

Reply(c) ==
  /\ At(c, "reply")
  /\ \/ Sent(c, Status("ok")) /\ Goto(c, "setname")
     \/ SendError(c) /\ Goto(c, "done")
  /\ UNCHANGED <<proc, mainVars, lockVars, dataVars, clientVars, localVars,
                 in, buf, nsent, since>>

SetName(c) ==
  /\ At(c, "setname")
  /\ name_' = [name_ EXCEPT ![c] = cred[c].name]
  /\ Goto(c, "setauth")
  /\ UNCHANGED <<proc, mainVars, lockVars, dataVars, auth_, queue_, localVars,
                 netVars, since>>

SenderActive == \E s \in Clients : pc[s] = "sending"

SetAuth(c) ==
  /\ At(c, "setauth")
  /\ auth_' = [auth_ EXCEPT ![c] = TRUE]
  /\ Goto(c, "copy")
  /\ since' = IF c \in clients_
                THEN [since EXCEPT ![c] = IF SenderActive /\ c \notin todo
                                            THEN Len(backlog_) + 1
                                            ELSE Len(backlog_)]
                ELSE since
  /\ UNCHANGED <<proc, mainVars, lockVars, dataVars, name_, queue_, localVars,
                 netVars>>

(***************************************************************************)
(* Server::getBacklog and Client::sendQueuedMessages.                      *)
(***************************************************************************)
CopyBacklog(c) ==
  /\ At(c, "copy")
  /\ snapshot' = [snapshot EXCEPT ![c] = backlog_]
  /\ Goto(c, "backlog")
  /\ UNCHANGED <<proc, mainVars, lockVars, dataVars, clientVars, cred, slot,
                 text, netVars, since>>

\* mutant: off by one, the oldest text is skipped
Replay_FromSecond(s) ==
  [i \in 1 .. Len(s) - 1 |-> [kind |-> "replay", text |-> s[i+1]]]
Replay(s) == [i \in 1 .. Len(s) |-> [kind |-> "replay", text |-> s[i]]]

QueueBacklog(c) ==
  /\ At(c, "backlog")
  /\ MutexFree
  /\ queue_' = [queue_ EXCEPT ![c] = @ \o Replay(snapshot[c])]
  /\ snapshot' = [snapshot EXCEPT ![c] = <<>>]
  /\ Goto(c, "backflush")
  /\ UNCHANGED <<proc, mainVars, lockVars, dataVars, name_, auth_, cred, slot,
                 text, netVars, since>>

\* The result of the flush that follows getBacklog is ignored, the one of the
\* flush in the loop ends the session.
FlushOne(c) ==
  /\ At(c, "backflush") \/ At(c, "flush")
  /\ queue_[c] # <<>>
  /\ queue_' = [queue_ EXCEPT ![c] = Tail(@)]
  /\ \/ Sent(c, Head(queue_[c])) /\ UNCHANGED pc
     \/ SendError(c) /\ Goto(c, IF pc[c] = "flush" THEN "unreg" ELSE "flush")
  /\ UNCHANGED <<proc, mainVars, lockVars, dataVars, name_, auth_, localVars,
                 in, buf, nsent, since>>

QueueEmpty_Assumed(c) == TRUE  \* mutant: the loop ends too early
QueueEmpty(c) == queue_[c] = <<>>

FlushDone(c) ==
  /\ At(c, "backflush") \/ At(c, "flush")
  /\ QueueEmpty(c)
  /\ Goto(c, IF pc[c] = "flush" THEN "read" ELSE "flush")
  /\ UNCHANGED <<proc, mainVars, lockVars, dataVars, clientVars, localVars,
                 netVars, since>>

(***************************************************************************)
(* Client::waitMessage with Server::sendText.  recv() is called only when  *)
(* the buffer holds no message and then takes all the socket holds (bound: *)
(* what a peer sends fits the 1024 bytes of the buffer).  A message that   *)
(* has not arrived whole is like one that has not arrived.                 *)
(***************************************************************************)
\* mutant: recv() before looking into the buffer
Got_SocketFirst(c) == IF in[c] # <<>> THEN in[c] ELSE buf[c]
Got(c) == IF buf[c] # <<>> THEN buf[c] ELSE in[c]

Take(c) ==
  /\ At(c, "read") /\ Got(c) # <<>>
  /\ buf' = [buf EXCEPT ![c] = Tail(Got(c))]
  /\ in' = IF buf[c] # <<>> THEN in ELSE [in EXCEPT ![c] = <<>>]

ReadText(c) ==
  /\ Take(c)
  /\ Head(Got(c)).type = "text"
  /\ text' = [text EXCEPT ![c] = Head(Got(c)).n]
  /\ Goto(c, "sendlock")
  /\ UNCHANGED <<proc, mainVars, lockVars, dataVars, clientVars, cred, slot,
                 snapshot, sock, out, nsent, since>>

ReadOther(c) ==
  /\ Take(c)
  /\ Head(Got(c)).type # "text"
  /\ Goto(c, "error")
  /\ UNCHANGED <<proc, mainVars, lockVars, dataVars, clientVars, localVars,
                 sock, out, nsent, since>>

\* After the login recv() does not block: with nothing complete in the buffer
\* and nothing in the socket it times out, and the thread goes on.
TimesOut(c) == Got(c) = <<>>

ReadNothing(c) ==
  /\ At(c, "read") /\ TimesOut(c)
  /\ ErrorReported(c)
  /\ Goto(c, "peek")
  /\ UNCHANGED <<proc, mainVars, lockVars, dataVars, clientVars, localVars,
                 in, buf, out, nsent, since>>

ReplyError(c) ==
  /\ At(c, "error")
  /\ Sent(c, Status("not_ok")) \/ SendError(c)
  /\ Goto(c, "peek")
  /\ UNCHANGED <<proc, mainVars, lockVars, dataVars, clientVars, localVars,
                 in, buf, nsent, since>>

ServerText(c) == [user |-> name_[c], from |-> c, n |-> text[c]]

SendLock(c) ==
  /\ At(c, "sendlock")
  /\ Lock(c)
  /\ todo' = clients_
  /\ Goto(c, "sending")
  /\ UNCHANGED <<proc, mainVars, dataVars, clientVars, localVars, netVars, since>>

Queued(d, e) == [queue_ EXCEPT ![d] = Append(@, e)]

Hears_Everyone(d) == TRUE  \* mutant: isAuth() not checked
Hears(d) == auth_[d]

SendQueue(c, d) ==
  /\ At(c, "sending") /\ d \in todo
  /\ queue_' = IF Hears(d)
                 THEN Queued(d, [kind |-> "live", text |-> ServerText(c)])
                 ELSE queue_
  /\ todo' = todo \ {d}
  /\ UNCHANGED <<proc, mainVars, mutex_, dataVars, pc, name_, auth_, localVars,
                 netVars, since>>

Recorded(t) == Append(backlog_, t)

SendCommit(c) ==
  /\ At(c, "sending") /\ todo = {}
  /\ backlog_' = Recorded(ServerText(c))
  /\ Unlock
  /\ text' = [text EXCEPT ![c] = 0]
  /\ Goto(c, "peek")
  /\ UNCHANGED <<proc, mainVars, todo, clients_, users_, clientVars, cred, slot,
                 snapshot, netVars, since>>

(***************************************************************************)
(* The end of the loop of Client::handleClient: recv(MSG_PEEK) looks at    *)
(* the socket, not at what the buffer still holds.                         *)
(***************************************************************************)
EndOfStream_ErrorOnly(c) == in[c] = <<>> /\ sock[c] = "broken"  \* mutant: 0 ignored
EndOfStream(c) == in[c] = <<>> /\ sock[c] \in {"closed", "broken"}

PeekClosed(c) ==
  /\ At(c, "peek") /\ EndOfStream(c)
  /\ Goto(c, "unreg")
  /\ UNCHANGED <<proc, mainVars, lockVars, dataVars, clientVars, localVars,
                 netVars, since>>

PeekOpen(c) ==
  /\ At(c, "peek") /\ ~EndOfStream(c)
  /\ IF in[c] = <<>> THEN ErrorReported(c) ELSE UNCHANGED sock
  /\ Goto(c, "flush")
  /\ UNCHANGED <<proc, mainVars, lockVars, dataVars, clientVars, localVars,
                 in, buf, out, nsent, since>>

UnregLock(c) ==
  /\ At(c, "unreg")
  /\ Lock(c)
  /\ Goto(c, "erase")
  /\ UNCHANGED <<proc, mainVars, todo, dataVars, clientVars, localVars, netVars,
                 since>>

Erase(c) ==
  /\ At(c, "erase")
  /\ clients_' = clients_ \ {c}
  /\ Unlock
  /\ Goto(c, "clearauth")
  /\ UNCHANGED <<proc, mainVars, todo, users_, backlog_, clientVars, localVars,
                 netVars, since>>

ClearAuth(c) ==
  /\ At(c, "clearauth")
  /\ auth_' = [auth_ EXCEPT ![c] = FALSE]
  /\ Goto(c, "done")
  /\ UNCHANGED <<proc, mainVars, lockVars, dataVars, name_, queue_, localVars,
                 netVars, since>>

(***************************************************************************)
(* What ends the whole process.                                            *)
(***************************************************************************)
\* send() on a socket whose peer is gone: no handler, no MSG_NOSIGNAL.
SigPipe(c) ==
  /\ proc = "up" /\ "sigpipe" \in OnBroken /\ sock[c] = "broken" /\ InSend(c)
  /\ proc' = "sigpipe"
  /\ UNCHANGED <<mainVars, lockVars, dataVars, pc, clientVars, localVars,
                 netVars, since>>

UsersRace ==
  \E c, d \in Clients : /\ c # d /\ pc[c] = "pushuser"
                        /\ pc[d] \in {"lookup", "adduser", "pushuser"}

ScanRace == (\E c \in Clients : pc[c] = "scan") /\ ClientsChanging

BacklogRace ==
  \E c, d \in Clients : pc[c] = "copy" /\ pc[d] = "sending" /\ todo = {}

\* A vector or string read while another thread reallocates it.
DataRace ==
  /\ proc = "up"
  /\ UsersRace \/ ScanRace \/ BacklogRace
  /\ proc' = "race"
  /\ UNCHANGED <<mainVars, lockVars, dataVars, pc, clientVars, localVars,
                 netVars, since>>

(***************************************************************************)
(* The specification.                                                      *)
(***************************************************************************)
PeerStep(c) == PeerSend(c) \/ PeerStall(c) \/ PeerClose(c) \/ PeerReset(c)

Authenticate(c) ==
  \/ AuthRecv(c) \/ AuthNoMessage(c) \/ Lookup(c) \/ Scan(c) \/ AddUser(c)
  \/ PushUser(c) \/ Refuse(c) \/ Reply(c) \/ SetName(c) \/ SetAuth(c)

SendQueued(c) ==
  \/ CopyBacklog(c) \/ QueueBacklog(c) \/ FlushOne(c) \/ FlushDone(c)

HandleMessage(c) ==
  \/ ReadText(c) \/ ReadOther(c) \/ ReadNothing(c) \/ ReplyError(c)
  \/ SendLock(c) \/ (\E d \in Clients : SendQueue(c, d)) \/ SendCommit(c)

Leave(c) ==
  PeekClosed(c) \/ PeekOpen(c) \/ UnregLock(c) \/ Erase(c) \/ ClearAuth(c)

ThreadStep(c) ==
  \/ Authenticate(c) \/ SendQueued(c) \/ HandleMessage(c) \/ Leave(c)
  \/ SigPipe(c)

Register == RegisterLock \/ RegisterPush
MainStep == (\E c \in Clients : Accept(c)) \/ Register

Next ==
  \/ MainStep
  \/ \E c \in Clients : ThreadStep(c) \/ PeerStep(c)
  \/ DataRace

Spec == Init /\ [][Next]_vars

\* The operating system runs every thread of the server that does not wait for
\* mutex_ or in send(); nothing obliges a peer to send, to read or to hang up,
\* nor a race to do harm.
Fairness ==
  /\ WF_vars(Register)
  /\ \A c \in Clients : WF_vars(ThreadStep(c))

FairSpec == Spec /\ Fairness
=============================================================================
