------------------------ MODULE ChatServerProperties ------------------------
(***************************************************************************)
(* What the chat server promises, stated over the state of ChatServer.     *)
(***************************************************************************)
EXTENDS ChatServer

Critical == {"sending", "erase"}
Accepted == {"reply", "setname", "setauth", "copy", "backlog", "backflush",
             "flush", "read", "error", "sendlock", "sending", "peek", "unreg",
             "erase", "clearauth"}
Serving  == {"flush", "read", "error", "sendlock", "sending", "peek", "unreg"}

ControlTypes ==
  /\ proc \in {"up", "sigpipe", "race"}
  /\ pcMain \in {"accept", "register", "push"}
  /\ newClient \in IF pcMain = "accept" THEN {NoOne} ELSE Clients
  /\ mutex_ \in Clients \cup {Main, NoOne}
  /\ clients_ \subseteq Clients /\ todo \subseteq Clients
  /\ pc \in [Clients -> Labels]
  /\ auth_ \in [Clients -> BOOLEAN]

AccountTypes ==
  /\ users_ \in Seq(Creds)
  /\ name_ \in [Clients -> Names \cup {NoName}]
  /\ cred \in [Clients -> Creds \cup {NoCred}]
  /\ slot \in [Clients -> Nat]

TextTypes ==
  /\ backlog_ \in Seq(Texts)
  /\ snapshot \in [Clients -> Seq(Texts)]
  /\ queue_ \in [Clients -> Seq(Entries)]
  /\ text \in [Clients -> 0 .. MaxSend]
  /\ since \in [Clients -> Nat]

NetTypes ==
  /\ sock \in [Clients -> {"open", "stalled", "closed", "reset", "broken"}]
  /\ in \in [Clients -> Seq(Inputs)] /\ buf \in [Clients -> Seq(Inputs)]
  /\ out \in [Clients -> Seq(Entries \cup Replies)]
  /\ nsent \in [Clients -> 0 .. MaxSend]

\* The locals of the login are credentials once a MSG_AUTH was read, and
\* sendText has a text to send.
LocalsRead ==
  \A c \in Clients :
    /\ pc[c] \in {"lookup", "scan", "adduser", "pushuser", "refuse"} \cup Accepted
         => cred[c] \in Creds
    /\ pc[c] \in {"sendlock", "sending"} => text[c] # 0

\* Every variable holds values of its C++ type, and no thread uses a local
\* before it was read from a message.
TypeOK == ControlTypes /\ AccountTypes /\ TextTypes /\ NetTypes /\ LocalsRead

(***************************************************************************)
(* The server's mutex.                                                     *)
(***************************************************************************)

\* Server::mutex_ is held by exactly the thread that is between lock() and
\* unlock() in waitConnexion, sendText or unregister, so at most one is.
MutexHeld ==
  /\ \A c \in Clients : mutex_ = c <=> pc[c] \in Critical
  /\ mutex_ = Main <=> pcMain = "push"

(***************************************************************************)
(* Accounts.                                                               *)
(***************************************************************************)
Loaded(n) == \E i \in 1 .. Len(LoadedUsers) : LoadedUsers[i].name = n

\* The password of the first account named n in the file: getUser returns the
\* first match.
FirstLoaded(i, n) ==
  /\ LoadedUsers[i].name = n
  /\ \A j \in 1 .. i-1 : LoadedUsers[j].name # n

LoadedPass(n) ==
  LoadedUsers[CHOOSE i \in 1 .. Len(LoadedUsers) : FirstLoaded(i, n)].pass

\* Whoever speaks under a name that has an account in the database file knows
\* its password, whatever logins race to create accounts meanwhile.
LoadedAccountsSafe ==
  \A c \in Clients :
    auth_[c] /\ Loaded(name_[c])
      => cred[c].name = name_[c] /\ cred[c].pass = LoadedPass(name_[c])

FileKept ==
  /\ Len(LoadedUsers) <= Len(users_)
  /\ \A i \in 1 .. Len(LoadedUsers) : users_[i] = LoadedUsers[i]

Accounts == {users_[i] : i \in 1 .. Len(users_)}
Knows(c) == Loaded(cred[c].name) /\ cred[c].pass = LoadedPass(cred[c].name)

\* The accounts of the file stay where they are, and an account a client logged
\* in to or created is lost only to another client that creates an account, too:
\* two push_back() calls on users_ that take no lock may store in one place.
AccountsKept ==
  /\ FileKept
  /\ \A c \in Clients :
       pc[c] \in Accepted /\ cred[c] \notin Accounts
         => /\ ~Loaded(cred[c].name)
            /\ \E d \in Clients \ {c} : /\ pc[d] \in Accepted \cup {"done"}
                                      /\ cred[d] # NoCred /\ ~Loaded(cred[d].name)

\* Who knows the password of an account of the file is turned away only under a
\* name that somebody else has logged in with, or under the empty name, which
\* every client has before its login.
RefusedForAReason ==
  \A c \in Clients :
    pc[c] = "refuse" /\ Knows(c)
      => cred[c].name = NoName \/ \E d \in Clients \ {c} : name_[d] = cred[c].name

Vetted(c) ==
  Loaded(cred[c].name) => cred[c].pass = LoadedPass(cred[c].name)

Named == Accepted \ {"reply", "setname"}

Login(c) ==
  /\ pc[c] = "pushuser" =>
       slot[c] > Len(LoadedUsers) /\ ~Loaded(cred[c].name)
  /\ pc[c] \in Accepted \cup {"scan"} => Vetted(c)
  /\ pc[c] \in Named => name_[c] = cred[c].name
  /\ auth_[c] => pc[c] \in Named

\* The inductive strengthening of LoadedAccountsSafe: users_ always begins with
\* the accounts of the file, a push_back that is under way stores behind them a
\* name they do not have, and what passed the check of the password stays what
\* it was until the client is named and marked authenticated.
AccountInv == FileKept /\ \A c \in Clients : Login(c)

(***************************************************************************)
(* Texts.                                                                  *)
(***************************************************************************)
\* The texts of those items of s that are of one kind, in their order.
TextsOf(kind, s) ==
  LET Upto[i \in 0 .. Len(s)] ==
        IF i = 0 THEN <<>>
        ELSE IF s[i].kind = kind THEN Append(Upto[i-1], s[i].text)
        ELSE Upto[i-1]
  IN  Upto[Len(s)]

\* Everything c was or will be sent.
Stream(c) == out[c] \o queue_[c]

\* No text of the queue of c was dropped by a failing send().
Intact(c) == sock[c] # "broken"

\* The backlog, with the text that is being queued if c has already been
\* visited by the loop of sendText.
LogFor(c) ==
  IF \E s \in Clients : pc[s] = "sending" /\ c \notin todo
    THEN Append(backlog_, ServerText(CHOOSE s \in Clients : pc[s] = "sending"))
    ELSE backlog_

Inside(c) == c \in clients_ /\ auth_[c]
Gone(c) == ~Inside(c) /\ newClient # c /\ pc[c] \in {"clearauth", "done"}
Outside(c) == ~Inside(c) /\ ~Gone(c)

\* From the moment a client is both registered and authenticated, sendText
\* gives it every text exactly once and in the order of the backlog.
LiveExact ==
  \A c \in clients_ :
    auth_[c] /\ Intact(c) /\ proc = "up"
      => TextsOf("live", Stream(c)) =
           SubSeq(LogFor(c), since[c] + 1, Len(LogFor(c)))

\* What is replayed to a new client is the beginning of the backlog, in order
\* and without holes.
ReplayIsPrefix ==
  \A c \in Clients :
    Intact(c) =>
      LET replayed == TextsOf("replay", Stream(c)) IN
        /\ Len(replayed) <= Len(backlog_)
        /\ replayed = SubSeq(backlog_, 1, Len(replayed))

Begins(s, t) == Len(s) <= Len(t) /\ s = SubSeq(t, 1, Len(s))
Fresh == {"none", "auth", "lookup", "scan", "adduser", "pushuser", "refuse",
          "reply", "setname", "setauth", "copy", "backlog"}

Membership(c) ==
  /\ auth_[c] <=> pc[c] \in Named \ {"setauth"}
  /\ c \in todo => c \in clients_ /\ SenderActive
  /\ c \in clients_ => newClient # c
  /\ pc[c] = "none" => c \notin clients_ /\ newClient # c

LiveOf(c) ==
  /\ Outside(c) => TextsOf("live", Stream(c)) = <<>>
  /\ Inside(c) => since[c] <= Len(LogFor(c))
  /\ Inside(c) /\ Intact(c) =>
       TextsOf("live", Stream(c)) = SubSeq(LogFor(c), since[c] + 1, Len(LogFor(c)))

ReplayOf(c) ==
  /\ pc[c] \in Fresh => TextsOf("replay", Stream(c)) = <<>>
  /\ Begins(snapshot[c], backlog_)
  /\ Intact(c) => Begins(TextsOf("replay", Stream(c)), backlog_)

\* The inductive strengthening of LiveExact and ReplayIsPrefix: who is marked
\* authenticated and who is registered follows from where the threads are, the
\* loop of sendText visits registered clients only, a client that never was
\* inside was given nothing live, and what getBacklog copied is a beginning of
\* the backlog until it is queued, which happens once.
RelayInv == \A c \in Clients : Membership(c) /\ LiveOf(c) /\ ReplayOf(c)

\* A text of the backlog carries the name of an account its author logged in
\* to, and the author was told STATUS_OK before it could speak.
SpeakersAreAuthenticated ==
  \A i \in 1 .. Len(backlog_) :
    backlog_[i].from \in Clients =>
      LET c == backlog_[i].from IN
        /\ cred[c] # NoCred /\ backlog_[i].user = cred[c].name
        /\ \E j \in 1 .. Len(out[c]) : out[c][j] = Status("ok")

\* The texts of one author enter the backlog once each and in the order they
\* were sent, however they were split between recv() calls.
AuthorOrder ==
  \A i, j \in 1 .. Len(backlog_) :
    i < j /\ backlog_[i].from = backlog_[j].from /\ backlog_[i].from # "past"
      => backlog_[i].n < backlog_[j].n

\* The first thing a peer is sent is the answer to its login, and texts only
\* follow a good one: the client takes whatever comes first for a MessageStatus.
StatusFirst ==
  \A c \in Clients :
    out[c] # <<>> =>
      /\ out[c][1].kind = "status"
      /\ Len(out[c]) > 1 => out[c][1] = Status("ok")

(***************************************************************************)
(* Liveness, as long as the process lives.  Clients are interchangeable in *)
(* Init, in Next and in Fairness: what holds of one of them holds of all.  *)
(***************************************************************************)
Watched == CHOOSE c \in Clients : TRUE

\* A text the server took from a peer is recorded in the backlog, whoever else
\* wants the mutex and whoever does not read: no thread blocks in send() while it
\* holds the mutex, and a thread in sendText never waits for ever.  (The first
\* message of a peer that gets there is its login.)
TakenIsLogged ==
  \A n \in 2 .. MaxSend :
    (text[Watched] = n)
      ~> (proc # "up" \/ \E i \in 1 .. Len(backlog_) :
                           backlog_[i].from = Watched /\ backlog_[i].n = n)

\* The queue of a client that is served, stays connected and reads what it is
\* sent is emptied, even while another peer reads nothing.
QueueDrains ==
  (pc[Watched] \in Serving /\ queue_[Watched] # <<>>)
    ~> (proc # "up" \/ queue_[Watched] = <<>> \/ sock[Watched] # "open")

\* A registered client whose peer hung up is removed from clients_, whatever
\* the peer left unread.
HungUpLeaves ==
  (/\ Watched \in clients_ /\ pc[Watched] \in Serving
   /\ sock[Watched] \in {"closed", "broken"})
    ~> (proc # "up" \/ Watched \notin clients_)
=============================================================================
