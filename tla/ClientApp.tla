------------------------------ MODULE ClientApp ------------------------------
(***************************************************************************)
(* The chat client from the login to the end of main()                     *)
(* (Client/Client/Client.cpp, mainLoop and the two threads it starts, and  *)
(* the end of Client/Client/Main.cpp).  checkInput and checkSocket poll the*)
(* keyboard and the socket; when there is something they take mutexType_,  *)
(* write their number in type_, notify the main thread and wait, mutexType_*)
(* still locked, until the main thread has handled it and notifies them.   *)
(* No wait has a predicate and the threads share no mutex with the waits:  *)
(* a notify_one() that finds nobody waiting is lost, and nothing keeps that*)
(* from happening: the sleeps of mainLoop only precede the first wake-up.  *)
(*                                                                         *)
(* The bytes of a message are abstracted to two halves; the answer to the  *)
(* login always arrives whole.                                             *)
(***************************************************************************)
EXTENDS Naturals

CONSTANTS
  MaxTexts,   \* bound: messages the server sends
  MaxKeys,    \* bound: keystrokes
  Platforms,  \* the systems the client is built for
  MaxSpurious \* bound: times a wait() returns without notify_one(), as C++
              \* allows

ASSUME BoundsAssumption == {MaxTexts, MaxKeys, MaxSpurious} \subseteq Nat
ASSUME PlatformAssumption == Platforms \subseteq {"linux", "windows"}

Threads == {"input", "socket"}
Kind(t) == IF t = "input" THEN 0 ELSE 1

VARIABLES
  pcMain,     \* where the main thread is; "killed" after a SIGPIPE
  status,     \* its local variable status
  visit,      \* local to a turn of its loop: the thread whose event it handles
  type_,      \* Client::type_, 2 while it is not initialised
  running_,   \* Client::running_
  typeLock,   \* the thread that holds mutexType_, or "nobody"
  pc, locked, \* where each thread is, and its local variable locked
  answer,     \* the server's answer to the login: "none", "ok" or "refused"
  socketIn,   \* halves of messages in the socket
  closed,     \* the server closed the connection
  stalled,    \* send() would find no room for the next line, and block
  buffer_,    \* halves of messages in NetworkBuffer
  taken,      \* messages getMessage has returned
  foreign,    \* the numbers of those messages that are no server texts
  shown,      \* the numbers of those that were printed
  served,     \* halves the server has sent
  platform,   \* where the client runs
  keys,       \* keystrokes not yet read, in the order typed: "char", or the
              \* Enter that ends a line: "blank", "line" or "quit"
  typed,      \* number of keystrokes so far
  lost,       \* history: a notify_one() missed a thread that was about to wait
  spurred     \* history: number of wait()s that returned un-notified

mainVars   == <<pcMain, status, visit>>
sharedVars == <<type_, running_, typeLock>>
threadVars == <<pc, locked>>
netVars    == <<answer, socketIn, closed, stalled, buffer_, taken, foreign,
                shown, served>>
keyVars    == <<platform, keys, typed>>
history    == <<lost, spurred>>
vars == <<mainVars, sharedVars, threadVars, netVars, keyVars, history>>

Init ==
  /\ pcMain = "auth" /\ status = TRUE /\ visit = "nobody"
  /\ type_ = 2 /\ running_ = FALSE /\ typeLock = "nobody"
  /\ pc = [t \in Threads |-> "none"] /\ locked = [t \in Threads |-> FALSE]
  /\ answer = "none" /\ socketIn = 0 /\ closed = FALSE /\ stalled = FALSE
  /\ buffer_ = 0 /\ taken = 0 /\ foreign = {} /\ shown = {} /\ served = 0
  /\ platform \in Platforms
  /\ keys = [k \in {} |-> "char"] /\ typed = 0
  /\ lost = FALSE /\ spurred = 0

Enter == {i \in DOMAIN keys : keys[i] # "char"}
FirstEnter == CHOOSE i \in Enter : \A j \in Enter : i <= j

\* The next line getLine returns is one getInput sends.
Sends == Enter # {} /\ keys[FirstEnter] = "line"

\* The process has ended.
Over == pcMain \in {"exited", "killed"}

(***************************************************************************)
(* The user and the server.                                                *)
(***************************************************************************)
Key(k) ==
  /\ typed < MaxKeys
  /\ typed' = typed + 1
  /\ keys' = [i \in DOMAIN keys \cup {typed + 1} |->
                IF i = typed + 1 THEN k ELSE keys[i]]
  /\ UNCHANGED <<mainVars, sharedVars, threadVars, netVars, platform, history>>

ServerAnswers(a) ==
  /\ answer = "none" /\ ~closed
  /\ answer' = a
  /\ UNCHANGED <<mainVars, sharedVars, threadVars, socketIn, closed, stalled,
                 buffer_, taken, foreign, shown, served, keyVars, history>>

\* A whole message, or its first or second half; other says that it is no
\* server text.
ServerSends(halves, other) ==
  /\ answer = "ok" /\ ~closed
  /\ served + halves <= 2 * MaxTexts
  /\ halves = 2 \/ other => served % 2 = 0
  /\ served' = served + halves /\ socketIn' = socketIn + halves
  /\ foreign' = IF other THEN foreign \cup {served \div 2 + 1} ELSE foreign
  /\ UNCHANGED <<mainVars, sharedVars, threadVars, answer, closed, stalled,
                 buffer_, taken, shown, keyVars, history>>

\* Of a line that is typed and not yet sent: the server reads so little that
\* there is no room for it, or makes room again.
ServerStalls ==
  /\ Sends /\ ~closed
  /\ stalled' = ~stalled
  /\ UNCHANGED <<mainVars, sharedVars, threadVars, answer, socketIn, closed,
                 buffer_, taken, foreign, shown, served, keyVars, history>>

ServerCloses ==
  /\ ~closed /\ closed' = TRUE /\ stalled' = FALSE
  /\ UNCHANGED <<mainVars, sharedVars, threadVars, answer, socketIn,
                 buffer_, taken, foreign, shown, served, keyVars, history>>

(***************************************************************************)
(* Condition variables.  A thread in "waiting" is inside wait().           *)
(***************************************************************************)
\* A thread that has still to test running_ or to call wait() when it is
\* notified, and then waits for the next notification.
OnItsWay(t) == pc[t] = "wait" \/ (pc[t] = "test" /\ running_)

WakeThreads(S) ==
  /\ pc' = [t \in Threads |->
              IF t \in S /\ pc[t] = "waiting" THEN "woken" ELSE pc[t]]
  /\ lost' = (lost \/ \E t \in S : OnItsWay(t))
  /\ UNCHANGED spurred

SpuriousMain ==
  /\ spurred < MaxSpurious /\ pcMain = "waiting"
  /\ pcMain' = "woken" /\ spurred' = spurred + 1
  /\ UNCHANGED <<status, visit, sharedVars, threadVars, netVars, keyVars, lost>>

SpuriousThread(t) ==
  /\ spurred < MaxSpurious /\ pc[t] = "waiting" /\ ~Over
  /\ pc' = [pc EXCEPT ![t] = "woken"] /\ spurred' = spurred + 1
  /\ UNCHANGED <<mainVars, sharedVars, locked, netVars, keyVars, lost>>

(***************************************************************************)
(* Buffer::getMessage on the client's side and Client::getSocket.          *)
(***************************************************************************)
Received == IF buffer_ >= 2 THEN buffer_ ELSE buffer_ + socketIn

\* TRUE if getMessage returns a message.
GotMessage_Half == Received >= 1  \* mutant: one taken before it is complete
GotMessage == Received >= 2

\* What getSocket returns: FALSE also for a message that is no server text.
GotText == GotMessage /\ taken + 1 \notin foreign

PrintMessage == shown' = shown \cup {taken + 1}

GetSocket ==
  /\ buffer_' = IF GotMessage THEN Received - 2 ELSE Received
  /\ socketIn' = IF buffer_ >= 2 THEN socketIn ELSE 0
  /\ taken' = IF GotMessage THEN taken + 1 ELSE taken
  /\ IF GotText THEN PrintMessage ELSE UNCHANGED shown
  /\ UNCHANGED <<answer, closed, stalled, foreign, served>>

(***************************************************************************)
(* The main thread.  The answer to the login is printed and ignored.       *)
(***************************************************************************)
Authentificate ==
  /\ pcMain = "auth"
  /\ \/ answer # "none" /\ buffer_' = buffer_ + socketIn /\ socketIn' = 0
     \/ answer = "none" /\ closed /\ UNCHANGED <<buffer_, socketIn>>
  /\ pcMain' = "drain"
  /\ UNCHANGED <<status, visit, sharedVars, threadVars, answer, closed, stalled,
                 taken, foreign, shown, served, keyVars, history>>

Drain ==
  /\ pcMain = "drain"
  /\ GetSocket
  /\ pcMain' = IF GotText THEN "drain" ELSE "start"
  /\ UNCHANGED <<status, visit, sharedVars, threadVars, keyVars, history>>

StartThreads ==
  /\ pcMain = "start"
  /\ running_' = TRUE
  /\ pc' = [t \in Threads |-> "test"]
  /\ pcMain' = "wake"
  /\ UNCHANGED <<status, visit, type_, typeLock, locked,
                 netVars, keyVars, history>>

WakeThem ==
  /\ pcMain = "wake"
  /\ WakeThreads(Threads)
  /\ pcMain' = "wait"
  /\ UNCHANGED <<status, visit, sharedVars, locked, netVars, keyVars>>

MainWait ==
  /\ pcMain = "wait"
  /\ pcMain' = "waiting"
  /\ UNCHANGED <<status, visit, sharedVars, threadVars,
                 netVars, keyVars, history>>

\* status is not initialised when type_ is neither 0 nor 1.
HandleNothing ==
  /\ pcMain = "woken" /\ type_ = 2
  /\ \E s \in BOOLEAN : status' = s /\ pcMain' = IF s THEN "wait" ELSE "stop"
  /\ UNCHANGED <<visit, sharedVars, threadVars, netVars, keyVars, history>>

\* sendMessage on a connection the server has closed or reset: send() fails,
\* which is ignored, or raises SIGPIPE on Linux, which nothing handles.
SigPipe == Sends /\ closed /\ platform = "linux"

\* getLine returns at the first Enter, or when wgetch has timed out.
HandleInput ==
  /\ pcMain = "woken" /\ type_ = 0
  /\ ~stalled  \* send() blocks while there is no room
  /\ visit' = "input"
  /\ pcMain' = "notify" \/ (SigPipe /\ pcMain' = "killed")
  /\ \/ /\ Enter = {}
        /\ keys' = [k \in {} |-> "char"] /\ status' = TRUE
     \/ /\ Enter # {}
        /\ keys' = [i \in {j \in DOMAIN keys : j > FirstEnter} |-> keys[i]]
        /\ status' = (keys[FirstEnter] # "quit")
  /\ UNCHANGED <<sharedVars, threadVars, netVars, platform, typed, history>>

HandleSocket ==
  /\ pcMain = "woken" /\ type_ = 1
  /\ GetSocket
  /\ status' = GotText
  /\ visit' = "socket" /\ pcMain' = "notify"
  /\ UNCHANGED <<sharedVars, threadVars, keyVars, history>>

NotifyThread ==
  /\ pcMain = "notify"
  /\ WakeThreads({visit})
  /\ IF status THEN pcMain' = "wait" /\ visit' = "nobody"
               ELSE pcMain' = "stop" /\ UNCHANGED visit
  /\ UNCHANGED <<status, sharedVars, locked, netVars, keyVars>>

Stop ==
  /\ pcMain = "stop"
  /\ running_' = FALSE
  /\ pcMain' = "wakeall"
  /\ UNCHANGED <<status, visit, type_, typeLock, threadVars,
                 netVars, keyVars, history>>

WakeAll ==
  /\ pcMain = "wakeall"
  /\ WakeThreads(Threads)
  /\ pcMain' = "join"
  /\ UNCHANGED <<status, visit, sharedVars, locked, netVars, keyVars>>

Join ==
  /\ pcMain = "join"
  /\ \A t \in Threads : pc[t] = "ended"
  /\ pcMain' = "done"
  /\ UNCHANGED <<status, visit, sharedVars, threadVars,
                 netVars, keyVars, history>>

\* Back in main(): the terminal is restored, and then the client is deleted,
\* which closes the socket, and the process ends.
DestroyWindow ==
  /\ pcMain = "done"
  /\ pcMain' = "restored"
  /\ UNCHANGED <<status, visit, sharedVars, threadVars,
                 netVars, keyVars, history>>

DeleteClient ==
  /\ pcMain = "restored"
  /\ pcMain' = "exited"
  /\ UNCHANGED <<status, visit, sharedVars, threadVars,
                 netVars, keyVars, history>>

(***************************************************************************)
(* checkInput and checkSocket.                                             *)
(***************************************************************************)
Goto(t, label) == pc' = [pc EXCEPT ![t] = label]

Test(t) ==
  /\ pc[t] = "test"
  /\ Goto(t, IF running_ THEN "wait" ELSE "exit")
  /\ UNCHANGED <<mainVars, sharedVars, locked, netVars, keyVars, history>>

Wait(t) ==
  /\ pc[t] = "wait"
  /\ Goto(t, "waiting")
  /\ UNCHANGED <<mainVars, sharedVars, locked, netVars, keyVars, history>>

\* if(locked) mutexType_.unlock()
AfterUnlock_Forgotten(t) == typeLock  \* mutant: not unlocked
AfterUnlock(t) == IF locked[t] THEN "nobody" ELSE typeLock

Woken(t) ==
  /\ pc[t] = "woken"
  /\ typeLock' = AfterUnlock(t)
  /\ locked' = [locked EXCEPT ![t] = TRUE]
  /\ Goto(t, "poll")
  /\ UNCHANGED <<mainVars, type_, running_, netVars, keyVars, history>>

Ready(t) == IF t = "input" THEN DOMAIN keys # {} ELSE socketIn > 0 \/ closed

\* On Windows checkInput asks for a key until there is one, without a look at
\* running_.
GivesUp(t) == ~running_ /\ ~(t = "input" /\ platform = "windows")

Poll(t) ==
  /\ pc[t] = "poll"
  /\ \/ Ready(t) /\ Goto(t, "lock")
     \/ ~Ready(t) /\ GivesUp(t) /\ Goto(t, "ended")
  /\ UNCHANGED <<mainVars, sharedVars, locked, netVars, keyVars, history>>

LockFree_Ignored == TRUE  \* mutant: no lock()
LockFree == typeLock = "nobody"

LockType(t) ==
  /\ pc[t] = "lock" /\ LockFree
  /\ typeLock' = t
  /\ Goto(t, "type")
  /\ UNCHANGED <<mainVars, type_, running_, locked, netVars, keyVars, history>>

TypeFor_Same(t) == 1  \* mutant: both threads write the same number
TypeFor(t) == Kind(t)

SetType(t) ==
  /\ pc[t] = "type"
  /\ type_' = TypeFor(t)
  /\ Goto(t, "notify")
  /\ UNCHANGED <<mainVars, running_, typeLock, locked,
                 netVars, keyVars, history>>

NotifyMain(t) ==
  /\ pc[t] = "notify"
  /\ pcMain' = IF pcMain = "waiting" THEN "woken" ELSE pcMain
  /\ lost' = (lost \/ pcMain = "wait" \/ (pcMain = "notify" /\ status))
  /\ Goto(t, "test")
  /\ UNCHANGED <<status, visit, sharedVars, locked, netVars, keyVars, spurred>>

Exit(t) ==
  /\ pc[t] = "exit"
  /\ typeLock' = AfterUnlock(t)
  /\ Goto(t, "ended")
  /\ UNCHANGED <<mainVars, type_, running_, locked, netVars, keyVars, history>>

MainStep ==
  \/ Authentificate \/ Drain \/ StartThreads \/ WakeThem \/ MainWait
  \/ HandleNothing \/ HandleInput \/ HandleSocket \/ NotifyThread
  \/ Stop \/ WakeAll \/ Join \/ DestroyWindow \/ DeleteClient

ThreadStep(t) ==
  /\ ~Over
  /\ \/ Test(t) \/ Wait(t) \/ Woken(t) \/ Poll(t) \/ LockType(t)
     \/ SetType(t) \/ NotifyMain(t) \/ Exit(t)

Outside ==
  \/ \E k \in {"char", "blank", "line", "quit"} : Key(k)
  \/ \E a \in {"ok", "refused"} : ServerAnswers(a)
  \/ \E h \in {1, 2}, other \in BOOLEAN : ServerSends(h, other)
  \/ ServerStalls \/ ServerCloses

Next ==
  \/ MainStep \/ (~Over /\ Outside) \/ SpuriousMain
  \/ \E t \in Threads : ThreadStep(t) \/ SpuriousThread(t)

Spec == Init /\ [][Next]_vars

\* The scheduler runs the three threads; mutexType_ goes to a waiting thread
\* when it is free for good.  User and server owe nothing, and nothing is
\* assumed of how long a thread takes from one step to the next.
FairSpec ==
  Spec /\ WF_vars(MainStep) /\ \A t \in Threads : WF_vars(ThreadStep(t))
=============================================================================
