-------------------------- MODULE ChatServerProofs --------------------------
(***************************************************************************)
(* Theorems about ChatServer for every set of clients, names, passwords    *)
(* and messages, every database file and every fault.                      *)
(***************************************************************************)
EXTENDS ChatServerProperties, TLAPS

\* getBacklog queues one entry per text of the backlog.
LEMMA ReplayType ==
  ASSUME NEW s \in Seq(Texts)
  PROVE  Replay(s) \in Seq(Entries)
BY DEF Replay, Entries

\* What deserialize returned for MSG_AUTH and for MSG_CLIENT_TEXT.
LEMMA AuthInput ==
  ASSUME NEW m \in Inputs, m.type = "auth"
  PROVE  [name |-> m.name, pass |-> m.pass] \in Creds
BY DEF Inputs, Creds

LEMMA TextInput ==
  ASSUME NEW m \in Inputs, m.type = "text"
  PROVE  m.n \in 1 .. MaxSend
BY DEF Inputs

\* The step relation, one action per disjunct.
LEMMA NextCases ==
  ASSUME [Next]_vars
  PROVE  \/ RegisterLock \/ RegisterPush \/ DataRace
         \/ \E c \in Clients :
              \/ Accept(c)
              \/ PeerSend(c) \/ PeerStall(c) \/ PeerClose(c) \/ PeerReset(c)
              \/ AuthRecv(c) \/ AuthNoMessage(c) \/ Lookup(c) \/ Scan(c)
              \/ AddUser(c) \/ PushUser(c) \/ Refuse(c) \/ Reply(c)
              \/ SetName(c) \/ SetAuth(c)
              \/ CopyBacklog(c) \/ QueueBacklog(c) \/ FlushOne(c) \/ FlushDone(c)
              \/ ReadText(c) \/ ReadOther(c) \/ ReadNothing(c) \/ ReplyError(c)
              \/ SendLock(c) \/ (\E d \in Clients : SendQueue(c, d))
              \/ SendCommit(c)
              \/ PeekClosed(c) \/ PeekOpen(c) \/ UnregLock(c) \/ Erase(c)
              \/ ClearAuth(c) \/ SigPipe(c)
         \/ UNCHANGED vars
BY DEF Next, MainStep, Register, ThreadStep, PeerStep, Authenticate, SendQueued,
       HandleMessage, Leave

LEMMA InitType == Init => TypeOK
BY LoadedAssumption, ParameterAssumption
   DEF Init, TypeOK, ControlTypes, AccountTypes, TextTypes, NetTypes, LocalsRead,
       Accepted, Labels, mainVars

LEMMA ControlStep == ControlTypes /\ [Next]_vars => ControlTypes'
<1> SUFFICES ASSUME ControlTypes, [Next]_vars PROVE ControlTypes'
  OBVIOUS
<1> USE DEF ControlTypes, Labels, At, Goto, mainVars, dataVars, lockVars, clientVars, localVars, netVars
<1>1. CASE RegisterLock BY <1>1 DEF RegisterLock, Lock
<1>2. CASE RegisterPush BY <1>2 DEF RegisterPush, Unlock
<1>3. CASE DataRace BY <1>3 DEF DataRace
<1>4. CASE UNCHANGED vars BY <1>4 DEF vars
<1>5. ASSUME NEW c \in Clients,
             \/ Accept(c) \/ PeerSend(c) \/ PeerStall(c) \/ PeerClose(c) \/ PeerReset(c)
             \/ AuthRecv(c) \/ AuthNoMessage(c) \/ Lookup(c) \/ Scan(c)
             \/ AddUser(c) \/ PushUser(c) \/ Refuse(c) \/ Reply(c)
             \/ SetName(c) \/ SetAuth(c) \/ CopyBacklog(c) \/ QueueBacklog(c)
             \/ FlushOne(c) \/ FlushDone(c) \/ ReadText(c) \/ ReadOther(c)
             \/ ReadNothing(c) \/ ReplyError(c) \/ SendLock(c) \/ SendCommit(c)
             \/ PeekClosed(c) \/ PeekOpen(c) \/ UnregLock(c) \/ Erase(c)
             \/ ClearAuth(c) \/ SigPipe(c)
             \/ \E d \in Clients : SendQueue(c, d)
      PROVE  ControlTypes'
  <2>1. CASE Accept(c) BY <2>1 DEF Accept
  <2>2. CASE PeerSend(c) BY <2>2 DEF PeerSend, Peer
  <2>3. CASE PeerStall(c) \/ PeerClose(c) BY <2>3 DEF PeerStall, PeerClose
  <2>4. CASE PeerReset(c) BY <2>4 DEF PeerReset
  <2>5. CASE AuthRecv(c) BY <2>5 DEF AuthRecv, IsAuth
  <2>6. CASE AuthNoMessage(c)
    BY <2>6 DEF AuthNoMessage, NoMessage, ErrorReported
  <2>7. CASE Lookup(c) BY <2>7 DEF Lookup
  <2>8. CASE Scan(c) BY <2>8 DEF Scan
  <2>9. CASE AddUser(c) BY <2>9 DEF AddUser
  <2>10. CASE PushUser(c) BY <2>10 DEF PushUser
  <2>11. CASE Refuse(c) BY <2>11 DEF Refuse, Refused, Sent, SendError
  <2>12. CASE Reply(c) BY <2>12 DEF Reply, Sent, SendError
  <2>13. CASE SetName(c) BY <2>13 DEF SetName
  <2>14. CASE SetAuth(c) BY <2>14 DEF SetAuth
  <2>15. CASE CopyBacklog(c) BY <2>15 DEF CopyBacklog
  <2>16. CASE QueueBacklog(c) BY <2>16 DEF QueueBacklog
  <2>17. CASE FlushOne(c) BY <2>17 DEF FlushOne, Sent, SendError
  <2>18. CASE FlushDone(c) BY <2>18 DEF FlushDone
  <2>19. CASE ReadText(c) BY <2>19 DEF ReadText, Take, Got
  <2>20. CASE ReadOther(c) BY <2>20 DEF ReadOther, Take, Got
  <2>21. CASE ReadNothing(c) BY <2>21 DEF ReadNothing, ErrorReported
  <2>22. CASE ReplyError(c) BY <2>22 DEF ReplyError, Sent, SendError
  <2>23. CASE SendLock(c) BY <2>23 DEF SendLock, Lock
  <2>24. CASE \E d \in Clients : SendQueue(c, d) BY <2>24 DEF SendQueue, Queued, Hears
  <2>25. CASE SendCommit(c) BY <2>25 DEF SendCommit, Unlock
  <2>26. CASE PeekClosed(c) BY <2>26 DEF PeekClosed
  <2>27. CASE PeekOpen(c) BY <2>27 DEF PeekOpen, ErrorReported
  <2>28. CASE UnregLock(c) BY <2>28 DEF UnregLock, Lock
  <2>29. CASE Erase(c) BY <2>29 DEF Erase, Unlock
  <2>30. CASE ClearAuth(c) BY <2>30 DEF ClearAuth
  <2>31. CASE SigPipe(c) BY <2>31 DEF SigPipe
  <2> QED BY <1>5, <2>1, <2>2, <2>3, <2>4, <2>5, <2>6, <2>7, <2>8, <2>9, <2>10, <2>11, <2>12, <2>13, <2>14, <2>15, <2>16, <2>17, <2>18, <2>19, <2>20, <2>21, <2>22, <2>23, <2>24, <2>25, <2>26, <2>27, <2>28, <2>29, <2>30, <2>31
<1> QED BY <1>1, <1>2, <1>3, <1>4, <1>5, NextCases

\* The only actions that touch accounts, texts and connections.
LEMMA AccountFrame ==
  ASSUME [Next]_vars
  PROVE  \/ UNCHANGED <<users_, name_, cred, slot>>
         \/ \E c \in Clients :
              \/ AuthRecv(c) \/ AddUser(c) \/ PushUser(c) \/ SetName(c)
<1> USE DEF mainVars, dataVars, lockVars, clientVars, localVars, netVars
<1>1. CASE RegisterLock \/ RegisterPush \/ DataRace \/ UNCHANGED vars
  BY <1>1 DEF RegisterLock, RegisterPush, DataRace, vars
<1>2. ASSUME NEW c \in Clients,
             \/ Accept(c) \/ PeerSend(c) \/ PeerStall(c) \/ PeerClose(c) \/ PeerReset(c)
             \/ AuthNoMessage(c) \/ Lookup(c) \/ Scan(c) \/ Refuse(c)
             \/ Reply(c)
      PROVE  UNCHANGED <<users_, name_, cred, slot>>
  BY <1>2 DEF Accept, PeerSend, PeerStall, PeerClose, PeerReset, AuthNoMessage, Lookup,
       Scan, Refuse, Reply
<1>3. ASSUME NEW c \in Clients,
             \/ SetAuth(c) \/ CopyBacklog(c) \/ QueueBacklog(c) \/ FlushOne(c)
             \/ FlushDone(c) \/ ReadText(c) \/ ReadOther(c) \/ ReadNothing(c)
             \/ ReplyError(c)
      PROVE  UNCHANGED <<users_, name_, cred, slot>>
  BY <1>3 DEF SetAuth, CopyBacklog, QueueBacklog, FlushOne, FlushDone,
       ReadText, ReadOther, ReadNothing, ReplyError, Take
<1>4. ASSUME NEW c \in Clients,
             \/ SendLock(c) \/ (\E d \in Clients : SendQueue(c, d)) \/ SendCommit(c) \/ PeekClosed(c)
             \/ PeekOpen(c) \/ UnregLock(c) \/ Erase(c) \/ ClearAuth(c)
             \/ SigPipe(c)
      PROVE  UNCHANGED <<users_, name_, cred, slot>>
  BY <1>4 DEF SendLock, SendQueue, Queued, SendCommit, PeekClosed, PeekOpen,
       UnregLock, Erase, ClearAuth, SigPipe
<1> QED BY <1>1, <1>2, <1>3, <1>4, NextCases

LEMMA TextFrame ==
  ASSUME [Next]_vars
  PROVE  \/ UNCHANGED <<backlog_, snapshot, queue_, text, since>>
         \/ RegisterPush
         \/ \E c \in Clients :
              \/ SetAuth(c) \/ CopyBacklog(c) \/ QueueBacklog(c) \/ FlushOne(c)
              \/ ReadText(c) \/ (\E d \in Clients : SendQueue(c, d)) \/ SendCommit(c)
<1> USE DEF mainVars, dataVars, lockVars, clientVars, localVars, netVars
<1>1. CASE RegisterLock \/ DataRace \/ UNCHANGED vars
  BY <1>1 DEF RegisterLock, DataRace, vars
<1>2. ASSUME NEW c \in Clients,
             \/ Accept(c) \/ PeerSend(c) \/ PeerStall(c) \/ PeerClose(c) \/ PeerReset(c)
             \/ AuthRecv(c) \/ AuthNoMessage(c) \/ Lookup(c) \/ Scan(c)
             \/ AddUser(c)
      PROVE  UNCHANGED <<backlog_, snapshot, queue_, text, since>>
  BY <1>2 DEF Accept, PeerSend, PeerStall, PeerClose, PeerReset, AuthRecv, AuthNoMessage,
       Lookup, Scan, AddUser
<1>3. ASSUME NEW c \in Clients,
             \/ PushUser(c) \/ Refuse(c) \/ Reply(c) \/ SetName(c)
             \/ FlushDone(c) \/ ReadOther(c) \/ ReadNothing(c) \/ ReplyError(c)
             \/ SendLock(c)
      PROVE  UNCHANGED <<backlog_, snapshot, queue_, text, since>>
  BY <1>3 DEF PushUser, Refuse, Reply, SetName, FlushDone, ReadOther,
       ReadNothing, ReplyError, SendLock, Take
<1>4. ASSUME NEW c \in Clients,
             \/ PeekClosed(c) \/ PeekOpen(c) \/ UnregLock(c) \/ Erase(c)
             \/ ClearAuth(c) \/ SigPipe(c)
      PROVE  UNCHANGED <<backlog_, snapshot, queue_, text, since>>
  BY <1>4 DEF PeekClosed, PeekOpen, UnregLock, Erase, ClearAuth, SigPipe
<1> QED BY <1>1, <1>2, <1>3, <1>4, NextCases

LEMMA NetFrame ==
  ASSUME [Next]_vars
  PROVE  \/ UNCHANGED <<sock, in, buf, out, nsent>>
         \/ \E c \in Clients :
              \/ PeerSend(c) \/ PeerStall(c) \/ PeerClose(c) \/ PeerReset(c) \/ AuthRecv(c)
              \/ AuthNoMessage(c) \/ Refuse(c) \/ Reply(c) \/ FlushOne(c)
              \/ ReadText(c) \/ ReadOther(c) \/ ReadNothing(c) \/ ReplyError(c)
              \/ PeekOpen(c)
<1> USE DEF mainVars, dataVars, lockVars, clientVars, localVars, netVars
<1>1. CASE RegisterLock \/ RegisterPush \/ DataRace \/ UNCHANGED vars
  BY <1>1 DEF RegisterLock, RegisterPush, DataRace, vars
<1>2. ASSUME NEW c \in Clients,
             \/ Accept(c) \/ Lookup(c) \/ Scan(c) \/ AddUser(c)
             \/ PushUser(c) \/ SetName(c) \/ SetAuth(c) \/ CopyBacklog(c)
             \/ QueueBacklog(c)
      PROVE  UNCHANGED <<sock, in, buf, out, nsent>>
  BY <1>2 DEF Accept, Lookup, Scan, AddUser, PushUser, SetName, SetAuth,
       CopyBacklog, QueueBacklog
<1>3. ASSUME NEW c \in Clients,
             \/ FlushDone(c) \/ SendLock(c) \/ (\E d \in Clients : SendQueue(c, d)) \/ SendCommit(c)
             \/ PeekClosed(c) \/ UnregLock(c) \/ Erase(c) \/ ClearAuth(c)
             \/ SigPipe(c)
      PROVE  UNCHANGED <<sock, in, buf, out, nsent>>
  BY <1>3 DEF FlushDone, SendLock, SendQueue, Queued, SendCommit, PeekClosed,
       UnregLock, Erase, ClearAuth, SigPipe
<1> QED BY <1>1, <1>2, <1>3, NextCases

LEMMA AccountStep == TypeOK /\ [Next]_vars => AccountTypes'
<1> SUFFICES ASSUME TypeOK, [Next]_vars PROVE AccountTypes'
  OBVIOUS
<1> USE DEF TypeOK, AccountTypes, At
<1>1. CASE UNCHANGED <<users_, name_, cred, slot>> BY <1>1
<1>2. ASSUME NEW c \in Clients, AuthRecv(c) PROVE AccountTypes'
  <2>1. Head(in[c]) \in Inputs BY <1>2 DEF AuthRecv, NetTypes
  <2>2. CASE IsAuth(Head(in[c]))
    <3>1. [name |-> Head(in[c]).name, pass |-> Head(in[c]).pass] \in Creds
      BY <2>1, <2>2, AuthInput DEF IsAuth
    <3> QED BY <1>2, <2>2, <3>1 DEF AuthRecv, dataVars, clientVars
  <2>3. CASE ~IsAuth(Head(in[c]))
    BY <1>2, <2>3 DEF AuthRecv, dataVars, clientVars
  <2> QED BY <2>2, <2>3
<1>3. ASSUME NEW c \in Clients, AddUser(c) PROVE AccountTypes'
  <2>1. Len(users_) + 1 \in Nat OBVIOUS
  <2> QED BY <1>3, <2>1 DEF AddUser, dataVars, clientVars
<1>4. ASSUME NEW c \in Clients, PushUser(c) PROVE AccountTypes'
  <2>1. cred[c] \in Creds BY <1>4 DEF PushUser, LocalsRead
  <2>2. PICK k \in {slot[c], Len(users_) + 1} :
          k <= Len(users_) + 1 /\ users_' = Stored(k, cred[c])
    BY <1>4 DEF PushUser
  <2>3. k \in Nat OBVIOUS
  <2>4. SubSeq(users_, 1, k-1) \in Seq(Creds) BY <2>2, <2>3
  <2>5. users_' \in Seq(Creds) BY <2>1, <2>2, <2>4 DEF Stored
  <2> QED BY <1>4, <2>5 DEF PushUser, clientVars
<1>5. ASSUME NEW c \in Clients, SetName(c) PROVE AccountTypes'
  <2>1. cred[c] \in Creds BY <1>5 DEF SetName, LocalsRead, Accepted
  <2>2. cred[c].name \in Names BY <2>1 DEF Creds
  <2> QED BY <1>5, <2>2 DEF SetName, dataVars, localVars
<1> QED BY <1>1, <1>2, <1>3, <1>4, <1>5, AccountFrame

\* The text sendText makes is one the protocol can carry.
LEMMA ServerTextType ==
  ASSUME TypeOK, NEW c \in Clients, pc[c] \in {"sendlock", "sending"}
  PROVE  ServerText(c) \in Texts
<1>1. text[c] \in 1 .. MaxSend
  <2>1. text[c] \in 0 .. MaxSend /\ text[c] # 0
    BY DEF TypeOK, TextTypes, LocalsRead
  <2> QED BY <2>1, ParameterAssumption
<1>2. name_[c] \in Names \cup {NoName} BY DEF TypeOK, AccountTypes
<1> QED BY <1>1, <1>2 DEF ServerText, Texts

LEMMA TextStep == TypeOK /\ [Next]_vars => TextTypes'
<1> SUFFICES ASSUME TypeOK, [Next]_vars PROVE TextTypes'
  OBVIOUS
<1> USE DEF TypeOK, TextTypes, At, dataVars, localVars, clientVars
<1>1. CASE UNCHANGED <<backlog_, snapshot, queue_, text, since>> BY <1>1
<1>2. Len(backlog_) \in Nat /\ Len(backlog_) + 1 \in Nat OBVIOUS
<1>3. CASE RegisterPush BY <1>2, <1>3 DEF RegisterPush
<1>4. ASSUME NEW c \in Clients, SetAuth(c) PROVE TextTypes'
  BY <1>2, <1>4 DEF SetAuth
<1>5. ASSUME NEW c \in Clients, CopyBacklog(c) PROVE TextTypes'
  BY <1>5 DEF CopyBacklog
<1>6. ASSUME NEW c \in Clients, QueueBacklog(c) PROVE TextTypes'
  <2>1. Replay(snapshot[c]) \in Seq(Entries) BY ReplayType
  <2>2. queue_[c] \o Replay(snapshot[c]) \in Seq(Entries) BY <2>1
  <2> QED BY <1>6, <2>2 DEF QueueBacklog
<1>7. ASSUME NEW c \in Clients, FlushOne(c) PROVE TextTypes'
  BY <1>7 DEF FlushOne
<1>8. ASSUME NEW c \in Clients, ReadText(c) PROVE TextTypes'
  <2>1. Head(Got(c)) \in Inputs BY <1>8 DEF ReadText, Take, Got, NetTypes
  <2>2. Head(Got(c)).n \in 0 .. MaxSend BY <1>8, <2>1, TextInput DEF ReadText
  <2> QED BY <1>8, <2>2 DEF ReadText
<1>9. ASSUME NEW c \in Clients, NEW d \in Clients, SendQueue(c, d)
      PROVE  TextTypes'
  <2>1. ServerText(c) \in Texts BY <1>9, ServerTextType DEF SendQueue
  <2>2. [kind |-> "live", text |-> ServerText(c)] \in Entries
    BY <2>1 DEF Entries
  <2> QED BY <1>9, <2>2 DEF SendQueue, Queued
<1>10. ASSUME NEW c \in Clients, SendCommit(c) PROVE TextTypes'
  <2>1. ServerText(c) \in Texts BY <1>10, ServerTextType DEF SendCommit
  <2>2. Recorded(ServerText(c)) \in Seq(Texts) BY <2>1 DEF Recorded
  <2>3. 0 \in 0 .. MaxSend BY ParameterAssumption
  <2> QED BY <1>10, <2>2, <2>3 DEF SendCommit
<1> QED
  BY <1>1, <1>3, <1>4, <1>5, <1>6, <1>7, <1>8, <1>9, <1>10, TextFrame

\* What a peer may send is a message the server can parse.
LEMMA OfferedType ==
  ASSUME NEW c \in Clients, nsent[c] \in 0 .. MaxSend, nsent[c] < MaxSend,
         NEW m \in Offered(c)
  PROVE  m \in Inputs /\ nsent[c] + 1 \in 0 .. MaxSend
<1>1. nsent[c] + 1 \in 1 .. MaxSend BY ParameterAssumption
<1> QED BY <1>1 DEF Offered, Inputs

\* A send adds to what the peer gets or reports an error, nothing else.
LEMMA SendType ==
  ASSUME NetTypes, NEW c \in Clients, NEW item \in Entries \cup Replies,
         Sent(c, item) \/ SendError(c)
  PROVE  /\ out' \in [Clients -> Seq(Entries \cup Replies)]
         /\ sock' \in [Clients -> {"open", "stalled", "closed", "reset", "broken"}]
<1> DEFINE Items == Entries \cup Replies
<1> item \in Items /\ out \in [Clients -> Seq(Items)] BY DEF NetTypes
<1> HIDE DEF Items
<1>1. Append(out[c], item) \in Seq(Items) OBVIOUS
<1>2. out' \in [Clients -> Seq(Items)] BY <1>1 DEF Sent, SendError
<1>3. sock' \in [Clients -> {"open", "stalled", "closed", "reset", "broken"}]
  BY DEF Sent, SendError, NetTypes
<1> QED BY <1>2, <1>3 DEF Items

LEMMA NetStep == TypeOK /\ [Next]_vars => NetTypes'
<1> SUFFICES ASSUME TypeOK, [Next]_vars PROVE NetTypes'
  OBVIOUS
<1> USE DEF TypeOK, NetTypes, ErrorReported
<1>1. CASE UNCHANGED <<sock, in, buf, out, nsent>> BY <1>1
<1>2. ASSUME NEW code \in {"ok", "not_ok", "not_auth"}
      PROVE  Status(code) \in Entries \cup Replies
  BY DEF Status, Replies
<1>3. ASSUME NEW c \in Clients, PeerSend(c) PROVE NetTypes'
  <2>1. PICK m \in Offered(c) : in' = [in EXCEPT ![c] = Append(@, m)]
    BY <1>3 DEF PeerSend
  <2>2. m \in Inputs /\ nsent[c] + 1 \in 0 .. MaxSend
    BY <1>3, OfferedType DEF PeerSend
  <2> QED BY <1>3, <2>1, <2>2 DEF PeerSend
<1>4. ASSUME NEW c \in Clients, PeerStall(c) \/ PeerClose(c) \/ PeerReset(c) PROVE NetTypes'
  BY <1>4 DEF PeerStall, PeerClose, PeerReset
<1>5. ASSUME NEW c \in Clients, AuthRecv(c) PROVE NetTypes'
  BY <1>5 DEF AuthRecv
<1>6. ASSUME NEW c \in Clients, AuthNoMessage(c) PROVE NetTypes'
  BY <1>6 DEF AuthNoMessage
<1>7. ASSUME NEW c \in Clients, Refuse(c) \/ Reply(c) \/ ReplyError(c)
      PROVE  NetTypes'
  <2>1. \/ Sent(c, Status("not_auth")) \/ Sent(c, Status("ok"))
        \/ Sent(c, Status("not_ok")) \/ SendError(c)
    BY <1>7 DEF Refuse, Reply, ReplyError
  <2>2. /\ out' \in [Clients -> Seq(Entries \cup Replies)]
        /\ sock' \in [Clients -> {"open", "stalled", "closed", "reset", "broken"}]
    BY <1>2, <2>1, SendType
  <2> QED BY <1>7, <2>2 DEF Refuse, Reply, ReplyError
<1>8. ASSUME NEW c \in Clients, FlushOne(c) PROVE NetTypes'
  <2>1. Head(queue_[c]) \in Entries BY <1>8 DEF FlushOne, TextTypes
  <2>2. Sent(c, Head(queue_[c])) \/ SendError(c) BY <1>8 DEF FlushOne
  <2>3. /\ out' \in [Clients -> Seq(Entries \cup Replies)]
        /\ sock' \in [Clients -> {"open", "stalled", "closed", "reset", "broken"}]
    BY <2>1, <2>2, SendType
  <2> QED BY <1>8, <2>3 DEF FlushOne
<1>9. ASSUME NEW c \in Clients, ReadText(c) \/ ReadOther(c) PROVE NetTypes'
  <2>1. Take(c) BY <1>9 DEF ReadText, ReadOther
  <2>2. Got(c) \in Seq(Inputs) /\ Got(c) # <<>> BY <2>1 DEF Take, Got
  <2>3. Tail(Got(c)) \in Seq(Inputs) BY <2>2
  <2>4. <<>> \in Seq(Inputs) OBVIOUS
  <2>5. buf' \in [Clients -> Seq(Inputs)] BY <2>1, <2>3 DEF Take
  <2>6. in' \in [Clients -> Seq(Inputs)] BY <2>1, <2>4 DEF Take
  <2> QED BY <1>9, <2>5, <2>6 DEF ReadText, ReadOther
<1>10. ASSUME NEW c \in Clients, ReadNothing(c) \/ PeekOpen(c) PROVE NetTypes'
  BY <1>10 DEF ReadNothing, PeekOpen
<1> QED
  BY <1>1, <1>3, <1>4, <1>5, <1>6, <1>7, <1>8, <1>9, <1>10, NetFrame

LEMMA LocalsStep == TypeOK /\ [Next]_vars => LocalsRead'
<1> SUFFICES ASSUME TypeOK, [Next]_vars PROVE LocalsRead'
  OBVIOUS
<1> USE DEF TypeOK, ControlTypes, AccountTypes, TextTypes, LocalsRead, Accepted, Labels,
            At, Goto, mainVars, dataVars, lockVars, clientVars, localVars, netVars
<1>1. CASE RegisterLock BY <1>1 DEF RegisterLock, Lock
<1>2. CASE RegisterPush BY <1>2 DEF RegisterPush, Unlock
<1>3. CASE DataRace BY <1>3 DEF DataRace
<1>4. CASE UNCHANGED vars BY <1>4 DEF vars
<1>5. ASSUME NEW c \in Clients,
             \/ Accept(c) \/ PeerSend(c) \/ PeerStall(c) \/ PeerClose(c) \/ PeerReset(c)
             \/ AuthRecv(c) \/ AuthNoMessage(c) \/ Lookup(c) \/ Scan(c)
             \/ AddUser(c) \/ PushUser(c) \/ Refuse(c) \/ Reply(c)
             \/ SetName(c) \/ SetAuth(c) \/ CopyBacklog(c) \/ QueueBacklog(c)
             \/ FlushOne(c) \/ FlushDone(c) \/ ReadText(c) \/ ReadOther(c)
             \/ ReadNothing(c) \/ ReplyError(c) \/ SendLock(c) \/ SendCommit(c)
             \/ PeekClosed(c) \/ PeekOpen(c) \/ UnregLock(c) \/ Erase(c)
             \/ ClearAuth(c) \/ SigPipe(c)
             \/ \E d \in Clients : SendQueue(c, d)
      PROVE  LocalsRead'
  <2>1. CASE Accept(c) BY <2>1 DEF Accept
  <2>2. CASE PeerSend(c) BY <2>2 DEF PeerSend, Peer
  <2>3. CASE PeerStall(c) \/ PeerClose(c) BY <2>3 DEF PeerStall, PeerClose
  <2>4. CASE PeerReset(c) BY <2>4 DEF PeerReset
  <2>5. CASE AuthRecv(c)
    <3>1. Head(in[c]) \in Inputs BY <2>5 DEF AuthRecv, NetTypes
    <3>2. IsAuth(Head(in[c]))
            => [name |-> Head(in[c]).name, pass |-> Head(in[c]).pass] \in Creds
      BY <3>1, AuthInput DEF IsAuth
    <3> QED BY <2>5, <3>2 DEF AuthRecv
  <2>6. CASE AuthNoMessage(c)
    BY <2>6 DEF AuthNoMessage, NoMessage, ErrorReported
  <2>7. CASE Lookup(c) BY <2>7 DEF Lookup
  <2>8. CASE Scan(c) BY <2>8 DEF Scan
  <2>9. CASE AddUser(c) BY <2>9 DEF AddUser
  <2>10. CASE PushUser(c) BY <2>10 DEF PushUser
  <2>11. CASE Refuse(c) BY <2>11 DEF Refuse, Refused, Sent, SendError
  <2>12. CASE Reply(c) BY <2>12 DEF Reply, Sent, SendError
  <2>13. CASE SetName(c) BY <2>13 DEF SetName
  <2>14. CASE SetAuth(c) BY <2>14 DEF SetAuth
  <2>15. CASE CopyBacklog(c) BY <2>15 DEF CopyBacklog
  <2>16. CASE QueueBacklog(c) BY <2>16 DEF QueueBacklog
  <2>17. CASE FlushOne(c) BY <2>17 DEF FlushOne, Sent, SendError
  <2>18. CASE FlushDone(c) BY <2>18 DEF FlushDone
  <2>19. CASE ReadText(c)
    <3>1. Head(Got(c)) \in Inputs BY <2>19 DEF ReadText, Take, Got, NetTypes
    <3>2. Head(Got(c)).n # 0 BY <2>19, <3>1, TextInput DEF ReadText
    <3> QED BY <2>19, <3>2 DEF ReadText, Take
  <2>20. CASE ReadOther(c) BY <2>20 DEF ReadOther, Take, Got
  <2>21. CASE ReadNothing(c) BY <2>21 DEF ReadNothing, ErrorReported
  <2>22. CASE ReplyError(c) BY <2>22 DEF ReplyError, Sent, SendError
  <2>23. CASE SendLock(c) BY <2>23 DEF SendLock, Lock
  <2>24. CASE \E d \in Clients : SendQueue(c, d) BY <2>24 DEF SendQueue, Queued, Hears
  <2>25. CASE SendCommit(c) BY <2>25 DEF SendCommit, Unlock
  <2>26. CASE PeekClosed(c) BY <2>26 DEF PeekClosed
  <2>27. CASE PeekOpen(c) BY <2>27 DEF PeekOpen, ErrorReported
  <2>28. CASE UnregLock(c) BY <2>28 DEF UnregLock, Lock
  <2>29. CASE Erase(c) BY <2>29 DEF Erase, Unlock
  <2>30. CASE ClearAuth(c) BY <2>30 DEF ClearAuth
  <2>31. CASE SigPipe(c) BY <2>31 DEF SigPipe
  <2> QED BY <1>5, <2>1, <2>2, <2>3, <2>4, <2>5, <2>6, <2>7, <2>8, <2>9, <2>10, <2>11, <2>12, <2>13, <2>14, <2>15, <2>16, <2>17, <2>18, <2>19, <2>20, <2>21, <2>22, <2>23, <2>24, <2>25, <2>26, <2>27, <2>28, <2>29, <2>30, <2>31
<1> QED BY <1>1, <1>2, <1>3, <1>4, <1>5, NextCases

LEMMA TypeStep == TypeOK /\ [Next]_vars => TypeOK'
BY ControlStep, AccountStep, TextStep, NetStep, LocalsStep DEF TypeOK

\* Types hold in every run: no login is checked with credentials that were
\* not read from the peer and nothing but a received text is sent on.
THEOREM TypeCorrect == Spec => []TypeOK
BY InitType, TypeStep, PTL DEF Spec

LEMMA InitMutex == Init => MutexHeld
BY ThreadsAssumption DEF Init, MutexHeld, Critical, mainVars, NoOne, Main

\* Taking the mutex and entering a critical section are one step, and so are
\* leaving and releasing; no other step does either.
LEMMA MutexStep == TypeOK /\ MutexHeld /\ [Next]_vars => MutexHeld'
<1> SUFFICES ASSUME TypeOK, MutexHeld, [Next]_vars PROVE MutexHeld'
  OBVIOUS
<1> USE ThreadsAssumption
    DEF TypeOK, ControlTypes, MutexHeld, Critical, At, Goto, NoOne, Main,
        mainVars, lockVars, dataVars
<1>1. CASE RegisterLock BY <1>1 DEF RegisterLock, Lock, MutexFree
<1>2. CASE RegisterPush BY <1>2 DEF RegisterPush, Unlock
<1>3. CASE DataRace \/ UNCHANGED vars BY <1>3 DEF DataRace, vars
<1>4. ASSUME NEW c \in Clients,
             \/ Accept(c) \/ PeerSend(c) \/ PeerStall(c) \/ PeerClose(c) \/ PeerReset(c)
             \/ AuthRecv(c) \/ AuthNoMessage(c) \/ Lookup(c) \/ Scan(c)
      PROVE  MutexHeld'
  BY <1>4 DEF Accept, PeerSend, Peer, PeerStall, PeerClose, PeerReset, AuthRecv, IsAuth,
       AuthNoMessage, NoMessage, ErrorReported, Lookup, Scan
<1>5. ASSUME NEW c \in Clients,
             \/ AddUser(c) \/ PushUser(c) \/ Refuse(c) \/ Reply(c)
             \/ SetName(c) \/ SetAuth(c) \/ CopyBacklog(c) \/ QueueBacklog(c)
      PROVE  MutexHeld'
  BY <1>5 DEF AddUser, PushUser, Refuse, Refused, Sent, SendError, Reply,
       SetName, SetAuth, CopyBacklog, QueueBacklog
<1>6. ASSUME NEW c \in Clients,
             \/ FlushOne(c) \/ FlushDone(c) \/ ReadText(c) \/ ReadOther(c)
             \/ ReadNothing(c) \/ ReplyError(c)
      PROVE  MutexHeld'
  BY <1>6 DEF FlushOne, Sent, SendError, FlushDone, ReadText, Take, Got,
       ReadOther, ReadNothing, ErrorReported, ReplyError
<1>7. ASSUME NEW c \in Clients,
             \/ PeekClosed(c) \/ PeekOpen(c) \/ ClearAuth(c) \/ SigPipe(c)
      PROVE  MutexHeld'
  BY <1>7 DEF PeekClosed, PeekOpen, ErrorReported, ClearAuth, SigPipe
<1>8. ASSUME NEW c \in Clients,
             \/ SendLock(c) \/ UnregLock(c)
      PROVE  MutexHeld'
  BY <1>8 DEF SendLock, Lock, UnregLock, MutexFree
<1>9. ASSUME NEW c \in Clients,
             \/ (\E d \in Clients : SendQueue(c, d))
      PROVE  MutexHeld'
  BY <1>9 DEF SendQueue, Queued, Hears
<1>10. ASSUME NEW c \in Clients,
             \/ SendCommit(c) \/ Erase(c)
      PROVE  MutexHeld'
  BY <1>10 DEF SendCommit, Unlock, Erase
<1> QED BY <1>1, <1>2, <1>3, <1>4, <1>5, <1>6, <1>7, <1>8, <1>9, <1>10, NextCases

\* Server::mutex_ excludes: the thread between lock() and unlock() is the one
\* that holds it, so two threads never walk or change clients_ and backlog_
\* under the lock at the same time.
THEOREM MutualExclusion == Spec => []MutexHeld
<1>1. Init => TypeOK /\ MutexHeld BY InitType, InitMutex
<1>2. TypeOK /\ MutexHeld /\ [Next]_vars => (TypeOK /\ MutexHeld)'
  BY TypeStep, MutexStep
<1> QED BY <1>1, <1>2, PTL DEF Spec

\* Of several accounts with one name, the first one counts.
LEMMA FirstMatch ==
  ASSUME NEW n, NEW i \in 1 .. Len(LoadedUsers), FirstLoaded(i, n)
  PROVE  LoadedPass(n) = LoadedUsers[i].pass
<1> DEFINE k == CHOOSE j \in 1 .. Len(LoadedUsers) : FirstLoaded(j, n)
<1>1. k \in 1 .. Len(LoadedUsers) /\ FirstLoaded(k, n) OBVIOUS
<1>2. k = i
  <2>1. ~(k < i) /\ ~(i < k) BY <1>1, LoadedAssumption DEF FirstLoaded
  <2> QED BY <1>1, <2>1, LoadedAssumption
<1> QED BY <1>2 DEF LoadedPass

LEMMA InitAccounts == Init => AccountInv
BY LoadedAssumption
   DEF Init, AccountInv, FileKept, Login, Accepted, Named, mainVars

\* Only push_back changes users_, and it stores behind the accounts of the file.
LEMMA FileStep == TypeOK /\ AccountInv /\ [Next]_vars => FileKept'
<1> SUFFICES ASSUME TypeOK, AccountInv, [Next]_vars PROVE FileKept'
  OBVIOUS
<1> USE LoadedAssumption DEF AccountInv, FileKept
<1>1. CASE UNCHANGED users_ BY <1>1
<1>2. ASSUME NEW c \in Clients, PushUser(c) PROVE FileKept'
  <2>1. PICK k \in {slot[c], Len(users_) + 1} :
          k <= Len(users_) + 1 /\ users_' = Stored(k, cred[c])
    BY <1>2 DEF PushUser
  <2>2. users_ \in Seq(Creds) /\ cred[c] \in Creds /\ slot[c] \in Nat
    BY <1>2 DEF PushUser, At, TypeOK, AccountTypes, LocalsRead
  <2>3. k \in Nat /\ k > Len(LoadedUsers)
    BY <1>2, <2>2 DEF PushUser, Login, At
  <2>4. /\ Len(users_') = k
        /\ \A i \in 1 .. k-1 : users_'[i] = users_[i]
    <3>1. /\ SubSeq(users_, 1, k-1) \in Seq(Creds)
          /\ Len(SubSeq(users_, 1, k-1)) = k-1
          /\ \A i \in 1 .. k-1 : SubSeq(users_, 1, k-1)[i] = users_[i]
      BY <2>1, <2>2, <2>3
    <3> QED BY <2>1, <2>2, <3>1 DEF Stored
  <2> QED BY <2>3, <2>4
<1>3. CASE UNCHANGED <<users_, name_, cred, slot>> BY <1>1, <1>3
<1>4. ASSUME NEW c \in Clients, AuthRecv(c) \/ AddUser(c) \/ SetName(c)
      PROVE  UNCHANGED users_
  BY <1>4 DEF AuthRecv, AddUser, SetName, dataVars
<1> QED BY <1>1, <1>2, <1>3, <1>4, AccountFrame

\* The first account of a name of the file is the one of the file.
LEMMA FirstInFile ==
  ASSUME TypeOK, AccountInv, NEW n, Loaded(n),
         NEW i \in 1 .. Len(users_), FirstNamed(i, n)
  PROVE  /\ i \in 1 .. Len(LoadedUsers) /\ users_[i] = LoadedUsers[i]
         /\ LoadedPass(n) = users_[i].pass
<1> USE LoadedAssumption DEF TypeOK, AccountTypes
<1>1. PICK j \in 1 .. Len(LoadedUsers) : LoadedUsers[j].name = n
  BY DEF Loaded
<1>2. users_[j].name = n /\ j \in 1 .. Len(users_)
  BY <1>1 DEF AccountInv, FileKept
<1>3. ~(j < i) BY <1>1, <1>2 DEF FirstNamed
<1>4. i \in 1 .. Len(LoadedUsers) BY <1>1, <1>3
<1>5. ASSUME NEW k \in 1 .. i PROVE users_[k] = LoadedUsers[k]
  <2>1. \A m \in 1 .. Len(LoadedUsers) : users_[m] = LoadedUsers[m]
    BY DEF AccountInv, FileKept
  <2>2. Len(LoadedUsers) \in Nat OBVIOUS
  <2>3. k \in 1 .. Len(LoadedUsers) BY ONLY <1>4, <2>2, k \in 1 .. i
  <2> QED BY ONLY <2>1, <2>3
<1>6. users_[i] = LoadedUsers[i]
  <2>1. i \in 1 .. i BY <1>4
  <2> QED BY <1>5, <2>1
<1>7. FirstLoaded(i, n)
  <2>1. LoadedUsers[i].name = n BY <1>6 DEF FirstNamed
  <2>2. ASSUME NEW k \in 1 .. i-1 PROVE LoadedUsers[k].name # n
    <3>1. k \in 1 .. i BY <1>4
    <3>2. users_[k] = LoadedUsers[k] BY <1>5, <3>1
    <3> QED BY <3>2 DEF FirstNamed
  <2> QED BY <2>1, <2>2 DEF FirstLoaded
<1> QED BY <1>4, <1>6, <1>7, FirstMatch

\* A login that passed Lookup gave the password of the file's account.
LEMMA LookupVets ==
  ASSUME TypeOK, AccountInv, NEW c \in Clients, NEW i \in 1 .. Len(users_),
         FirstNamed(i, cred[c].name), PassMatches(users_[i], c)
  PROVE  Vetted(c)
BY FirstInFile DEF Vetted, PassMatches

LEMMA LoginStep ==
  TypeOK /\ AccountInv /\ [Next]_vars => \A d \in Clients : Login(d)'
<1> SUFFICES ASSUME TypeOK, AccountInv, [Next]_vars, NEW d \in Clients
             PROVE  Login(d)'
  OBVIOUS
<1> Login(d) BY DEF AccountInv
<1> USE DEF TypeOK, ControlTypes, AccountTypes, Login, Named, Accepted, Vetted,
            At, Goto, mainVars, lockVars, dataVars, clientVars, localVars
<1>1. CASE RegisterLock \/ RegisterPush \/ DataRace \/ UNCHANGED vars
  BY <1>1 DEF RegisterLock, RegisterPush, DataRace, vars
<1>2. ASSUME NEW c \in Clients, Lookup(c) PROVE Login(d)'
  <2>1. pc'[c] = "scan" => Vetted(c)
    BY <1>2, LookupVets DEF Lookup
  <2> QED BY <1>2, <2>1 DEF Lookup
<1>3. ASSUME NEW c \in Clients, AddUser(c) PROVE Login(d)'
  <2>1. CASE pc'[c] = "refuse" BY <1>3, <2>1 DEF AddUser
  <2>2. CASE pc'[c] # "refuse"
    <3>1. /\ \A i \in 1 .. Len(users_) : users_[i].name # cred[c].name
          /\ slot' = [slot EXCEPT ![c] = Len(users_) + 1]
          /\ pc' = [pc EXCEPT ![c] = "pushuser"]
      BY <1>3, <2>2 DEF AddUser
    <3>2. ASSUME NEW i \in 1 .. Len(LoadedUsers)
          PROVE  LoadedUsers[i].name # cred[c].name
      <4>1. i \in 1 .. Len(users_) /\ users_[i] = LoadedUsers[i]
        BY LoadedAssumption DEF AccountInv, FileKept
      <4> QED BY <3>1, <4>1
    <3>3. Len(users_) + 1 > Len(LoadedUsers)
      BY LoadedAssumption DEF AccountInv, FileKept
    <3> QED BY <1>3, <3>1, <3>2, <3>3 DEF AddUser, Loaded
  <2> QED BY <2>1, <2>2
<1>4. ASSUME NEW c \in Clients, Accept(c) PROVE Login(d)'
  BY <1>4 DEF Accept
<1>5. ASSUME NEW c \in Clients, PeerSend(c) PROVE Login(d)'
  BY <1>5 DEF PeerSend, Peer
<1>6. ASSUME NEW c \in Clients, PeerStall(c) \/ PeerClose(c) PROVE Login(d)'
  BY <1>6 DEF PeerStall, PeerClose
<1>7. ASSUME NEW c \in Clients, PeerReset(c) PROVE Login(d)'
  BY <1>7 DEF PeerReset
<1>8. ASSUME NEW c \in Clients, AuthRecv(c) PROVE Login(d)'
  BY <1>8 DEF AuthRecv, IsAuth
<1>9. ASSUME NEW c \in Clients, AuthNoMessage(c) PROVE Login(d)'
  BY <1>9 DEF AuthNoMessage, NoMessage, ErrorReported
<1>10. ASSUME NEW c \in Clients, Scan(c) PROVE Login(d)'
  BY <1>10 DEF Scan
<1>11. ASSUME NEW c \in Clients, PushUser(c) PROVE Login(d)'
  BY <1>11 DEF PushUser
<1>12. ASSUME NEW c \in Clients, Refuse(c) PROVE Login(d)'
  BY <1>12 DEF Refuse, Refused, Sent, SendError
<1>13. ASSUME NEW c \in Clients, Reply(c) PROVE Login(d)'
  BY <1>13 DEF Reply, Sent, SendError
<1>14. ASSUME NEW c \in Clients, SetName(c) PROVE Login(d)'
  BY <1>14 DEF SetName
<1>15. ASSUME NEW c \in Clients, SetAuth(c) PROVE Login(d)'
  BY <1>15 DEF SetAuth
<1>16. ASSUME NEW c \in Clients, CopyBacklog(c) PROVE Login(d)'
  BY <1>16 DEF CopyBacklog
<1>17. ASSUME NEW c \in Clients, QueueBacklog(c) PROVE Login(d)'
  BY <1>17 DEF QueueBacklog
<1>18. ASSUME NEW c \in Clients, FlushOne(c) PROVE Login(d)'
  BY <1>18 DEF FlushOne, Sent, SendError
<1>19. ASSUME NEW c \in Clients, FlushDone(c) PROVE Login(d)'
  BY <1>19 DEF FlushDone
<1>20. ASSUME NEW c \in Clients, ReadText(c) PROVE Login(d)'
  BY <1>20 DEF ReadText, Take, Got
<1>21. ASSUME NEW c \in Clients, ReadOther(c) PROVE Login(d)'
  BY <1>21 DEF ReadOther, Take, Got
<1>22. ASSUME NEW c \in Clients, ReadNothing(c) PROVE Login(d)'
  BY <1>22 DEF ReadNothing, ErrorReported
<1>23. ASSUME NEW c \in Clients, ReplyError(c) PROVE Login(d)'
  BY <1>23 DEF ReplyError, Sent, SendError
<1>24. ASSUME NEW c \in Clients, SendLock(c) PROVE Login(d)'
  BY <1>24 DEF SendLock, Lock
<1>25. ASSUME NEW c \in Clients, NEW e \in Clients, SendQueue(c, e) PROVE Login(d)'
  BY <1>25 DEF SendQueue, Queued, Hears
<1>26. ASSUME NEW c \in Clients, SendCommit(c) PROVE Login(d)'
  BY <1>26 DEF SendCommit, Unlock
<1>27. ASSUME NEW c \in Clients, PeekClosed(c) PROVE Login(d)'
  BY <1>27 DEF PeekClosed
<1>28. ASSUME NEW c \in Clients, PeekOpen(c) PROVE Login(d)'
  BY <1>28 DEF PeekOpen, ErrorReported
<1>29. ASSUME NEW c \in Clients, UnregLock(c) PROVE Login(d)'
  BY <1>29 DEF UnregLock, Lock
<1>30. ASSUME NEW c \in Clients, Erase(c) PROVE Login(d)'
  BY <1>30 DEF Erase, Unlock
<1>31. ASSUME NEW c \in Clients, ClearAuth(c) PROVE Login(d)'
  BY <1>31 DEF ClearAuth
<1>32. ASSUME NEW c \in Clients, SigPipe(c) PROVE Login(d)'
  BY <1>32 DEF SigPipe
<1> QED
  BY <1>1, <1>2, <1>3, <1>4, <1>5, <1>6, <1>7, <1>8, <1>9,
     <1>10, <1>11, <1>12, <1>13, <1>14, <1>15, <1>16, <1>17, <1>18,
     <1>19, <1>20, <1>21, <1>22, <1>23, <1>24, <1>25, <1>26, <1>27,
     <1>28, <1>29, <1>30, <1>31, <1>32, NextCases

LEMMA AccountInvStep == TypeOK /\ AccountInv /\ [Next]_vars => AccountInv'
BY FileStep, LoginStep DEF AccountInv

\* Whatever logins race to create accounts, nobody speaks under a name that
\* has an account in the database file without that account's password.
THEOREM LoadedAccounts == Spec => []LoadedAccountsSafe
<1>1. Init => TypeOK /\ AccountInv BY InitType, InitAccounts
<1>2. TypeOK /\ AccountInv /\ [Next]_vars => (TypeOK /\ AccountInv)'
  BY TypeStep, AccountInvStep
<1>3. AccountInv => LoadedAccountsSafe
  BY DEF AccountInv, Login, LoadedAccountsSafe, Vetted, Named
<1> QED BY <1>1, <1>2, <1>3, PTL DEF Spec

(***************************************************************************)
(* What a login leads to, for every set of clients, names, passwords and   *)
(* messages, every database file and every fault: what a peer is sent      *)
(* first, under which name it speaks, and what becomes of its account.     *)
(***************************************************************************)


(***************************************************************************)
(* How the thread of one client moves through a login.                     *)
(***************************************************************************)
Before == {"none", "auth", "lookup", "scan", "adduser", "pushuser", "refuse",
           "reply"}
Logged == Accepted \ {"reply"}

LoginBy(d) ==
  \/ Accept(d) \/ AuthRecv(d) \/ AuthNoMessage(d) \/ Lookup(d) \/ Scan(d)
  \/ AddUser(d) \/ PushUser(d) \/ Refuse(d) \/ Reply(d)

\* Only the thread of d itself moves pc[d], and never back into its login.
LEMMA Turns ==
  ASSUME TypeOK, [Next]_vars, NEW d \in Clients, pc'[d] # pc[d]
  PROVE  \/ LoginBy(d)
         \/ pc[d] \in Logged /\ pc'[d] \in (Logged \ {"setname"}) \cup {"done"}
<1> USE DEF TypeOK, ControlTypes, Labels, Logged, Accepted, At, Goto
<1>1. CASE RegisterLock \/ RegisterPush \/ DataRace \/ UNCHANGED vars
  BY <1>1 DEF RegisterLock, RegisterPush, DataRace, vars
<1>2. ASSUME NEW c \in Clients, PeerSend(c) \/ PeerStall(c) \/ PeerClose(c) \/ PeerReset(c)
      PROVE  FALSE
  BY <1>2 DEF PeerSend, PeerStall, PeerClose, PeerReset
<1>3. ASSUME NEW c \in Clients, LoginBy(c)
      PROVE  LoginBy(d)
  <2>1. c = d
    BY <1>3 DEF LoginBy, Accept, AuthRecv, AuthNoMessage, Lookup, Scan, AddUser,
       PushUser, Refuse, Reply
  <2> QED BY <1>3, <2>1
<1>4. ASSUME NEW c \in Clients,
             \/ SetName(c) \/ SetAuth(c) \/ CopyBacklog(c) \/ QueueBacklog(c)
             \/ FlushOne(c) \/ FlushDone(c) \/ ReadText(c) \/ ReadOther(c)
             \/ ReadNothing(c) \/ ReplyError(c)
      PROVE  pc[d] \in Logged /\ pc'[d] \in (Logged \ {"setname"}) \cup {"done"}
  BY <1>4 DEF SetName, SetAuth, CopyBacklog, QueueBacklog, FlushOne, FlushDone,
       ReadText, ReadOther, ReadNothing, ReplyError, Take
<1>5. ASSUME NEW c \in Clients,
             \/ SendLock(c) \/ (\E e \in Clients : SendQueue(c, e))
             \/ SendCommit(c) \/ PeekClosed(c) \/ PeekOpen(c) \/ UnregLock(c)
             \/ Erase(c) \/ ClearAuth(c) \/ SigPipe(c)
      PROVE  pc[d] \in Logged /\ pc'[d] \in (Logged \ {"setname"}) \cup {"done"}
  BY <1>5 DEF SendLock, SendQueue, SendCommit, PeekClosed, PeekOpen, UnregLock,
       Erase, ClearAuth, SigPipe
<1> QED BY <1>1, <1>2, <1>3, <1>4, <1>5, NextCases DEF LoginBy

LEMMA MovesOn ==
  ASSUME TypeOK, [Next]_vars, NEW d \in Clients
  PROVE  \/ pc'[d] = pc[d]
         \/ pc[d] \in Before \ {"reply"} /\ pc'[d] \in Before \cup {"done"}
         \/ Reply(d) /\ pc'[d] \in {"setname", "done"}
         \/ pc[d] \in Logged /\ pc'[d] \in (Logged \ {"setname"}) \cup {"done"}
<1> USE DEF TypeOK, ControlTypes, Before, At, Goto
<1>1. CASE Reply(d)
  BY <1>1 DEF Reply
<1>2. CASE LoginBy(d) /\ ~Reply(d)
  BY <1>2 DEF LoginBy, Accept, AuthRecv, AuthNoMessage, NoMessage, Lookup, Scan,
       AddUser, PushUser, Refuse, Refused
<1> QED BY <1>1, <1>2, Turns

(***************************************************************************)
(* What a peer is sent first.                                              *)
(***************************************************************************)
Answered(c) == out[c] # <<>> /\ out[c][1] = Status("ok")

\* Nothing is sent before the login was decided, a good answer comes before
\* everything else, and a bad one is all there is.
Answers(c) ==
  /\ pc[c] \in Before => out[c] = <<>>
  /\ pc[c] \in Logged => Answered(c)
  /\ pc[c] = "done" =>
       Answered(c) \/ \E r \in Replies : out[c] \in {<<>>, <<r>>}

AnswerInv == \A c \in Clients : Answers(c)

\* The only sends, and where they come from.
LEMMA Sends ==
  ASSUME TypeOK, [Next]_vars, NEW d \in Clients
  PROVE  \/ out'[d] = out[d]
         \/ Refuse(d) /\ out'[d] = Append(out[d], Status("not_auth"))
         \/ Reply(d) /\ out'[d] = Append(out[d], Status("ok")) /\ pc'[d] = "setname"
         \/ /\ pc[d] \in Logged
            /\ \E e \in Entries \cup Replies : out'[d] = Append(out[d], e)
<1> USE DEF TypeOK, NetTypes, TextTypes, netVars
<1>1. ASSUME NEW c \in Clients, Refuse(c) \/ Reply(c)
      PROVE  \/ out'[d] = out[d]
             \/ Refuse(d) /\ out'[d] = Append(out[d], Status("not_auth"))
             \/ Reply(d) /\ out'[d] = Append(out[d], Status("ok")) /\ pc'[d] = "setname"
  BY <1>1 DEF Refuse, Reply, Sent, SendError, ControlTypes, Goto
<1>2. ASSUME NEW c \in Clients, FlushOne(c) \/ ReplyError(c)
      PROVE  \/ out'[d] = out[d]
             \/ /\ pc[d] \in Logged
                /\ \E e \in Entries \cup Replies : out'[d] = Append(out[d], e)
  <2>1. Status("not_ok") \in Replies
    BY DEF Status, Replies
  <2>2. queue_[c] \in Seq(Entries) /\ (queue_[c] # <<>> => Head(queue_[c]) \in Entries)
    OBVIOUS
  <2>3. CASE FlushOne(c)
    BY <2>2, <2>3 DEF FlushOne, Sent, SendError, At, Logged, Accepted
  <2>4. CASE ReplyError(c)
    BY <2>1, <2>4 DEF ReplyError, Sent, SendError, At, Logged, Accepted
  <2> QED BY <1>2, <2>3, <2>4
<1>3. ASSUME NEW c \in Clients,
             \/ PeerSend(c) \/ PeerStall(c) \/ PeerClose(c) \/ PeerReset(c) \/ AuthRecv(c)
             \/ AuthNoMessage(c) \/ ReadText(c) \/ ReadOther(c)
             \/ ReadNothing(c) \/ PeekOpen(c)
      PROVE  out'[d] = out[d]
  BY <1>3 DEF PeerSend, PeerStall, PeerClose, PeerReset, AuthRecv, AuthNoMessage, ReadText,
       ReadOther, ReadNothing, PeekOpen
<1> QED BY <1>1, <1>2, <1>3, NetFrame

LEMMA AnswerStep == TypeOK /\ AnswerInv /\ [Next]_vars => AnswerInv'
<1> SUFFICES ASSUME TypeOK, AnswerInv, [Next]_vars, NEW d \in Clients
             PROVE  Answers(d)'
  BY DEF AnswerInv
<1>1. Answers(d) /\ out[d] \in Seq(Entries \cup Replies) /\ pc[d] \in Labels
  BY DEF AnswerInv, TypeOK, NetTypes, ControlTypes
<1> USE DEF Answers, Answered, Before, Logged, Accepted, Labels
<1>2. CASE Refuse(d)
  <2>1. pc[d] = "refuse" /\ pc'[d] = "done" /\ out[d] = <<>>
    BY <1>1, <1>2 DEF Refuse, Refused, At, Goto, TypeOK, ControlTypes
  <2>2. Status("not_auth") \in Replies
    BY DEF Status, Replies
  <2>3. out'[d] = <<>> \/ out'[d] = <<Status("not_auth")>>
    BY <1>2, <2>1 DEF Refuse, Sent, SendError, TypeOK, NetTypes
  <2> QED BY <2>1, <2>2, <2>3
<1>3. CASE Reply(d)
  <2>1. pc[d] = "reply" /\ out[d] = <<>>
    BY <1>1, <1>3 DEF Reply, At
  <2>2. \/ out'[d] = <<Status("ok")>> /\ pc'[d] = "setname"
        \/ out'[d] = <<>> /\ pc'[d] = "done"
    BY <1>3, <2>1 DEF Reply, Sent, SendError, Goto, TypeOK, NetTypes, ControlTypes
  <2>3. Status("ok") \in Replies
    BY DEF Status, Replies
  <2> QED BY <2>2, <2>3
<1>4. CASE ~Refuse(d) /\ ~Reply(d) /\ out'[d] = out[d]
  <2>1. CASE pc'[d] = pc[d]
    BY <1>1, <1>4, <2>1
  <2>2. CASE pc[d] \in Before
    <3>1. Status("ok") \in Replies BY DEF Status, Replies
    <3>2. pc'[d] \in Before \cup {"done"} /\ out'[d] = <<>>
      BY <1>1, <1>4, <2>2, MovesOn
    <3> QED BY <3>1, <3>2
  <2>3. CASE pc[d] \in Logged /\ pc'[d] # pc[d]
    BY <1>1, <1>4, <2>3, MovesOn
  <2> QED BY <1>1, <1>4, <2>1, <2>2, <2>3, MovesOn
<1>5. CASE /\ pc[d] \in Logged
           /\ \E e \in Entries \cup Replies : out'[d] = Append(out[d], e)
  <2>1. Answered(d)' BY <1>1, <1>5
  <2>2. pc'[d] \in Logged \cup {"done"} BY <1>5, MovesOn DEF Reply, At
  <2> QED BY <2>1, <2>2
<1> QED BY <1>2, <1>3, <1>4, <1>5, Sends

LEMMA InitAnswers == Init => AnswerInv
BY DEF Init, AnswerInv, Answers, Before, Logged, Accepted, mainVars

\* Every peer is sent the answer to its login first, and texts only after a
\* good one, whatever others send at the same time.
THEOREM AnswersFirst == Spec => []StatusFirst
<1>1. Init => TypeOK /\ AnswerInv BY InitType, InitAnswers
<1>2. TypeOK /\ AnswerInv /\ [Next]_vars => (TypeOK /\ AnswerInv)'
  BY TypeStep, AnswerStep
<1>3. TypeOK /\ AnswerInv => StatusFirst
  <2> SUFFICES ASSUME TypeOK, NEW c \in Clients, Answers(c), out[c] # <<>>
               PROVE  /\ out[c][1].kind = "status"
                      /\ Len(out[c]) > 1 => out[c][1] = Status("ok")
    BY DEF AnswerInv, StatusFirst
  <2>1. pc[c] \in Labels BY DEF TypeOK, ControlTypes
  <2>2. Status("ok").kind = "status" BY DEF Status
  <2>3. CASE Answered(c) BY <2>2, <2>3 DEF Answered
  <2>4. CASE \E r \in Replies : out[c] = <<r>> BY <2>4 DEF Replies
  <2> QED
    BY <2>1, <2>3, <2>4 DEF Answers, Before, Logged, Accepted, Labels
<1> QED BY <1>1, <1>2, <1>3, PTL DEF Spec

(***************************************************************************)
(* Who speaks.                                                             *)
(***************************************************************************)
\* The author of a text of the backlog is past its login, and what it logged in
\* with and was told then is not changed any more.
Spoke(c) ==
  /\ pc[c] \in Logged \cup {"done"}
  /\ cred[c] # NoCred
  /\ Answered(c)

SpeakerInv ==
  \A i \in 1 .. Len(backlog_) : \A c \in Clients :
    backlog_[i].from = c => Spoke(c) /\ backlog_[i].user = cred[c].name

LEMMA CredStays ==
  ASSUME TypeOK, [Next]_vars, NEW c \in Clients, pc[c] # "auth"
  PROVE  cred'[c] = cred[c]
<1>1. ASSUME NEW d \in Clients, AuthRecv(d) PROVE cred'[c] = cred[c]
  <2>1. d # c BY <1>1 DEF AuthRecv, At
  <2> QED BY <1>1, <2>1 DEF AuthRecv, TypeOK, AccountTypes
<1>2. ASSUME NEW d \in Clients, AddUser(d) \/ PushUser(d) \/ SetName(d)
      PROVE  cred' = cred
  BY <1>2 DEF AddUser, PushUser, SetName, localVars
<1> QED BY <1>1, <1>2, AccountFrame

LEMMA SpokeStays ==
  ASSUME TypeOK, [Next]_vars, NEW c \in Clients, Spoke(c)
  PROVE  Spoke(c)' /\ cred'[c] = cred[c]
<1>1. ~Reply(c) /\ ~Refuse(c) /\ pc'[c] \in Logged \cup {"done"}
  BY MovesOn DEF Spoke, Reply, Refuse, At, Logged, Accepted, Before
<1>2. Answered(c)'
  <2>1. out[c] \in Seq(Entries \cup Replies) /\ Answered(c)
    BY DEF Spoke, TypeOK, NetTypes
  <2>2. ASSUME NEW e \in Entries \cup Replies, out'[c] = Append(out[c], e)
        PROVE  Answered(c)'
    BY <2>1, <2>2 DEF Answered
  <2>3. CASE out'[c] = out[c]
    BY <2>1, <2>3 DEF Answered
  <2> QED BY <1>1, <2>2, <2>3, Sends
<1>3. cred'[c] = cred[c]
  BY CredStays DEF Spoke, Logged, Accepted
<1> QED BY <1>1, <1>2, <1>3 DEF Spoke

LEMMA SpeakerStep ==
  TypeOK /\ AccountInv /\ AnswerInv /\ SpeakerInv /\ [Next]_vars => SpeakerInv'
<1> SUFFICES ASSUME TypeOK, AccountInv, AnswerInv, SpeakerInv, [Next]_vars
             PROVE  SpeakerInv'
  OBVIOUS
<1>1. CASE UNCHANGED backlog_
  BY <1>1, SpokeStays DEF SpeakerInv
<1>2. ASSUME NEW c \in Clients, SendCommit(c) PROVE SpeakerInv'
  <2>1. /\ pc[c] = "sending" /\ backlog_' = Append(backlog_, ServerText(c))
        /\ backlog_ \in Seq(Texts)
    BY <1>2 DEF SendCommit, At, Recorded, TypeOK, TextTypes
  <2>2. Spoke(c) /\ name_[c] = cred[c].name
    <3>1. cred[c] \in Creds
      BY <2>1 DEF TypeOK, LocalsRead, Accepted
    <3>2. name_[c] = cred[c].name
      BY <2>1 DEF AccountInv, Login, Named, Accepted
    <3>3. Answered(c)
      BY <2>1 DEF AnswerInv, Answers, Logged, Accepted
    <3> QED BY <2>1, <3>1, <3>2, <3>3, CredAssumption DEF Spoke, Logged, Accepted
  <2>3. ASSUME NEW i \in 1 .. Len(backlog_'), NEW d \in Clients,
               backlog_'[i].from = d
        PROVE  Spoke(d)' /\ backlog_'[i].user = cred'[d].name
    <3>1. CASE i = Len(backlog_) + 1
      <4>1. backlog_'[i] = ServerText(c) BY <2>1, <3>1
      <4>2. d = c /\ backlog_'[i].user = name_[c]
        BY <2>3, <4>1 DEF ServerText
      <4> QED BY <2>2, <4>2, SpokeStays
    <3>2. CASE i # Len(backlog_) + 1
      <4>1. i \in 1 .. Len(backlog_) /\ backlog_'[i] = backlog_[i]
        BY <2>1, <2>3, <3>2
      <4>2. Spoke(d) /\ backlog_[i].user = cred[d].name
        BY <2>3, <4>1 DEF SpeakerInv
      <4> QED BY <4>1, <4>2, SpokeStays
    <3> QED BY <3>1, <3>2
  <2> QED BY <2>3 DEF SpeakerInv
<1>3. CASE RegisterPush
  BY <1>1, <1>3 DEF RegisterPush
<1>4. ASSUME NEW c \in Clients,
             \/ SetAuth(c) \/ CopyBacklog(c) \/ QueueBacklog(c) \/ FlushOne(c)
             \/ ReadText(c) \/ (\E d \in Clients : SendQueue(c, d))
      PROVE  UNCHANGED backlog_
  BY <1>4 DEF SetAuth, CopyBacklog, QueueBacklog, FlushOne, ReadText, SendQueue,
       dataVars
<1> QED BY <1>1, <1>2, <1>3, <1>4, TextFrame

LEMMA InitSpeakers == Init => SpeakerInv
BY PastAssumption, ThreadsAssumption DEF Init, SpeakerInv, dataVars

\* No text enters the backlog under a name its author did not log in to, and
\* none before its author was told that the login succeeded.
THEOREM SpeakersLoggedIn == Spec => []SpeakersAreAuthenticated
<1>1. Init => TypeOK /\ AccountInv /\ AnswerInv /\ SpeakerInv
  BY InitType, InitAccounts, InitAnswers, InitSpeakers
<1>2. TypeOK /\ AccountInv /\ AnswerInv /\ SpeakerInv /\ [Next]_vars
        => (TypeOK /\ AccountInv /\ AnswerInv /\ SpeakerInv)'
  BY TypeStep, AccountInvStep, AnswerStep, SpeakerStep
<1>3. TypeOK /\ SpeakerInv => SpeakersAreAuthenticated
  <2>1. ASSUME TypeOK, NEW c \in Clients, Spoke(c)
        PROVE  \E j \in 1 .. Len(out[c]) : out[c][j] = Status("ok")
    <3>1. 1 \in 1 .. Len(out[c]) /\ out[c][1] = Status("ok")
      BY <2>1 DEF Spoke, Answered, TypeOK, NetTypes
    <3> QED BY <3>1
  <2> QED BY <2>1 DEF SpeakerInv, Spoke, SpeakersAreAuthenticated
<1> QED BY <1>1, <1>2, <1>3, PTL DEF Spec

(***************************************************************************)
(* What becomes of an account.                                             *)
(***************************************************************************)
FileAccounts == {LoadedUsers[i] : i \in 1 .. Len(LoadedUsers)}

\* A client that passed the check of its password or created its account.
Member(c) == pc[c] \in Accepted \cup {"scan"}

\* d has created an account, which may have taken the place of another one.
Creator(d) ==
  /\ pc[d] \in Accepted \cup {"done"}
  /\ cred[d] # NoCred /\ ~Loaded(cred[d].name)

Kept(c) ==
  \/ cred[c] \in FileAccounts
  \/ /\ ~Loaded(cred[c].name)
     /\ cred[c] \in Accounts \/ \E d \in Clients \ {c} : Creator(d)

KeptInv == \A c \in Clients : Member(c) => Kept(c)

LEMMA CreatorStays ==
  ASSUME TypeOK, [Next]_vars, NEW d \in Clients, Creator(d)
  PROVE  Creator(d)'
<1>1. cred'[d] = cred[d]
  BY CredStays DEF Creator, Accepted
<1>2. pc'[d] \in Accepted \cup {"done"}
  BY MovesOn DEF Creator, Before, Logged, Accepted, Reply, At
<1> QED BY <1>1, <1>2 DEF Creator, Loaded

\* The two ways to an account: the check of the password, and a new account.
LEMMA Enters ==
  ASSUME TypeOK, [Next]_vars, NEW d \in Clients, Member(d)', ~Member(d)
  PROVE  \/ Lookup(d) /\ pc'[d] = "scan"
         \/ PushUser(d)
<1> USE DEF TypeOK, ControlTypes, Member, Accepted, At, Goto
<1>1. LoginBy(d)
  BY Turns DEF Logged
<1>2. CASE Lookup(d)
  BY <1>2 DEF Lookup
<1>3. CASE LoginBy(d) /\ ~Lookup(d) /\ ~PushUser(d)
  BY <1>3 DEF LoginBy, Accept, AuthRecv, AuthNoMessage, NoMessage, Scan, AddUser,
       Refuse, Refused, Reply
<1> QED BY <1>1, <1>2, <1>3

LEMMA Matched ==
  ASSUME TypeOK, AccountInv, NEW c \in Clients, Lookup(c), pc'[c] = "scan"
  PROVE  Kept(c) /\ users_' = users_
<1>1. PICK i \in 1 .. Len(users_) :
        FirstNamed(i, cred[c].name) /\ PassMatches(users_[i], c)
  BY DEF Lookup, At, Goto, TypeOK, ControlTypes
<1>2. cred[c] = users_[i]
  <2>1. cred[c] \in Creds /\ users_[i] \in Creds
    BY DEF TypeOK, AccountTypes, LocalsRead, Lookup, At
  <2>2. users_[i].name = cred[c].name /\ users_[i].pass = cred[c].pass
    BY <1>1 DEF FirstNamed, PassMatches
  <2> QED BY <2>1, <2>2 DEF Creds
<1>3. CASE Loaded(cred[c].name)
  BY <1>1, <1>2, <1>3, FirstInFile DEF Kept, FileAccounts, Lookup, dataVars
<1>4. CASE ~Loaded(cred[c].name)
  BY <1>2, <1>4 DEF Kept, Accounts, Lookup, dataVars
<1> QED BY <1>3, <1>4

\* A push_back that takes no lock drops at most accounts of other creators.
LEMMA Pushed ==
  ASSUME TypeOK, AccountInv, NEW d \in Clients, PushUser(d)
  PROVE  Creator(d)' /\ cred[d] \in Accounts' /\ ~Loaded(cred[d].name)
<1>1. PICK k \in {slot[d], Len(users_) + 1} :
        k <= Len(users_) + 1 /\ users_' = Stored(k, cred[d])
  BY DEF PushUser
<1>2. /\ pc[d] = "pushuser" /\ pc'[d] = "reply" /\ cred' = cred
      /\ cred[d] \in Creds
  BY DEF PushUser, At, Goto, TypeOK, ControlTypes, LocalsRead
<1>3. ~Loaded(cred[d].name) /\ k \in Nat /\ k >= 1
  BY <1>1, <1>2, LoadedAssumption
     DEF AccountInv, Login, TypeOK, AccountTypes
<1>4. cred[d] = users_'[k] /\ k \in 1 .. Len(users_')
  BY <1>1, <1>2, <1>3 DEF Stored, TypeOK, AccountTypes
<1> QED BY <1>2, <1>3, <1>4, CredAssumption DEF Creator, Accounts, Accepted, Loaded

LEMMA KeptStep ==
  TypeOK /\ AccountInv /\ KeptInv /\ [Next]_vars => KeptInv'
<1> SUFFICES ASSUME TypeOK, AccountInv, KeptInv, [Next]_vars,
                    NEW c \in Clients, Member(c)'
             PROVE  Kept(c)'
  BY DEF KeptInv
<1>1. CASE Lookup(c) /\ ~Member(c) /\ pc'[c] = "scan"
  <2>1. Kept(c) /\ users_' = users_ /\ cred' = cred
    BY <1>1, Matched DEF Lookup, localVars
  <2>2. \A d \in Clients : Creator(d) => Creator(d)'
    BY CreatorStays
  <2> QED BY <2>1, <2>2 DEF Kept, Accounts, FileAccounts, Loaded
<1>2. CASE PushUser(c) /\ ~Member(c)
  <2>1. cred' = cred BY <1>2 DEF PushUser
  <2> QED BY <1>2, <2>1, Pushed DEF Kept, Loaded
<1>3. CASE Member(c)
  <2>1. Kept(c) /\ cred'[c] = cred[c]
    BY <1>3, CredStays DEF KeptInv, Member, Accepted
  <2>2. \A d \in Clients : Creator(d) => Creator(d)'
    BY CreatorStays
  <2>3. CASE users_' = users_
    BY <2>1, <2>2, <2>3 DEF Kept, Accounts, FileAccounts, Loaded
  <2>4. ASSUME NEW d \in Clients, PushUser(d) PROVE Kept(c)'
    <3>1. d # c /\ Creator(d)'
      BY <1>3, <2>4, Pushed DEF PushUser, At, Member, Accepted
    <3> QED BY <2>1, <3>1 DEF Kept, FileAccounts, Loaded
  <2>5. ASSUME NEW d \in Clients, AuthRecv(d) \/ AddUser(d) \/ SetName(d)
        PROVE  users_' = users_
    BY <2>5 DEF AuthRecv, AddUser, SetName, dataVars
  <2> QED BY <2>3, <2>4, <2>5, AccountFrame
<1> QED BY <1>1, <1>2, <1>3, Enters

LEMMA InitKept == Init => KeptInv
BY DEF Init, KeptInv, Member, Accepted

\* The accounts of the file are never lost, and an account a client logged in
\* to or created only to another client that creates one at the same time.
THEOREM AccountsStay == Spec => []AccountsKept
<1>1. Init => TypeOK /\ AccountInv /\ KeptInv
  BY InitType, InitAccounts, InitKept
<1>2. TypeOK /\ AccountInv /\ KeptInv /\ [Next]_vars
        => (TypeOK /\ AccountInv /\ KeptInv)'
  BY TypeStep, AccountInvStep, KeptStep
<1>3. AccountInv /\ KeptInv => AccountsKept
  <2>1. AccountInv => FileAccounts \subseteq Accounts
    BY LoadedAssumption DEF AccountInv, FileKept, FileAccounts, Accounts
  <2> QED BY <2>1 DEF AccountInv, KeptInv, Member, Kept, Creator, AccountsKept
<1> QED BY <1>1, <1>2, <1>3, PTL DEF Spec

(***************************************************************************)
(* Who is turned away.                                                     *)
(***************************************************************************)
Excuse(c) ==
  cred[c].name = NoName \/ \E d \in Clients \ {c} : name_[d] = cred[c].name

\* Until its thread is about to name it, a client has the empty name; only a
\* name the file does not have is created; a refusal has a reason.
Refusal(c) ==
  /\ pc[c] \in Before \cup {"setname"} => name_[c] = NoName
  /\ pc[c] = "adduser" => ~Loaded(cred[c].name)
  /\ pc[c] = "refuse" /\ Knows(c) => Excuse(c)

RefusalInv == \A c \in Clients : Refusal(c)

LEMMA Decides ==
  ASSUME TypeOK, [Next]_vars, NEW d \in Clients,
         pc'[d] # pc[d], pc'[d] \in {"adduser", "refuse"}
  PROVE  Lookup(d) \/ Scan(d) \/ (AddUser(d) /\ pc'[d] = "refuse")
<1> USE DEF TypeOK, ControlTypes, At, Goto
<1>1. LoginBy(d)
  BY Turns DEF Logged, Accepted
<1>2. CASE AddUser(d)
  BY <1>2 DEF AddUser
<1>3. CASE LoginBy(d) /\ ~Lookup(d) /\ ~Scan(d) /\ ~AddUser(d)
  BY <1>3 DEF LoginBy, Accept, AuthRecv, AuthNoMessage, NoMessage, PushUser,
       Refuse, Refused, Reply
<1> QED BY <1>1, <1>2, <1>3

\* A client is named once, by its own thread.
LEMMA Naming ==
  ASSUME TypeOK, [Next]_vars, NEW d \in Clients
  PROVE  \/ name_'[d] = name_[d]
         \/ pc[d] = "setname" /\ pc'[d] = "setauth"
<1> USE DEF TypeOK, ControlTypes, AccountTypes, At, Goto
<1>1. ASSUME NEW c \in Clients, SetName(c)
      PROVE  \/ name_'[d] = name_[d]
             \/ pc[d] = "setname" /\ pc'[d] = "setauth"
  BY <1>1 DEF SetName
<1>2. ASSUME NEW c \in Clients, AuthRecv(c) \/ AddUser(c) \/ PushUser(c)
      PROVE  name_' = name_
  BY <1>2 DEF AuthRecv, AddUser, PushUser, clientVars
<1> QED BY <1>1, <1>2, AccountFrame

LEMMA RefusalStep ==
  TypeOK /\ AccountInv /\ RefusalInv /\ [Next]_vars => RefusalInv'
<1> SUFFICES ASSUME TypeOK, AccountInv, RefusalInv, [Next]_vars, NEW c \in Clients
             PROVE  Refusal(c)'
  BY DEF RefusalInv
<1>1. Refusal(c) /\ pc[c] \in Labels
  BY DEF RefusalInv, TypeOK, ControlTypes
<1>2. (pc[c] \in Before \cup {"setname"} => name_[c] = NoName)'
  <2>1. pc'[c] \in Before \cup {"setname"} => pc[c] \in Before \cup {"setname"}
    BY MovesOn DEF Before, Logged, Accepted, Reply, At
  <2> QED BY <1>1, <2>1, Naming DEF Refusal, Before
<1>3. (pc[c] = "adduser" => ~Loaded(cred[c].name))'
  <2>1. CASE pc'[c] = pc[c]
    BY <1>1, <2>1, CredStays DEF Refusal, Loaded
  <2>2. CASE pc'[c] = "adduser" /\ pc'[c] # pc[c]
    <3>1. pc'[c] # "refuse" BY <2>2
    <3>2. Lookup(c)
      BY <2>2, Decides DEF Scan, Goto, TypeOK, ControlTypes
    <3>3. \A i \in 1 .. Len(users_) : users_[i].name # cred[c].name
      BY <2>2, <3>2 DEF Lookup, Goto, TypeOK, ControlTypes
    <3>4. ~Loaded(cred[c].name)
      BY <3>3, LoadedAssumption
         DEF Loaded, AccountInv, FileKept, TypeOK, AccountTypes
    <3> QED BY <3>2, <3>4 DEF Lookup, localVars, Loaded
  <2> QED BY <2>1, <2>2
<1>4. ASSUME Excuse(c), cred'[c] = cred[c] PROVE Excuse(c)'
  <2>1. \A d \in Clients : name_'[d] = name_[d] \/ name_[d] = NoName
    BY Naming DEF RefusalInv, Refusal
  <2> QED BY <1>4, <2>1 DEF Excuse
<1>5. (pc[c] = "refuse" /\ Knows(c) => Excuse(c))'
  <2> SUFFICES ASSUME pc'[c] = "refuse", Knows(c)' PROVE Excuse(c)'
    OBVIOUS
  <2>1. pc[c] # "auth"
    BY Decides DEF Scan, Lookup, AddUser, At
  <2>2. cred'[c] = cred[c] /\ Knows(c)
    BY <2>1, CredStays DEF Knows, Loaded, LoadedPass, FirstLoaded
  <2>3. CASE pc[c] = "refuse"
    BY <1>1, <1>4, <2>2, <2>3 DEF Refusal
  <2>4. CASE Lookup(c)
    <3>1. PICK i \in 1 .. Len(users_) :
            FirstNamed(i, cred[c].name) /\ ~PassMatches(users_[i], c)
      BY <2>4 DEF Lookup, At, Goto, TypeOK, ControlTypes
    <3> QED BY <2>2, <3>1, FirstInFile DEF Knows, PassMatches
  <2>5. CASE Scan(c)
    <3>1. pc[c] = "scan" /\ name_[c] = NoName
      BY <1>1, <2>5 DEF Scan, At, Refusal, Before
    <3>2. NameTaken(cred[c].name)
      BY <2>5 DEF Scan, Goto, TypeOK, ControlTypes
    <3>3. Excuse(c)
      BY <3>1, <3>2 DEF NameTaken, Excuse, TypeOK, ControlTypes
    <3> QED BY <1>4, <2>2, <3>3
  <2>6. CASE AddUser(c)
    BY <1>1, <2>2, <2>6 DEF AddUser, At, Refusal, Knows
  <2> QED BY <2>3, <2>4, <2>5, <2>6, Decides
<1> QED BY <1>2, <1>3, <1>5 DEF Refusal

LEMMA InitRefusal == Init => RefusalInv
<1> SUFFICES ASSUME Init, NEW c \in Clients PROVE Refusal(c)
  BY DEF RefusalInv
<1>1. pc[c] = "none" /\ name_[c] = NoName BY DEF Init
<1> QED BY <1>1 DEF Refusal

\* Who knows the password of an account of the file is turned away only because
\* of somebody else of that name, or under the empty one.
THEOREM NobodyLockedOut == Spec => []RefusedForAReason
<1>1. Init => TypeOK /\ AccountInv /\ RefusalInv
  BY InitType, InitAccounts, InitRefusal
<1>2. TypeOK /\ AccountInv /\ RefusalInv /\ [Next]_vars
        => (TypeOK /\ AccountInv /\ RefusalInv)'
  BY TypeStep, AccountInvStep, RefusalStep
<1>3. RefusalInv => RefusedForAReason
  BY DEF RefusalInv, Refusal, Excuse, RefusedForAReason
<1> QED BY <1>1, <1>2, <1>3, PTL DEF Spec

(***************************************************************************)
(* The way of a text from the socket of its author into the backlog, for   *)
(* any number of clients and texts, however they are cut into recv() calls *)
(* and whatever other messages are between them.                           *)
(***************************************************************************)

TextAt(s, i) == i \in 1 .. Len(s) /\ s[i].type = "text"

\* The texts in s have rising numbers.
Rising(s) == \A i, j \in Nat : TextAt(s, i) /\ TextAt(s, j) /\ i < j => s[i].n < s[j].n

\* All texts in s are later than number n.
Later(s, n) == \A i \in Nat : TextAt(s, i) => n < s[i].n

\* What is in the buffer was sent before what is in the socket.
Waiting(c) ==
  /\ Rising(buf[c]) /\ Rising(in[c])
  /\ \A i \in Nat : TextAt(buf[c], i) =>
       buf[c][i].n <= nsent[c] /\ Later(in[c], buf[c][i].n)
  /\ \A i \in Nat : TextAt(in[c], i) => in[c][i].n <= nsent[c]

\* n was sent before everything that waits.
Passed(c, n) == n <= nsent[c] /\ Later(buf[c], n) /\ Later(in[c], n)

\* The text in the hands of the thread comes after those that are recorded.
Recording(c) ==
  /\ Passed(c, text[c])
  /\ \A i \in 1 .. Len(backlog_) :
       backlog_[i].from = c =>
         /\ Passed(c, backlog_[i].n)
         /\ text[c] # 0 => backlog_[i].n < text[c]

QueueInv == \A c \in Clients : Waiting(c) /\ Recording(c)

LEMMA QueueFrame ==
  ASSUME [Next]_vars
  PROVE  \/ UNCHANGED <<buf, in, nsent, text, backlog_>>
         \/ \E c \in Clients :
              PeerSend(c) \/ AuthRecv(c) \/ ReadText(c) \/ ReadOther(c) \/ SendCommit(c)
<1> USE DEF mainVars, dataVars, lockVars, clientVars, localVars, netVars
<1>1. \/ UNCHANGED <<backlog_, text>>
      \/ \E c \in Clients : ReadText(c) \/ SendCommit(c)
  BY TextFrame DEF RegisterPush, SetAuth, CopyBacklog, QueueBacklog, FlushOne,
     SendQueue
<1>2. \/ UNCHANGED <<buf, in, nsent>>
      \/ \E c \in Clients :
           PeerSend(c) \/ AuthRecv(c) \/ ReadText(c) \/ ReadOther(c)
  BY NetFrame DEF PeerStall, PeerClose, PeerReset, AuthNoMessage, Refuse, Reply, FlushOne,
     ReadNothing, ReplyError, PeekOpen
<1> QED BY <1>1, <1>2

\* Taking the first messages away leaves what waits in order.
LEMMA TailOrder ==
  ASSUME NEW s \in Seq(Inputs), s # <<>>
  PROVE  /\ Tail(s) \in Seq(Inputs)
         /\ Rising(s) => Rising(Tail(s))
         /\ \A n \in Nat : Later(s, n) => Later(Tail(s), n)
         /\ \A i \in Nat : TextAt(Tail(s), i) => TextAt(s, i + 1) /\ Tail(s)[i] = s[i+1]
<1>1. /\ Tail(s) \in Seq(Inputs) /\ Len(Tail(s)) = Len(s) - 1 /\ Len(s) \in Nat
      /\ \A i \in 1 .. Len(Tail(s)) : Tail(s)[i] = s[i+1]
  OBVIOUS
<1>2. \A i \in Nat : TextAt(Tail(s), i) => TextAt(s, i + 1) /\ Tail(s)[i] = s[i+1]
  BY <1>1 DEF TextAt
<1>3. ASSUME Rising(s) PROVE Rising(Tail(s))
  <2> SUFFICES ASSUME NEW i \in Nat, NEW j \in Nat, i < j,
                      TextAt(Tail(s), i), TextAt(Tail(s), j)
               PROVE  Tail(s)[i].n < Tail(s)[j].n
    BY DEF Rising
  <2>1. i + 1 \in Nat /\ j + 1 \in Nat /\ i + 1 < j + 1
    OBVIOUS
  <2> QED BY <1>2, <1>3, <2>1 DEF Rising
<1>4. ASSUME NEW n \in Nat, Later(s, n) PROVE Later(Tail(s), n)
  <2> SUFFICES ASSUME NEW i \in Nat, TextAt(Tail(s), i)
               PROVE  n < Tail(s)[i].n
    BY DEF Later
  <2>1. i + 1 \in Nat OBVIOUS
  <2> QED BY <1>2, <1>4, <2>1 DEF Later
<1> QED BY <1>1, <1>2, <1>3, <1>4

LEMMA EmptyOrder ==
  Rising(<<>>) /\ \A n \in Nat : Later(<<>>, n)
BY DEF Rising, Later, TextAt

LEMMA NumbersAre ==
  ASSUME NEW s \in Seq(Inputs), NEW i \in Nat, TextAt(s, i)
  PROVE  s[i].n \in Nat
<1>1. s[i] \in Inputs /\ s[i].type = "text" BY DEF TextAt
<1> QED BY <1>1, TextInput, ParameterAssumption

\* The messages a peer sends are numbered.
LEMMA SendOrder ==
  ASSUME TypeOK, QueueInv, NEW c \in Clients, PeerSend(c)
  PROVE  Waiting(c)' /\ \A n \in Nat : Passed(c, n) => Passed(c, n)'
<1> USE DEF TypeOK, NetTypes
<1>1. PICK m \in Offered(c) : in'[c] = Append(in[c], m)
  BY DEF PeerSend
<1>2. /\ m.type = "text" => m.n = nsent[c] + 1
      /\ nsent'[c] = nsent[c] + 1 /\ nsent[c] \in Nat /\ buf' = buf
      /\ in[c] \in Seq(Inputs) /\ buf[c] \in Seq(Inputs)
  BY ParameterAssumption DEF PeerSend, Offered
<1>3. Waiting(c) BY DEF QueueInv
<1>4. \A i \in Nat :
        TextAt(in'[c], i) =>
          \/ TextAt(in[c], i) /\ in'[c][i] = in[c][i] /\ i < Len(in[c]) + 1
          \/ i = Len(in[c]) + 1 /\ in'[c][i].n = nsent[c] + 1
  BY <1>1, <1>2 DEF TextAt
<1>5. ASSUME NEW n \in Nat, n <= nsent[c], Later(in[c], n)
      PROVE  Later(in'[c], n)
  <2> SUFFICES ASSUME NEW i \in Nat, TextAt(in'[c], i) PROVE n < in'[c][i].n
    BY DEF Later
  <2>1. CASE TextAt(in[c], i) /\ in'[c][i] = in[c][i]
    BY <1>5, <2>1 DEF Later
  <2>2. CASE in'[c][i].n = nsent[c] + 1
    BY <1>2, <1>5, <2>2
  <2> QED BY <1>4, <2>1, <2>2
<1>6. Rising(in'[c])
  <2> SUFFICES ASSUME NEW i \in Nat, NEW j \in Nat, i < j,
                      TextAt(in'[c], i), TextAt(in'[c], j)
               PROVE  in'[c][i].n < in'[c][j].n
    BY DEF Rising
  <2>1. TextAt(in[c], i) /\ in'[c][i] = in[c][i]
    <3>1. j <= Len(in[c]) + 1 /\ Len(in[c]) \in Nat
      BY <1>1, <1>2 DEF TextAt
    <3>2. i # Len(in[c]) + 1 BY <3>1
    <3> QED BY <1>4, <3>2
  <2>2. CASE TextAt(in[c], j) /\ in'[c][j] = in[c][j]
    BY <1>3, <2>1, <2>2 DEF Waiting, Rising
  <2>3. CASE in'[c][j].n = nsent[c] + 1
    <3>1. in[c][i].n \in Nat /\ in[c][i].n <= nsent[c]
      BY <1>2, <1>3, <2>1, NumbersAre DEF Waiting
    <3> QED BY <1>2, <2>1, <2>3, <3>1
  <2> QED BY <1>4, <2>2, <2>3
<1>7. \A i \in Nat : TextAt(in'[c], i) => in'[c][i].n <= nsent[c] + 1
  <2> TAKE i \in Nat
  <2>1. CASE TextAt(in[c], i) /\ in'[c][i] = in[c][i]
    <3>1. in[c][i].n \in Nat /\ in[c][i].n <= nsent[c]
      BY <1>2, <1>3, <2>1, NumbersAre DEF Waiting
    <3> QED BY <1>2, <2>1, <3>1
  <2> QED BY <1>2, <1>4, <2>1
<1>8. \A i \in Nat : TextAt(buf[c], i) =>
        buf[c][i].n <= nsent[c] + 1 /\ Later(in'[c], buf[c][i].n)
  <2> SUFFICES ASSUME NEW i \in Nat, TextAt(buf[c], i)
               PROVE  buf[c][i].n <= nsent[c] + 1 /\ Later(in'[c], buf[c][i].n)
    OBVIOUS
  <2>1. buf[c][i].n \in Nat BY <1>2, NumbersAre
  <2>2. buf[c][i].n <= nsent[c] /\ Later(in[c], buf[c][i].n)
    BY <1>3 DEF Waiting
  <2> QED BY <1>2, <1>5, <2>1, <2>2
<1>9. Waiting(c)' BY <1>2, <1>3, <1>6, <1>7, <1>8 DEF Waiting
<1>10. ASSUME NEW n \in Nat, Passed(c, n) PROVE Passed(c, n)'
  BY <1>2, <1>5, <1>10 DEF Passed
<1> QED BY <1>9, <1>10

\* The two ways a message is taken: out of the buffer, or out of a recv().
Taken(c) ==
  \/ buf[c] # <<>> /\ buf'[c] = Tail(buf[c]) /\ in'[c] = in[c]
  \/ buf'[c] = Tail(in[c]) /\ in'[c] = <<>> /\ in[c] # <<>>

LEMMA TakeOrder ==
  ASSUME TypeOK, QueueInv, NEW c \in Clients, Taken(c), nsent'[c] = nsent[c]
  PROVE  Waiting(c)' /\ \A n \in Nat : Passed(c, n) => Passed(c, n)'
<1>1. in[c] \in Seq(Inputs) /\ buf[c] \in Seq(Inputs) /\ Waiting(c)
  BY DEF TypeOK, NetTypes, QueueInv
<1>2. CASE buf[c] # <<>> /\ buf'[c] = Tail(buf[c]) /\ in'[c] = in[c]
  <2>1. Waiting(c)'
    <3>1. \A i \in Nat : TextAt(buf'[c], i) =>
            buf'[c][i].n <= nsent[c] /\ Later(in[c], buf'[c][i].n)
      <4> SUFFICES ASSUME NEW i \in Nat, TextAt(Tail(buf[c]), i)
                   PROVE  /\ Tail(buf[c])[i].n <= nsent[c]
                          /\ Later(in[c], Tail(buf[c])[i].n)
        BY <1>2
      <4>3. i + 1 \in Nat OBVIOUS
      <4>1. TextAt(buf[c], i + 1) /\ Tail(buf[c])[i] = buf[c][i+1]
        BY <1>1, <1>2, TailOrder
      <4> QED BY <1>1, <4>3, <4>1 DEF Waiting
    <3>2. Rising(buf'[c]) BY <1>1, <1>2, TailOrder DEF Waiting
    <3> QED BY <1>1, <1>2, <3>1, <3>2 DEF Waiting
  <2>2. ASSUME NEW n \in Nat, Passed(c, n) PROVE Passed(c, n)'
    BY <1>1, <1>2, <2>2, TailOrder DEF Passed
  <2> QED BY <2>1, <2>2
<1>3. CASE buf'[c] = Tail(in[c]) /\ in'[c] = <<>> /\ in[c] # <<>>
  <2>1. Waiting(c)'
    <3>1. \A i \in Nat : TextAt(buf'[c], i) =>
            buf'[c][i].n <= nsent[c] /\ Later(in'[c], buf'[c][i].n)
      <4> SUFFICES ASSUME NEW i \in Nat, TextAt(Tail(in[c]), i)
                   PROVE  /\ Tail(in[c])[i].n <= nsent[c]
                          /\ Later(<<>>, Tail(in[c])[i].n)
        BY <1>3
      <4>3. i + 1 \in Nat OBVIOUS
      <4>1. TextAt(in[c], i + 1) /\ Tail(in[c])[i] = in[c][i+1]
        BY <1>1, <1>3, TailOrder
      <4>2. in[c][i+1].n \in Nat BY <1>1, <4>3, <4>1, NumbersAre
      <4> QED BY <1>1, <4>3, <4>1, <4>2, EmptyOrder DEF Waiting
    <3>2. Rising(buf'[c]) /\ Rising(in'[c])
      BY <1>1, <1>3, TailOrder, EmptyOrder DEF Waiting
    <3>3. \A i \in Nat : ~TextAt(in'[c], i) BY <1>3 DEF TextAt
    <3> QED BY <3>1, <3>2, <3>3 DEF Waiting
  <2>2. ASSUME NEW n \in Nat, Passed(c, n) PROVE Passed(c, n)'
    BY <1>1, <1>3, <2>2, TailOrder, EmptyOrder DEF Passed
  <2> QED BY <2>1, <2>2
<1> QED BY <1>2, <1>3 DEF Taken

\* What is taken comes after all that was recorded and before all that waits.
LEMMA HeadOrder ==
  ASSUME TypeOK, QueueInv, NEW c \in Clients, Take(c), nsent'[c] = nsent[c],
         Head(Got(c)).type = "text", NEW h, h = Head(Got(c)).n
  PROVE  Passed(c, h)' /\ h \in Nat /\ \A n \in Nat : Passed(c, n) => n < h
<1>1. in[c] \in Seq(Inputs) /\ buf[c] \in Seq(Inputs) /\ Waiting(c) /\ 1 \in Nat
  BY DEF TypeOK, NetTypes, QueueInv
<1>2. CASE buf[c] # <<>>
  <2>1. /\ Got(c) = buf[c] /\ buf'[c] = Tail(buf[c]) /\ in'[c] = in[c]
        /\ TextAt(buf[c], 1) /\ h = buf[c][1].n
    BY <1>1, <1>2 DEF Take, Got, TypeOK, NetTypes, TextAt
  <2>2. h \in Nat BY <1>1, <2>1, NumbersAre
  <2>3. h <= nsent[c] /\ Later(in[c], h) BY <1>1, <2>1 DEF Waiting
  <2>4. Later(Tail(buf[c]), h)
    <3> SUFFICES ASSUME NEW i \in Nat, TextAt(Tail(buf[c]), i)
                 PROVE  h < Tail(buf[c])[i].n
      BY DEF Later
    <3>1. TextAt(buf[c], i + 1) /\ Tail(buf[c])[i] = buf[c][i+1]
      BY <1>1, <1>2, TailOrder
    <3>2. i + 1 \in Nat /\ (1 < i + 1 \/ i = 0) BY <1>1
    <3>3. i # 0 BY DEF TextAt
    <3> QED BY <1>1, <2>1, <3>1, <3>2, <3>3 DEF Waiting, Rising
  <2>5. ASSUME NEW n \in Nat, Passed(c, n) PROVE n < h
    BY <1>1, <2>1, <2>5 DEF Passed, Later
  <2> QED BY <2>1, <2>2, <2>3, <2>4, <2>5 DEF Passed
<1>3. CASE buf[c] = <<>>
  <2>1. /\ Got(c) = in[c] /\ buf'[c] = Tail(in[c]) /\ in'[c] = <<>> /\ in[c] # <<>>
        /\ TextAt(in[c], 1) /\ h = in[c][1].n
    BY <1>1, <1>3 DEF Take, Got, TypeOK, NetTypes, TextAt
  <2>2. h \in Nat BY <1>1, <2>1, NumbersAre
  <2>3. h <= nsent[c] /\ Later(in'[c], h) BY <1>1, <2>1, <2>2, EmptyOrder DEF Waiting
  <2>4. Later(Tail(in[c]), h)
    <3> SUFFICES ASSUME NEW i \in Nat, TextAt(Tail(in[c]), i)
                 PROVE  h < Tail(in[c])[i].n
      BY DEF Later
    <3>1. TextAt(in[c], i + 1) /\ Tail(in[c])[i] = in[c][i+1]
      BY <1>1, <2>1, TailOrder
    <3>2. i + 1 \in Nat /\ (1 < i + 1 \/ i = 0) BY <1>1
    <3>3. i # 0 BY DEF TextAt
    <3> QED BY <1>1, <2>1, <3>1, <3>2, <3>3 DEF Waiting, Rising
  <2>5. ASSUME NEW n \in Nat, Passed(c, n) PROVE n < h
    BY <1>1, <2>1, <2>5 DEF Passed, Later
  <2> QED BY <2>1, <2>2, <2>3, <2>4, <2>5 DEF Passed
<1> QED BY <1>2, <1>3

LEMMA RecordedNumber ==
  ASSUME TypeOK, NEW i \in 1 .. Len(backlog_)
  PROVE  backlog_[i].n \in Nat
<1>1. backlog_[i] \in Texts BY DEF TypeOK, TextTypes
<1> QED BY <1>1, ParameterAssumption DEF Texts

\* A step that takes nothing new into the hands of c and records nothing.
LEMMA RecordingStays ==
  ASSUME TypeOK, QueueInv, NEW c \in Clients,
         text'[c] = text[c], backlog_' = backlog_,
         \A n \in Nat : Passed(c, n) => Passed(c, n)'
  PROVE  Recording(c)'
<1>1. text[c] \in Nat /\ Recording(c)
  BY ParameterAssumption DEF TypeOK, TextTypes, QueueInv
<1>2. ASSUME NEW i \in 1 .. Len(backlog_), backlog_[i].from = c
      PROVE  Passed(c, backlog_[i].n)'
  <2>1. Passed(c, backlog_[i].n) BY <1>1, <1>2 DEF Recording
  <2>2. PICK n \in Nat : n = backlog_[i].n BY RecordedNumber
  <2> QED BY <2>1, <2>2
<1>3. Passed(c, text[c])'
  <2>1. PICK n \in Nat : n = text[c] BY <1>1
  <2> QED BY <1>1, <2>1 DEF Recording
<1> QED BY <1>1, <1>2, <1>3 DEF Recording

LEMMA ReadTextOrder ==
  ASSUME TypeOK, QueueInv, NEW c \in Clients, ReadText(c)
  PROVE  Waiting(c)' /\ Recording(c)'
<1>1. /\ Take(c) /\ Head(Got(c)).type = "text" /\ backlog_' = backlog_
      /\ text'[c] = Head(Got(c)).n /\ nsent'[c] = nsent[c] /\ Taken(c)
  BY DEF ReadText, Take, Taken, Got, dataVars, TypeOK, TextTypes, NetTypes
<1>2. Waiting(c)' /\ \A n \in Nat : Passed(c, n) => Passed(c, n)'
  BY <1>1, TakeOrder
<1>3. PICK h : h = Head(Got(c)).n OBVIOUS
<1>4. Passed(c, h)' /\ h \in Nat /\ \A n \in Nat : Passed(c, n) => n < h
  BY <1>1, <1>3, HeadOrder
<1>5. ASSUME NEW i \in 1 .. Len(backlog_), backlog_[i].from = c
      PROVE  Passed(c, backlog_[i].n)' /\ backlog_[i].n < h
  <2>1. Passed(c, backlog_[i].n) BY <1>5 DEF QueueInv, Recording
  <2>2. PICK n \in Nat : n = backlog_[i].n BY RecordedNumber
  <2> QED BY <1>1, <1>2, <1>4, <2>1, <2>2
<1> QED BY <1>1, <1>2, <1>3, <1>4, <1>5 DEF Recording

\* Nothing moves for the other clients.
LEMMA OtherOrder ==
  ASSUME TypeOK, QueueInv, NEW d \in Clients,
         buf'[d] = buf[d], in'[d] = in[d], nsent'[d] = nsent[d],
         text'[d] = text[d],
         \A i \in 1 .. Len(backlog_') :
           backlog_'[i].from = d => i \in 1 .. Len(backlog_) /\ backlog_'[i] = backlog_[i]
  PROVE  Waiting(d)' /\ Recording(d)'
<1>1. Waiting(d) /\ Recording(d) BY DEF QueueInv
<1> QED BY <1>1 DEF Waiting, Recording, Passed

LEMMA CommitOrder ==
  ASSUME TypeOK, QueueInv, NEW c \in Clients, SendCommit(c), NEW d \in Clients
  PROVE  Waiting(d)' /\ Recording(d)'
<1>1. /\ backlog_ \in Seq(Texts) /\ backlog_' = Append(backlog_, ServerText(c))
      /\ UNCHANGED <<buf, in, nsent>> /\ text' = [text EXCEPT ![c] = 0]
      /\ text \in [Clients -> 0 .. MaxSend]
  BY DEF SendCommit, Recorded, netVars, TypeOK, TextTypes
<1>2. ServerText(c).from = c /\ ServerText(c).n = text[c] BY DEF ServerText
<1>3. CASE d # c
  <2>1. text'[d] = text[d] BY <1>1, <1>3
  <2>2. ASSUME NEW i \in 1 .. Len(backlog_'), backlog_'[i].from = d
        PROVE  i \in 1 .. Len(backlog_) /\ backlog_'[i] = backlog_[i]
    BY <1>1, <1>2, <1>3, <2>2
  <2> QED BY <1>1, <2>1, <2>2, OtherOrder
<1>4. CASE d = c
  <2>1. Waiting(c) /\ Recording(c) BY DEF QueueInv
  <2>2. text'[c] = 0 BY <1>1
  <2>3. ASSUME NEW i \in 1 .. Len(backlog_'), backlog_'[i].from = c
        PROVE  Passed(c, backlog_'[i].n)
    <3>1. \/ i \in 1 .. Len(backlog_) /\ backlog_'[i] = backlog_[i]
          \/ backlog_'[i] = ServerText(c)
      BY <1>1
    <3> QED BY <1>2, <2>1, <2>3, <3>1 DEF Recording
  <2>4. Passed(c, 0)
    <3>1. /\ text[c] \in Nat /\ nsent[c] \in Nat
          /\ buf[c] \in Seq(Inputs) /\ in[c] \in Seq(Inputs)
      BY ParameterAssumption DEF TypeOK, TextTypes, NetTypes
    <3>2. ASSUME NEW s \in Seq(Inputs), Later(s, text[c]) PROVE Later(s, 0)
      BY <3>1, <3>2, NumbersAre DEF Later
    <3> QED BY <2>1, <3>1, <3>2 DEF Recording, Passed
  <2> QED BY <1>1, <1>4, <2>1, <2>2, <2>3, <2>4 DEF Waiting, Recording, Passed
<1> QED BY <1>3, <1>4

LEMMA QueueStep == TypeOK /\ QueueInv /\ [Next]_vars => QueueInv'
<1> SUFFICES ASSUME TypeOK, QueueInv, [Next]_vars, NEW d \in Clients
             PROVE  Waiting(d)' /\ Recording(d)'
  BY DEF QueueInv
<1>1. CASE UNCHANGED <<buf, in, nsent, text, backlog_>>
  BY <1>1, OtherOrder
<1>2. ASSUME NEW c \in Clients,
             PeerSend(c) \/ AuthRecv(c) \/ ReadText(c) \/ ReadOther(c)
      PROVE  Waiting(d)' /\ Recording(d)'
  <2>1. /\ backlog_' = backlog_
        /\ d # c => /\ buf'[d] = buf[d] /\ in'[d] = in[d]
                    /\ nsent'[d] = nsent[d] /\ text'[d] = text[d]
    BY <1>2 DEF PeerSend, AuthRecv, ReadText, ReadOther, Take, dataVars, localVars,
       TypeOK, NetTypes, TextTypes
  <2>2. CASE d # c BY <2>1, <2>2, OtherOrder
  <2>3. CASE d = c /\ PeerSend(c)
    <3>1. text'[c] = text[c] BY <2>3 DEF PeerSend, localVars
    <3> QED BY <2>1, <2>3, <3>1, SendOrder, RecordingStays
  <2>4. CASE d = c /\ (AuthRecv(c) \/ ReadOther(c))
    <3>1. text'[c] = text[c] /\ nsent'[c] = nsent[c] /\ Taken(c)
      BY <2>4 DEF AuthRecv, ReadOther, Take, Taken, Got, localVars, TypeOK, NetTypes
    <3> QED BY <2>1, <2>4, <3>1, TakeOrder, RecordingStays
  <2>5. CASE d = c /\ ReadText(c) BY <2>5, ReadTextOrder
  <2> QED BY <1>2, <2>2, <2>3, <2>4, <2>5
<1> QED BY <1>1, <1>2, CommitOrder, QueueFrame

LEMMA InitQueue == Init => QueueInv
<1> SUFFICES ASSUME Init, NEW c \in Clients PROVE Waiting(c) /\ Recording(c)
  BY DEF QueueInv
<1>1. /\ buf[c] = <<>> /\ in[c] = <<>> /\ nsent[c] = 0 /\ text[c] = 0
      /\ \A i \in 1 .. Len(backlog_) : backlog_[i].from # c
  BY PastAssumption, ThreadsAssumption DEF Init
<1>2. \A i \in Nat : ~TextAt(<<>>, i) BY DEF TextAt
<1> QED BY <1>1, <1>2, EmptyOrder DEF Waiting, Recording, Passed

\* A step appends to the backlog at most the text in the hands of one thread,
\* and it comes after all the texts of the same author.
LEMMA OrderStep ==
  TypeOK /\ QueueInv /\ AuthorOrder /\ [Next]_vars => AuthorOrder'
<1> SUFFICES ASSUME TypeOK, QueueInv, AuthorOrder, [Next]_vars
             PROVE  AuthorOrder'
  OBVIOUS
<1>1. CASE backlog_' = backlog_ BY <1>1 DEF AuthorOrder
<1>2. ASSUME NEW c \in Clients, SendCommit(c) PROVE AuthorOrder'
  <2>1. /\ backlog_ \in Seq(Texts) /\ backlog_' = Append(backlog_, ServerText(c))
        /\ text[c] # 0 /\ Recording(c)
    BY <1>2 DEF SendCommit, Recorded, At, TypeOK, TextTypes, LocalsRead, QueueInv
  <2>2. ServerText(c).from = c /\ ServerText(c).n = text[c] BY DEF ServerText
  <2>3. ASSUME NEW i \in 1 .. Len(backlog_'), NEW j \in 1 .. Len(backlog_'), i < j,
               backlog_'[i].from = backlog_'[j].from, backlog_'[i].from # "past"
        PROVE  backlog_'[i].n < backlog_'[j].n
    <3>1. i \in 1 .. Len(backlog_) /\ backlog_'[i] = backlog_[i]
      BY <2>1, <2>3
    <3>2. CASE j \in 1 .. Len(backlog_)
      <4>1. backlog_'[j] = backlog_[j] BY <2>1, <3>2
      <4> QED BY <2>3, <3>1, <3>2, <4>1 DEF AuthorOrder
    <3>3. CASE j = Len(backlog_) + 1
      <4>1. backlog_'[j] = ServerText(c) BY <2>1, <3>3
      <4> QED BY <2>1, <2>2, <2>3, <3>1, <4>1 DEF Recording
    <3> QED BY <2>1, <3>2, <3>3
  <2> QED BY <2>3 DEF AuthorOrder
<1>3. ASSUME NEW c \in Clients,
             PeerSend(c) \/ AuthRecv(c) \/ ReadText(c) \/ ReadOther(c)
      PROVE  backlog_' = backlog_
  BY <1>3 DEF PeerSend, AuthRecv, ReadText, ReadOther, dataVars
<1> QED BY <1>1, <1>2, <1>3, QueueFrame

\* The texts of one author are recorded once each and in the order in which
\* they were sent.
THEOREM AuthorsInOrder == Spec => []AuthorOrder
<1>1. Init => TypeOK /\ QueueInv /\ AuthorOrder
  BY InitType, InitQueue, PastAssumption DEF Init, AuthorOrder
<1>2. TypeOK /\ QueueInv /\ AuthorOrder /\ [Next]_vars
        => (TypeOK /\ QueueInv /\ AuthorOrder)'
  BY TypeStep, QueueStep, OrderStep
<1> QED BY <1>1, <1>2, PTL DEF Spec
=============================================================================
