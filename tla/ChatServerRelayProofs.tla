------------------------ MODULE ChatServerRelayProofs ------------------------
(***************************************************************************)
(* Theorems about the relay of the server: what a client inside is given   *)
(* live, what is replayed to a new one, and that the server implements     *)
(* ChatRoom.                                                               *)
(***************************************************************************)
EXTENDS ChatServerRoom, ChatServerProofs, SequenceLemmas

\* What may be in out and in queue_.
Items == Entries \cup Replies

(***************************************************************************)
(* TextsOf, by induction on the length of the sequence.                    *)
(***************************************************************************)

IsUpto(f, kind, s) ==
  f = [i \in 0 .. Len(s) |->
        IF i = 0 THEN <<>>
        ELSE IF s[i].kind = kind THEN Append(f[i-1], s[i].text)
        ELSE f[i-1]]
UptoFor(kind, s) == CHOOSE f : IsUpto(f, kind, s)

LEMMA TextsOfUpto == ASSUME NEW kind, NEW s PROVE TextsOf(kind, s) = UptoFor(kind, s)[Len(s)]
BY DEF TextsOf, UptoFor, IsUpto

LEMMA UptoType ==
  ASSUME NEW kind \in {"live", "replay"}, NEW s \in Seq(Items)
  PROVE  /\ IsUpto(UptoFor(kind, s), kind, s)
         /\ UptoFor(kind, s) \in [0 .. Len(s) -> Seq(Texts)]
<1> DEFINE V == Seq(Texts)
           step == [i \in 1 .. Len(s) |-> [v \in V |->
                     IF s[i].kind = kind THEN Append(v, s[i].text) ELSE v]]
<1>1. ASSUME NEW i \in 1 .. Len(s), s[i].kind = kind PROVE s[i].text \in Texts
  <2>1. s[i] \in Items OBVIOUS
  <2>2. s[i] \in Entries BY <1>1, <2>1 DEF Items, Replies
  <2> QED BY <2>2 DEF Entries
<1>2. step \in [1 .. Len(s) -> [V -> V]]
  <2>1. ASSUME NEW i \in 1 .. Len(s), NEW v \in V
        PROVE  (IF s[i].kind = kind THEN Append(v, s[i].text) ELSE v) \in V
    BY <1>1
  <2> HIDE DEF V
  <2> QED BY <2>1
<1>3. PICK f \in [0 .. Len(s) -> V] : Recursion(f, Len(s), <<>>, step)
  <2>1. Len(s) \in Nat /\ <<>> \in V OBVIOUS
  <2> HIDE DEF step, V
  <2> QED BY <1>2, <2>1, RecursiveFunction
<1>4. IsUpto(f, kind, s)
  <2>1. ASSUME NEW i \in 1 .. Len(s)
        PROVE  step[i][f[i-1]] = IF s[i].kind = kind THEN Append(f[i-1], s[i].text)
                                     ELSE f[i-1]
    <3>1. i - 1 \in 0 .. Len(s) OBVIOUS
    <3> HIDE DEF V
    <3>2. f[i-1] \in V BY <1>3, <3>1
    <3> QED BY <3>2
  <2> HIDE DEF step, V
  <2>2. f[0] = <<>> /\ \A i \in 1 .. Len(s) : f[i] = step[i][f[i-1]]
    BY <1>3 DEF Recursion
  <2>3. ASSUME NEW i \in 0 .. Len(s)
        PROVE  f[i] = IF i = 0 THEN <<>>
                      ELSE IF s[i].kind = kind THEN Append(f[i-1], s[i].text)
                      ELSE f[i-1]
    <3>1. i = 0 \/ i \in 1 .. Len(s) OBVIOUS
    <3> QED BY <2>1, <2>2, <3>1
  <2> QED BY <1>3, <2>3 DEF IsUpto
<1>5. IsUpto(UptoFor(kind, s), kind, s)
  BY <1>4 DEF UptoFor
<1>6. \A i \in 0 .. Len(s) : UptoFor(kind, s)[i] = f[i]
  <2>1. Len(s) \in Nat OBVIOUS
  <2>2. UptoFor(kind, s)[0] = f[0] BY <1>4, <1>5 DEF IsUpto
  <2>4. ASSUME NEW i \in 1 .. Len(s) PROVE i \in 0 .. Len(s) /\ i # 0
    OBVIOUS
  <2>3. ASSUME NEW i \in 1 .. Len(s), UptoFor(kind, s)[i-1] = f[i-1]
        PROVE  UptoFor(kind, s)[i] = f[i]
    <3>1. f[i] = IF s[i].kind = kind THEN Append(f[i-1], s[i].text) ELSE f[i-1]
      BY <1>4, <2>4 DEF IsUpto
    <3>2. UptoFor(kind, s)[i] = IF s[i].kind = kind
                                  THEN Append(UptoFor(kind, s)[i-1], s[i].text)
                                  ELSE UptoFor(kind, s)[i-1]
      BY <1>5, <2>4 DEF IsUpto
    <3> QED BY <2>3, <3>1, <3>2
  <2>5. Alike(UptoFor(kind, s), f, Len(s)) BY <2>2, <2>3 DEF Alike
  <2> QED BY <2>1, <2>5, SameRecursion
<1>7. UptoFor(kind, s) \in [0 .. Len(s) -> V]
  <2> HIDE DEF V
  <2> QED BY <1>3, <1>5, <1>6 DEF IsUpto
<1> QED BY <1>5, <1>7

LEMMA TextsOfType ==
  ASSUME NEW kind \in {"live", "replay"}, NEW s \in Seq(Items)
  PROVE  TextsOf(kind, s) \in Seq(Texts)
BY UptoType, TextsOfUpto, Len(s) \in 0 .. Len(s)

LEMMA TextsOfEmpty ==
  ASSUME NEW kind \in {"live", "replay"}
  PROVE  TextsOf(kind, <<>>) = <<>>
<1>1. IsUpto(UptoFor(kind, <<>>), kind, <<>>)
  BY UptoType, <<>> \in Seq(Items)
<1>2. UptoFor(kind, <<>>)[0] = <<>> BY <1>1 DEF IsUpto
<1> QED BY <1>2, TextsOfUpto, Len(<<>>) = 0

LEMMA TextsOfAppend ==
  ASSUME NEW kind \in {"live", "replay"}, NEW s \in Seq(Items), NEW e \in Items
  PROVE  TextsOf(kind, Append(s, e)) = IF e.kind = kind
                                         THEN Append(TextsOf(kind, s), e.text)
                                         ELSE TextsOf(kind, s)
<1> DEFINE n == Len(s)
           t == Append(s, e)
           f == UptoFor(kind, s)
           h == UptoFor(kind, t)
<1>1. /\ n \in Nat /\ t \in Seq(Items) /\ Len(t) = n + 1 /\ t[n+1] = e
      /\ \A i \in 1 .. n : t[i] = s[i]
  OBVIOUS
<1>2. IsUpto(f, kind, s) /\ IsUpto(h, kind, t) BY <1>1, UptoType
<1> HIDE DEF f, h, t
<1>3. f[0] = <<>> /\ h[0] = <<>> BY <1>1, <1>2 DEF IsUpto
<1>4. ASSUME NEW i \in 1 .. n
      PROVE  f[i] = IF s[i].kind = kind THEN Append(f[i-1], s[i].text) ELSE f[i-1]
  <2>1. i \in 0 .. n /\ i # 0 OBVIOUS
  <2> QED BY <1>2, <2>1 DEF IsUpto
<1>5. ASSUME NEW i \in 1 .. n+1
      PROVE  h[i] = IF t[i].kind = kind THEN Append(h[i-1], t[i].text) ELSE h[i-1]
  <2>1. i \in 0 .. Len(t) /\ i # 0 BY <1>1
  <2> QED BY <1>2, <2>1 DEF IsUpto
<1>6. f[n] = h[n]
  <2>1. ASSUME NEW i \in 1 .. n, f[i-1] = h[i-1] PROVE f[i] = h[i]
    <3>1. i \in 1 .. n+1 /\ t[i] = s[i] BY <1>1
    <3> QED BY <1>4, <1>5, <2>1, <3>1
  <2> HIDE DEF n
  <2>2. Alike(f, h, n) BY <1>3, <2>1 DEF Alike
  <2>4. n \in Nat BY <1>1
  <2>3. \A i \in 0 .. n : f[i] = h[i] BY ONLY <2>4, <2>2, SameRecursion
  <2> QED BY <1>1, <2>3
<1>7. h[n+1] = IF e.kind = kind THEN Append(h[n], e.text) ELSE h[n]
  <2>1. n + 1 \in 1 .. n+1 /\ (n + 1) - 1 = n BY <1>1
  <2> HIDE DEF n
  <2> QED BY <1>1, <1>5, <2>1
<1> QED BY <1>1, <1>6, <1>7, TextsOfUpto DEF f, h, t

LEMMA TextsOfConcat ==
  ASSUME NEW kind \in {"live", "replay"}, NEW s \in Seq(Items), NEW t \in Seq(Items)
  PROVE  TextsOf(kind, s \o t) = TextsOf(kind, s) \o TextsOf(kind, t)
<1> DEFINE S == {n \in Nat : \A u \in Seq(Items) : Len(u) = n =>
                   TextsOf(kind, s \o u) = TextsOf(kind, s) \o TextsOf(kind, u)}
<1>1. 0 \in S
  <2> SUFFICES ASSUME NEW u \in Seq(Items), Len(u) = 0
               PROVE  TextsOf(kind, s \o u) = TextsOf(kind, s) \o TextsOf(kind, u)
    OBVIOUS
  <2>1. u = <<>> /\ s \o u = s OBVIOUS
  <2>2. TextsOf(kind, u) = <<>> BY <2>1, TextsOfEmpty
  <2>3. TextsOf(kind, s) \in Seq(Texts) BY TextsOfType
  <2> QED BY <2>1, <2>2, <2>3
<1>2. ASSUME NEW n \in Nat, n \in S PROVE n + 1 \in S
  <2> SUFFICES ASSUME NEW u \in Seq(Items), Len(u) = n + 1
               PROVE  TextsOf(kind, s \o u) = TextsOf(kind, s) \o TextsOf(kind, u)
    OBVIOUS
  <2> DEFINE v == SubSeq(u, 1, Len(u) - 1)
             e == u[Len(u)]
  <2>1. v \in Seq(Items) /\ e \in Items /\ Len(v) = n /\ u = Append(v, e)
    <3>1. u # <<>> /\ Len(u) - 1 = n OBVIOUS
    <3> QED BY <3>1, FrontAndLast
  <2> HIDE DEF v, e
  <2>2. s \o u = Append(s \o v, e) /\ s \o v \in Seq(Items)
    BY <2>1, ConcatAppend
  <2>3. TextsOf(kind, s \o v) = TextsOf(kind, s) \o TextsOf(kind, v)
    BY <1>2, <2>1
  <2>4. /\ TextsOf(kind, s) \in Seq(Texts) /\ TextsOf(kind, v) \in Seq(Texts)
    BY <2>1, TextsOfType
  <2> DEFINE a == TextsOf(kind, s)
             b == TextsOf(kind, v)
             w == s \o v
  <2>7. a \in Seq(Texts) /\ b \in Seq(Texts) /\ TextsOf(kind, w) = a \o b
    BY <2>3, <2>4
  <2>8. s \o u = Append(w, e) /\ w \in Seq(Items) BY <2>2
  <2> HIDE DEF a, b, w
  <2>5. CASE e.kind = kind
    <3>1. e.text \in Texts BY <2>1, <2>5 DEF Items, Entries, Replies
    <3>2. TextsOf(kind, u) = Append(TextsOf(kind, v), e.text)
      BY <2>1, <2>5, TextsOfAppend
    <3>3. TextsOf(kind, s \o u) = Append(TextsOf(kind, w), e.text)
      BY <2>1, <2>5, <2>8, TextsOfAppend
    <3>4. a \o Append(b, e.text) = Append(a \o b, e.text)
      BY <2>7, <3>1, ConcatAppend
    <3> QED BY <2>7, <3>2, <3>3, <3>4 DEF a, b
  <2>6. CASE e.kind # kind
    <3>1. TextsOf(kind, u) = TextsOf(kind, v) BY <2>1, <2>6, TextsOfAppend
    <3>2. TextsOf(kind, s \o u) = TextsOf(kind, w)
      BY <2>1, <2>6, <2>8, TextsOfAppend
    <3> QED BY <2>7, <3>1, <3>2 DEF a, b
  <2> QED BY <2>5, <2>6
<1>3. Nat \subseteq S
  <2> HIDE DEF S
  <2> QED BY <1>1, <1>2, NatSetInduction
<1>4. Len(t) \in S BY <1>3
<1> QED BY <1>4

LEMMA TextsOfReplay ==
  ASSUME NEW s \in Seq(Texts)
  PROVE  TextsOf("live", Replay(s)) = <<>> /\ TextsOf("replay", Replay(s)) = s
<1> DEFINE Claim(u) == TextsOf("live", Replay(u)) = <<>> /\ TextsOf("replay", Replay(u)) = u
           S == {n \in Nat : \A u \in Seq(Texts) : Len(u) = n => Claim(u)}
<1>1. 0 \in S
  <2> SUFFICES ASSUME NEW u \in Seq(Texts), Len(u) = 0 PROVE Claim(u) OBVIOUS
  <2>1. u = <<>> /\ Replay(u) = <<>> BY DEF Replay
  <2> QED BY <2>1, TextsOfEmpty
<1>2. ASSUME NEW n \in Nat, n \in S PROVE n + 1 \in S
  <2> SUFFICES ASSUME NEW u \in Seq(Texts), Len(u) = n + 1 PROVE Claim(u) OBVIOUS
  <2> DEFINE v == SubSeq(u, 1, Len(u) - 1)
             t == u[Len(u)]
  <2>1. v \in Seq(Texts) /\ t \in Texts /\ Len(v) = n /\ u = Append(v, t)
    <3>1. u # <<>> /\ Len(u) - 1 = n OBVIOUS
    <3> QED BY <3>1, FrontAndLast
  <2> HIDE DEF v, t
  <2>2. Claim(v) BY <1>2, <2>1
  <2> DEFINE e == [kind |-> "replay", text |-> t]
  <2>3. /\ Replay(v) \in Seq(Items) /\ Replay(u) \in Seq(Items) /\ e \in Items
    <3>1. e \in Entries BY <2>1 DEF Entries
    <3>2. Replay(v) \in Seq(Entries) /\ Replay(u) \in Seq(Entries)
      BY <2>1, ReplayType
    <3>3. Entries \subseteq Items BY DEF Items
    <3> HIDE DEF e
    <3> QED BY <3>1, <3>2, <3>3
  <2>4. Replay(u) = Append(Replay(v), e)
    BY <2>1, <2>3 DEF Replay
  <2>5. e.kind = "replay" /\ e.text = t OBVIOUS
  <2> HIDE DEF e
  <2>6. TextsOf("live", Replay(u)) = TextsOf("live", Replay(v))
    BY <2>3, <2>4, <2>5, TextsOfAppend
  <2>7. TextsOf("replay", Replay(u)) = Append(TextsOf("replay", Replay(v)), t)
    BY <2>3, <2>4, <2>5, TextsOfAppend
  <2> QED BY <2>1, <2>2, <2>6, <2>7
<1>3. Nat \subseteq S
  <2> HIDE DEF S
  <2> QED BY <1>1, <1>2, NatSetInduction
<1>4. Len(s) \in S BY <1>3
<1> QED BY <1>4

LEMMA TextsOfHead ==
  ASSUME NEW kind \in {"live", "replay"}, NEW s \in Seq(Items), s # <<>>
  PROVE  TextsOf(kind, s) = IF Head(s).kind = kind
                              THEN <<Head(s).text>> \o TextsOf(kind, Tail(s))
                              ELSE TextsOf(kind, Tail(s))
<1> DEFINE none == <<>>
           h == Append(none, Head(s))
           u == Tail(s)
<1>1. /\ h \in Seq(Items) /\ u \in Seq(Items) /\ Head(s) \in Items
      /\ none \in Seq(Items) /\ s = h \o u
  OBVIOUS
<1>2. TextsOf(kind, none) = <<>> BY TextsOfEmpty
<1> HIDE DEF none
<1>3. TextsOf(kind, h) = IF Head(s).kind = kind
                           THEN Append(<<>>, Head(s).text) ELSE <<>>
  BY <1>1, <1>2, TextsOfAppend
<1> HIDE DEF h, u
<1>4. TextsOf(kind, s) = TextsOf(kind, h) \o TextsOf(kind, u)
  BY <1>1, TextsOfConcat
<1>5. TextsOf(kind, u) \in Seq(Texts) BY <1>1, TextsOfType
<1>6. CASE Head(s).kind = kind BY <1>3, <1>4, <1>6 DEF u
<1>7. CASE Head(s).kind # kind BY <1>3, <1>4, <1>5, <1>7 DEF u
<1> QED BY <1>6, <1>7

(***************************************************************************)
(* What a step does to the stream of each client.                          *)
(***************************************************************************)
LEMMA StreamTexts ==
  ASSUME TypeOK, NEW c \in Clients, NEW kind \in {"live", "replay"}
  PROVE  /\ out[c] \in Seq(Items) /\ queue_[c] \in Seq(Items)
         /\ TextsOf(kind, Stream(c)) = TextsOf(kind, out[c]) \o TextsOf(kind, queue_[c])
         /\ TextsOf(kind, out[c]) \in Seq(Texts)
         /\ TextsOf(kind, queue_[c]) \in Seq(Texts)
         /\ TextsOf(kind, Stream(c)) \in Seq(Texts)
<1>1. out[c] \in Seq(Items) /\ queue_[c] \in Seq(Entries)
  BY DEF TypeOK, TextTypes, NetTypes, Items
<1>2. queue_[c] \in Seq(Items)
  <2>1. Entries \subseteq Items BY DEF Items
  <2> QED BY <1>1, <2>1
<1>3. TextsOf(kind, Stream(c)) = TextsOf(kind, out[c]) \o TextsOf(kind, queue_[c])
  BY <1>1, <1>2, TextsOfConcat DEF Stream
<1>4. TextsOf(kind, out[c]) \in Seq(Texts) /\ TextsOf(kind, queue_[c]) \in Seq(Texts)
  BY <1>1, <1>2, TextsOfType
<1> QED BY <1>1, <1>2, <1>3, <1>4

\* An answer is no text.
LEMMA StatusIsNoText ==
  ASSUME TypeOK, NEW c \in Clients, NEW kind \in {"live", "replay"},
         NEW code \in {"ok", "not_ok", "not_auth"}
  PROVE  TextsOf(kind, Append(out[c], Status(code))) = TextsOf(kind, out[c])
<1>1. Status(code) \in Items /\ Status(code).kind # kind
  BY DEF Items, Replies, Status
<1>2. out[c] \in Seq(Items) BY StreamTexts
<1> QED BY <1>1, <1>2, TextsOfAppend

SameStreams ==
  \A d \in Clients, kind \in {"live", "replay"} :
    TextsOf(kind, Stream(d))' = TextsOf(kind, Stream(d))

LEMMA ReplyStreams ==
  ASSUME TypeOK, NEW c \in Clients, NEW code \in {"ok", "not_ok", "not_auth"},
         Sent(c, Status(code)) \/ SendError(c), UNCHANGED queue_, TypeOK'
  PROVE  SameStreams
<1> SUFFICES ASSUME NEW d \in Clients, NEW kind \in {"live", "replay"}
             PROVE  TextsOf(kind, Stream(d))' = TextsOf(kind, Stream(d))
  BY DEF SameStreams
<1>1. /\ TextsOf(kind, Stream(d)) = TextsOf(kind, out[d]) \o TextsOf(kind, queue_[d])
      /\ TextsOf(kind, Stream(d))' = TextsOf(kind, out'[d]) \o TextsOf(kind, queue_'[d])
  <2>1. TextsOf(kind, Stream(d)) = TextsOf(kind, out[d]) \o TextsOf(kind, queue_[d])
    BY StreamTexts
  <2>2. /\ out'[d] \in Seq(Items) /\ queue_'[d] \in Seq(Entries)
        /\ Entries \subseteq Items
    BY DEF TypeOK, TextTypes, NetTypes, Items
  <2>3. queue_'[d] \in Seq(Items) BY <2>2
  <2>4. TextsOf(kind, Stream(d))' = TextsOf(kind, out'[d]) \o TextsOf(kind, queue_'[d])
    BY <2>2, <2>3, TextsOfConcat DEF Stream
  <2> QED BY <2>1, <2>4
<1>2. TextsOf(kind, out'[d]) = TextsOf(kind, out[d])
  <2>1. out \in [Clients -> Seq(Entries \cup Replies)] BY DEF TypeOK, NetTypes
  <2>2. CASE d = c
    <3>1. out'[d] = out[d] \/ out'[d] = Append(out[c], Status(code))
      BY <2>1, <2>2 DEF Sent, SendError
    <3> QED BY <2>2, <3>1, StatusIsNoText
  <2>3. CASE d # c
    <3>1. out'[d] = out[d] BY <2>1, <2>3 DEF Sent, SendError
    <3> QED BY <3>1
  <2> QED BY <2>2, <2>3
<1> QED BY <1>1, <1>2

LEMMA StreamFrame ==
  ASSUME [Next]_vars
  PROVE  \/ UNCHANGED <<out, queue_>>
         \/ \E c \in Clients :
              \/ Refuse(c) \/ Reply(c) \/ ReplyError(c) \/ QueueBacklog(c)
              \/ FlushOne(c) \/ (\E d \in Clients : SendQueue(c, d))
<1> USE DEF clientVars, netVars, localVars
<1>1. CASE RegisterPush BY <1>1 DEF RegisterPush
<1>2. ASSUME NEW c \in Clients,
             \/ PeerSend(c) \/ PeerStall(c) \/ PeerClose(c) \/ PeerReset(c) \/ AuthRecv(c)
             \/ AuthNoMessage(c) \/ ReadText(c) \/ ReadOther(c) \/ ReadNothing(c)
             \/ PeekOpen(c)
      PROVE  UNCHANGED <<out, queue_>>
  BY <1>2 DEF PeerSend, PeerStall, PeerClose, PeerReset, AuthRecv, AuthNoMessage, ReadText,
       ReadOther, ReadNothing, PeekOpen
<1>3. ASSUME NEW c \in Clients,
             \/ SetAuth(c) \/ CopyBacklog(c) \/ SendCommit(c)
      PROVE  UNCHANGED <<out, queue_>>
  BY <1>3 DEF SetAuth, CopyBacklog, SendCommit
<1> QED BY <1>1, <1>2, <1>3, TextFrame, NetFrame

\* A text is taken from the queue and sent, or lost with the connection.
Dropped(c) ==
  /\ sock'[c] = "broken"
  /\ \A d \in Clients, kind \in {"live", "replay"} :
       \/ d # c /\ TextsOf(kind, Stream(d))' = TextsOf(kind, Stream(d))
       \/ d = c /\ (TextsOf(kind, Stream(d)) = <<>>
                      => TextsOf(kind, Stream(d))' = <<>>)

LEMMA FlushStreams ==
  ASSUME TypeOK, TypeOK', NEW c \in Clients, FlushOne(c)
  PROVE  SameStreams \/ Dropped(c)
<1> DEFINE q == queue_[c]
<1>1. /\ out \in [Clients -> Seq(Items)] /\ queue_ \in [Clients -> Seq(Entries)]
      /\ sock \in [Clients -> {"open", "stalled", "closed", "reset", "broken"}]
  BY DEF TypeOK, TextTypes, NetTypes, Items
<1>2. /\ q # <<>> /\ queue_' = [queue_ EXCEPT ![c] = Tail(q)]
      /\ Sent(c, Head(q)) \/ SendError(c)
  BY <1>1 DEF FlushOne
<1>3. q \in Seq(Items) /\ out[c] \in Seq(Items) BY StreamTexts
<1>4. ASSUME NEW d \in Clients, d # c PROVE Stream(d)' = Stream(d)
  BY <1>1, <1>2, <1>4 DEF Stream, Sent, SendError
<1>5. CASE Sent(c, Head(q))
  <2>1. out'[c] = Append(out[c], Head(q)) /\ queue_'[c] = Tail(q)
    BY <1>1, <1>2, <1>5 DEF Sent
  <2>2. out'[c] \o queue_'[c] = out[c] \o q BY <1>2, <1>3, <2>1, MoveHead
  <2>3. Stream(c)' = Stream(c) BY <2>2 DEF Stream
  <2> QED BY <1>4, <2>3 DEF SameStreams
<1>6. CASE SendError(c)
  <2>1. out'[c] = out[c] /\ queue_'[c] = Tail(q) /\ sock'[c] = "broken"
    BY <1>1, <1>2, <1>6 DEF SendError
  <2>2. ASSUME NEW kind \in {"live", "replay"}, TextsOf(kind, Stream(c)) = <<>>
        PROVE  TextsOf(kind, Stream(c))' = <<>>
    <3> DEFINE o == TextsOf(kind, out[c])
               a == TextsOf(kind, q)
               b == TextsOf(kind, Tail(q))
    <3>1. Tail(q) \in Seq(Items) BY <1>2, <1>3
    <3>2. TextsOf(kind, Stream(c)) = o \o a /\ o \in Seq(Texts) /\ a \in Seq(Texts)
      BY StreamTexts
    <3>3. b \in Seq(Texts) BY <3>1, TextsOfType
    <3>4. TextsOf(kind, Stream(c))' = o \o b
      <4> DEFINE u == Tail(q)
      <4>1. Stream(c)' = out[c] \o u BY <2>1 DEF Stream
      <4>2. u \in Seq(Items) BY <3>1
      <4> HIDE DEF u
      <4>3. TextsOf(kind, out[c] \o u) = o \o TextsOf(kind, u)
        BY <1>3, <4>2, TextsOfConcat
      <4> QED BY <4>1, <4>3 DEF u
    <3>5. a = b \/ a = <<Head(q).text>> \o b BY <1>2, <1>3, TextsOfHead
    <3> HIDE DEF o, a, b
    <3>6. o = <<>> /\ a = <<>> BY <2>2, <3>2
    <3>7. b = <<>> BY <3>3, <3>5, <3>6
    <3> QED BY <3>2, <3>4, <3>6, <3>7
  <2> QED BY <1>4, <2>1, <2>2 DEF Dropped
<1> QED BY <1>2, <1>5, <1>6

LEMMA StreamStep ==
  ASSUME TypeOK, TypeOK', [Next]_vars
  PROVE  \/ SameStreams
         \/ \E c \in Clients :
              \/ QueueBacklog(c) \/ (FlushOne(c) /\ Dropped(c))
              \/ \E d \in Clients : SendQueue(c, d)
<1>1. CASE UNCHANGED <<out, queue_>> BY <1>1 DEF SameStreams, Stream
<1>2. ASSUME NEW c \in Clients, Refuse(c) PROVE SameStreams
  BY <1>2, ReplyStreams DEF Refuse, clientVars
<1>3. ASSUME NEW c \in Clients, Reply(c) PROVE SameStreams
  BY <1>3, ReplyStreams DEF Reply, clientVars
<1>4. ASSUME NEW c \in Clients, ReplyError(c) PROVE SameStreams
  BY <1>4, ReplyStreams DEF ReplyError, clientVars
<1>5. ASSUME NEW c \in Clients, FlushOne(c) PROVE SameStreams \/ Dropped(c)
  BY <1>5, FlushStreams
<1> QED BY <1>1, <1>2, <1>3, <1>4, <1>5, StreamFrame

(***************************************************************************)
(* Who is inside, who sends, and what the log is, step by step.            *)
(***************************************************************************)
Members == \A c \in Clients : Membership(c)

SamePlace(d) == (Inside(d)' <=> Inside(d)) /\ (Gone(d)' <=> Gone(d))

\* What decides about places and texts: membership is kept, a thread does not
\* go back to its login, and one client at most comes in or leaves.
Moves(c) ==
  /\ \A d \in Clients : Membership(d)' /\ (pc'[d] \in Fresh => pc[d] \in Fresh)
  /\ \A d \in Clients \ {c} : SamePlace(d)
  /\ \/ SamePlace(c) /\ UNCHANGED since
     \/ ~Gone(c) /\ Gone(c)' /\ UNCHANGED since
     \/ Outside(c) /\ Inside(c)' /\ (SetAuth(c) \/ (RegisterPush /\ newClient = c))

\* A thread that goes on, or ends before its client was marked authenticated.
LEMMA GoOn ==
  ASSUME TypeOK, Members, NEW c \in Clients, NEW label \in Labels,
         pc' = [pc EXCEPT ![c] = label],
         UNCHANGED <<auth_, clients_, todo, newClient, since>>,
         pc[c] \notin {"none", "sending", "clearauth", "done"},
         label \notin {"none", "sending", "clearauth"},
         label = "done" => pc[c] \in Fresh,
         label \in Fresh => pc[c] \in Fresh,
         label \in Named \ {"setauth"} <=> pc[c] \in Named \ {"setauth"}
  PROVE  Moves(c)
<1> USE DEF TypeOK, ControlTypes, TextTypes, Members, Membership, Inside, Gone
<1>1. /\ pc'[c] = label /\ \A d \in Clients \ {c} : pc'[d] = pc[d]
      /\ pc' \in [Clients -> Labels]
  BY DEF Labels
<1>2. SenderActive' <=> SenderActive BY <1>1 DEF SenderActive
<1>3. \A d \in Clients : Membership(d)' BY <1>1, <1>2
<1>4. \A d \in Clients \ {c} : SamePlace(d) BY <1>1 DEF SamePlace
<1>5. SamePlace(c) \/ (~Gone(c) /\ Gone(c)')
  <2>1. CASE label # "done" BY <1>1, <2>1 DEF SamePlace
  <2>2. CASE label = "done" BY <1>1, <2>2 DEF SamePlace
  <2> QED BY <2>1, <2>2
<1> QED BY <1>1, <1>3, <1>4, <1>5 DEF Moves

LEMMA MoveStep ==
  ASSUME TypeOK, MutexHeld, Members, [Next]_vars, NEW one \in Clients
  PROVE  \E c \in Clients : Moves(c)
<1> USE ThreadsAssumption
    DEF TypeOK, ControlTypes, TextTypes, MutexHeld, Critical, Members, Membership,
        Moves, SamePlace, Inside, Gone, Outside, SenderActive, Named, Accepted,
        Fresh, NoOne, Main, At, Goto, mainVars, lockVars, dataVars, clientVars
<1>1. ASSUME RegisterLock PROVE Moves(one)
  BY <1>1 DEF RegisterLock, Lock
<1>2. ASSUME RegisterPush PROVE \E c \in Clients : Moves(c)
  <2>1. PICK c \in Clients : c = newClient BY <1>2 DEF RegisterPush
  <2>2. /\ clients_' = clients_ \cup {c} /\ newClient' = NoOne
        /\ NoOne \notin Clients /\ c \notin clients_
        /\ UNCHANGED <<todo, pc, auth_>> /\ (auth_[c] = FALSE => UNCHANGED since)
    BY <1>2, <2>1 DEF RegisterPush
  <2>3. SenderActive' <=> SenderActive BY <2>2
  <2>4. ASSUME NEW d \in Clients
        PROVE  Membership(d)' /\ (pc'[d] \in Fresh => pc[d] \in Fresh)
    <3>1. Membership(d) OBVIOUS
    <3> QED BY <2>1, <2>2, <2>3, <3>1
  <2>5. \A d \in Clients \ {c} : SamePlace(d) BY <2>1, <2>2
  <2>6. CASE auth_[c]
    <3>1. Outside(c) /\ Inside(c)' BY <2>1, <2>2, <2>6
    <3> HIDE DEF Membership, Inside, Outside, Gone
    <3> QED BY <1>2, <2>1, <2>4, <2>5, <3>1
  <2>7. CASE ~auth_[c]
    <3>1. UNCHANGED since BY <2>2, <2>7
    <3>2. SamePlace(c) \/ (~Gone(c) /\ Gone(c)') BY <2>1, <2>2, <2>7
    <3> HIDE DEF Membership, Inside, Outside, Gone, SamePlace
    <3> QED BY <2>4, <2>5, <3>1, <3>2
  <2> QED BY <2>6, <2>7
<1>3. ASSUME DataRace \/ UNCHANGED vars PROVE Moves(one)
  BY <1>3 DEF DataRace, vars
<1>4. ASSUME NEW c \in Clients, Accept(c) PROVE Moves(c)
  BY <1>4 DEF Accept
<1>5. ASSUME NEW c \in Clients, PeerSend(c) PROVE Moves(c)
  BY <1>5 DEF PeerSend, Peer
<1>6. ASSUME NEW c \in Clients, PeerStall(c) \/ PeerClose(c) PROVE Moves(c)
  BY <1>6 DEF PeerStall, PeerClose
<1>7. ASSUME NEW c \in Clients, PeerReset(c) PROVE Moves(c)
  BY <1>7 DEF PeerReset
<1>8. ASSUME NEW c \in Clients, AuthRecv(c) PROVE Moves(c)
  <2>1. /\ pc' = [pc EXCEPT ![c] = "lookup"] \/ pc' = [pc EXCEPT ![c] = "done"]
        /\ UNCHANGED <<auth_, clients_, todo, newClient, since>>
    BY <1>8 DEF AuthRecv, IsAuth
  <2> QED BY <1>8, <2>1, GoOn DEF AuthRecv, Labels
<1>9. ASSUME NEW c \in Clients, AuthNoMessage(c) PROVE Moves(c)
  BY <1>9 DEF AuthNoMessage, NoMessage, ErrorReported
<1>10. ASSUME NEW c \in Clients, Lookup(c) PROVE Moves(c)
  <2>1. /\ \/ pc' = [pc EXCEPT ![c] = "adduser"] \/ pc' = [pc EXCEPT ![c] = "scan"]
           \/ pc' = [pc EXCEPT ![c] = "refuse"]
        /\ UNCHANGED <<auth_, clients_, todo, newClient, since>>
    BY <1>10 DEF Lookup
  <2> QED BY <1>10, <2>1, GoOn DEF Lookup, Labels
<1>11. ASSUME NEW c \in Clients, Scan(c) PROVE Moves(c)
  <2>1. /\ pc' = [pc EXCEPT ![c] = "refuse"] \/ pc' = [pc EXCEPT ![c] = "reply"]
        /\ UNCHANGED <<auth_, clients_, todo, newClient, since>>
    BY <1>11 DEF Scan
  <2> QED BY <1>11, <2>1, GoOn DEF Scan, Labels
<1>12. ASSUME NEW c \in Clients, AddUser(c) PROVE Moves(c)
  <2>1. /\ pc' = [pc EXCEPT ![c] = "refuse"] \/ pc' = [pc EXCEPT ![c] = "pushuser"]
        /\ UNCHANGED <<auth_, clients_, todo, newClient, since>>
    BY <1>12 DEF AddUser
  <2> QED BY <1>12, <2>1, GoOn DEF AddUser, Labels
<1>13. ASSUME NEW c \in Clients, PushUser(c) PROVE Moves(c)
  BY <1>13 DEF PushUser
<1>14. ASSUME NEW c \in Clients, Refuse(c) PROVE Moves(c)
  BY <1>14 DEF Refuse, Refused, Sent, SendError
<1>15. ASSUME NEW c \in Clients, Reply(c) PROVE Moves(c)
  <2>1. /\ pc' = [pc EXCEPT ![c] = "setname"] \/ pc' = [pc EXCEPT ![c] = "done"]
        /\ UNCHANGED <<auth_, clients_, todo, newClient, since>>
    BY <1>15 DEF Reply, Sent, SendError
  <2> QED BY <1>15, <2>1, GoOn DEF Reply, Labels
<1>16. ASSUME NEW c \in Clients, SetName(c) PROVE Moves(c)
  BY <1>16 DEF SetName
<1>17. ASSUME NEW c \in Clients, SetAuth(c) PROVE Moves(c)
  <2>1. /\ pc[c] = "setauth" /\ pc'[c] = "copy" /\ auth_'[c] = TRUE
        /\ \A d \in Clients \ {c} : pc'[d] = pc[d] /\ auth_'[d] = auth_[d]
        /\ UNCHANGED <<clients_, todo, newClient>>
        /\ c \notin clients_ => UNCHANGED since
    BY <1>17 DEF SetAuth
  <2>2. SenderActive' <=> SenderActive BY <2>1
  <2>3. ASSUME NEW d \in Clients
        PROVE  Membership(d)' /\ (pc'[d] \in Fresh => pc[d] \in Fresh)
    <3>1. Membership(d) OBVIOUS
    <3> QED BY <2>1, <2>2, <3>1
  <2>4. \A d \in Clients \ {c} : SamePlace(d) BY <2>1
  <2>5. CASE c \in clients_
    <3>1. Outside(c) /\ Inside(c)' BY <2>1, <2>5
    <3> HIDE DEF Membership, Inside, Outside, Gone
    <3> QED BY <1>17, <2>3, <2>4, <3>1
  <2>6. CASE c \notin clients_ BY <2>1, <2>3, <2>4, <2>6
  <2> QED BY <2>5, <2>6
<1>18. ASSUME NEW c \in Clients, CopyBacklog(c) PROVE Moves(c)
  BY <1>18 DEF CopyBacklog
<1>19. ASSUME NEW c \in Clients, QueueBacklog(c) PROVE Moves(c)
  BY <1>19 DEF QueueBacklog
<1>20. ASSUME NEW c \in Clients, FlushOne(c) PROVE Moves(c)
  <2>1. CASE UNCHANGED pc BY <1>20, <2>1 DEF FlushOne
  <2>2. CASE pc' # pc
    <3>1. /\ pc' = [pc EXCEPT ![c] = "unreg"] \/ pc' = [pc EXCEPT ![c] = "flush"]
          /\ UNCHANGED <<auth_, clients_, todo, newClient, since>>
      BY <1>20, <2>2 DEF FlushOne
    <3> QED BY <1>20, <3>1, GoOn DEF FlushOne, Labels
  <2> QED BY <2>1, <2>2
<1>21. ASSUME NEW c \in Clients, FlushDone(c) PROVE Moves(c)
  BY <1>21 DEF FlushDone
<1>22. ASSUME NEW c \in Clients, ReadText(c) PROVE Moves(c)
  BY <1>22 DEF ReadText, Take, Got
<1>23. ASSUME NEW c \in Clients, ReadOther(c) PROVE Moves(c)
  BY <1>23 DEF ReadOther, Take, Got
<1>24. ASSUME NEW c \in Clients, ReadNothing(c) PROVE Moves(c)
  BY <1>24 DEF ReadNothing, ErrorReported
<1>25. ASSUME NEW c \in Clients, ReplyError(c) PROVE Moves(c)
  BY <1>25 DEF ReplyError, Sent, SendError
<1>26. ASSUME NEW c \in Clients, SendLock(c) PROVE Moves(c)
  BY <1>26 DEF SendLock, Lock, MutexFree
<1>27. ASSUME NEW c \in Clients, SendCommit(c) PROVE Moves(c)
  BY <1>27 DEF SendCommit, Unlock
<1>28. ASSUME NEW c \in Clients, PeekClosed(c) PROVE Moves(c)
  BY <1>28 DEF PeekClosed
<1>29. ASSUME NEW c \in Clients, PeekOpen(c) PROVE Moves(c)
  BY <1>29 DEF PeekOpen, ErrorReported
<1>30. ASSUME NEW c \in Clients, UnregLock(c) PROVE Moves(c)
  BY <1>30 DEF UnregLock, Lock, MutexFree
<1>31. ASSUME NEW c \in Clients, Erase(c) PROVE Moves(c)
  BY <1>31 DEF Erase, Unlock
<1>32. ASSUME NEW c \in Clients, ClearAuth(c) PROVE Moves(c)
  BY <1>32 DEF ClearAuth
<1>33. ASSUME NEW c \in Clients, SigPipe(c) PROVE Moves(c)
  BY <1>33 DEF SigPipe
<1>34. ASSUME NEW c \in Clients, NEW d \in Clients, SendQueue(c, d) PROVE Moves(c)
  BY <1>34 DEF SendQueue, Queued, Hears
<1> HIDE DEF TypeOK, MutexHeld, Members, Membership, Moves
<1> QED
  BY <1>1, <1>2, <1>3, <1>4, <1>5, <1>6, <1>7, <1>8, <1>9,
     <1>10, <1>11, <1>12, <1>13, <1>14, <1>15, <1>16, <1>17, <1>18,
     <1>19, <1>20, <1>21, <1>22, <1>23, <1>24, <1>25, <1>26, <1>27,
     <1>28, <1>29, <1>30, <1>31, <1>32, <1>33, <1>34, NextCases

\* One thread sends at a time: the one that holds the mutex.
LEMMA OneSender ==
  ASSUME MutexHeld, NEW s \in Clients, pc[s] = "sending"
  PROVE  /\ \A t \in Clients : pc[t] \in Critical => t = s
         /\ pcMain # "push"
         /\ PostedLog = Append(backlog_, ServerText(s))
         /\ \A d \in Clients : LogFor(d) = IF d \in todo THEN backlog_ ELSE PostedLog
<1>1. \A t \in Clients : pc[t] \in Critical => t = s BY DEF MutexHeld, Critical
<1>2. pcMain # "push" BY ThreadsAssumption DEF MutexHeld, Critical, Main
<1>3. (CHOOSE t \in Clients : pc[t] = "sending") = s BY <1>1 DEF Critical
<1> QED BY <1>1, <1>2, <1>3 DEF PostedLog, LogFor

LEMMA NoSender ==
  ASSUME \A t \in Clients : pc[t] # "sending"
  PROVE  PostedLog = backlog_ /\ \A d \in Clients : LogFor(d) = backlog_
BY DEF PostedLog, LogFor

\* What an operation of the relay does to the text under way.
SameLog ==
  /\ UNCHANGED <<backlog_, todo>>
  /\ \A t \in Clients : /\ pc'[t] = "sending" <=> pc[t] = "sending"
                        /\ pc[t] = "sending" => ServerText(t)' = ServerText(t)

LEMMA SameLogs ==
  ASSUME MutexHeld, MutexHeld', SameLog
  PROVE  PostedLog' = PostedLog /\ \A d \in Clients : LogFor(d)' = LogFor(d)
<1>1. CASE \A t \in Clients : pc[t] # "sending"
  BY <1>1, NoSender DEF SameLog, PostedLog, LogFor
<1>2. ASSUME NEW s \in Clients, pc[s] = "sending"
      PROVE  PostedLog' = PostedLog /\ \A d \in Clients : LogFor(d)' = LogFor(d)
  <2>1. /\ PostedLog = Append(backlog_, ServerText(s))
        /\ \A d \in Clients : LogFor(d) = IF d \in todo THEN backlog_ ELSE PostedLog
    BY <1>2, OneSender
  <2>2. pc'[s] = "sending" /\ ServerText(s)' = ServerText(s)
        /\ UNCHANGED <<backlog_, todo>>
    BY <1>2 DEF SameLog
  <2>3. /\ PostedLog' = Append(backlog_', ServerText(s)')
        /\ \A d \in Clients : LogFor(d)' = IF d \in todo' THEN backlog_' ELSE PostedLog'
    <3>1. /\ \A t \in Clients : pc'[t] \in Critical => t = s
      BY <2>2 DEF MutexHeld, Critical
    <3>2. (CHOOSE t \in Clients : pc'[t] = "sending") = s
      BY <2>2, <3>1 DEF Critical
    <3> QED BY <2>2, <3>2 DEF PostedLog, LogFor
  <2> QED BY <2>1, <2>2, <2>3
<1> QED BY <1>1, <1>2

LEMMA LogStep ==
  ASSUME TypeOK, [Next]_vars
  PROVE  SameLog \/ \E c \in Clients : \/ SendLock(c) \/ SendCommit(c)
                                     \/ \E d \in Clients : SendQueue(c, d)
<1> USE DEF TypeOK, ControlTypes, AccountTypes, TextTypes, SameLog, ServerText, At,
            Goto, mainVars, lockVars, dataVars, clientVars, localVars
<1>1. CASE RegisterLock \/ RegisterPush \/ DataRace \/ UNCHANGED vars
  BY <1>1 DEF RegisterLock, RegisterPush, DataRace, vars
<1>2. ASSUME NEW c \in Clients,
             \/ Accept(c) \/ PeerSend(c) \/ PeerStall(c) \/ PeerClose(c)
             \/ PeerReset(c) \/ AuthRecv(c) \/ AuthNoMessage(c)
      PROVE  SameLog
  BY <1>2 DEF Accept, PeerSend, Peer, PeerStall, PeerClose, PeerReset, AuthRecv,
     IsAuth, AuthNoMessage, NoMessage, ErrorReported
<1>3. ASSUME NEW c \in Clients,
             \/ Lookup(c) \/ Scan(c) \/ AddUser(c) \/ PushUser(c) \/ Refuse(c) \/ Reply(c)
      PROVE  SameLog
  BY <1>3 DEF Lookup, Scan, AddUser, PushUser, Refuse, Refused, Sent, SendError, Reply
<1>4. ASSUME NEW c \in Clients,
             \/ SetName(c) \/ SetAuth(c) \/ CopyBacklog(c) \/ QueueBacklog(c) \/ FlushOne(c) \/ FlushDone(c)
      PROVE  SameLog
  BY <1>4 DEF SetName, SetAuth, CopyBacklog, QueueBacklog, FlushOne, Sent, SendError, FlushDone
<1>5. ASSUME NEW c \in Clients,
             \/ ReadText(c) \/ ReadOther(c) \/ ReadNothing(c) \/ ReplyError(c) \/ PeekClosed(c) \/ PeekOpen(c)
      PROVE  SameLog
  BY <1>5 DEF ReadText, Take, Got, ReadOther, ReadNothing, ErrorReported, ReplyError, Sent, SendError, PeekClosed, PeekOpen
<1>6. ASSUME NEW c \in Clients,
             \/ UnregLock(c) \/ Erase(c) \/ ClearAuth(c) \/ SigPipe(c)
      PROVE  SameLog
  BY <1>6 DEF UnregLock, Lock, MutexFree, Erase, Unlock, ClearAuth, SigPipe
<1> HIDE DEF SameLog
<1> QED BY <1>1, <1>2, <1>3, <1>4, <1>5, <1>6, NextCases

\* sendText puts a text behind everything a listening client has to be sent.
LEMMA SendStreams ==
  ASSUME TypeOK, NEW c \in Clients, NEW e \in Clients, SendQueue(c, e)
  PROVE  /\ \A d \in Clients \ {e} : Stream(d)' = Stream(d)
         /\ TextsOf("replay", Stream(e))' = TextsOf("replay", Stream(e))
         /\ TextsOf("live", Stream(e))' =
              IF auth_[e] THEN Append(TextsOf("live", Stream(e)), ServerText(c))
              ELSE TextsOf("live", Stream(e))
<1> DEFINE item == [kind |-> "live", text |-> ServerText(c)]
<1>1. queue_ \in [Clients -> Seq(Entries)] /\ UNCHANGED out
  BY DEF SendQueue, TypeOK, TextTypes, netVars
<1>2. item \in Items /\ item.kind = "live" /\ item.text = ServerText(c)
  <2>1. ServerText(c) \in Texts BY ServerTextType DEF SendQueue, At
  <2> QED BY <2>1 DEF Items, Entries
<1>3. queue_' = IF auth_[e] THEN [queue_ EXCEPT ![e] = Append(queue_[e], item)]
                ELSE queue_
  BY <1>1 DEF SendQueue, Queued, Hears
<1> HIDE DEF item
<1>4. \A d \in Clients \ {e} : Stream(d)' = Stream(d) BY <1>1, <1>3 DEF Stream
<1>5. CASE ~auth_[e]
  <2>1. Stream(e)' = Stream(e) BY <1>1, <1>3, <1>5 DEF Stream
  <2> QED BY <1>4, <1>5, <2>1
<1>6. CASE auth_[e]
  <2>1. out[e] \in Seq(Items) /\ queue_[e] \in Seq(Items) BY StreamTexts
  <2>2. Stream(e)' = Append(Stream(e), item)
    <3>1. queue_'[e] = Append(queue_[e], item) BY <1>1, <1>3, <1>6
    <3>2. out[e] \o Append(queue_[e], item) = Append(out[e] \o queue_[e], item)
      <4> DEFINE o == out[e]
                 q == queue_[e]
      <4>1. o \in Seq(Items) /\ q \in Seq(Items) BY <2>1
      <4> HIDE DEF o, q
      <4>2. o \o Append(q, item) = Append(o \o q, item) BY <1>2, <4>1, ConcatAppend
      <4> QED BY <4>2 DEF o, q
    <3> QED BY <1>1, <3>1, <3>2 DEF Stream
  <2>3. Stream(e) \in Seq(Items) BY <2>1 DEF Stream
  <2>4. TextsOf("replay", Stream(e))' = TextsOf("replay", Stream(e))
    BY <1>2, <2>2, <2>3, TextsOfAppend
  <2>5. TextsOf("live", Stream(e))' = Append(TextsOf("live", Stream(e)), ServerText(c))
    BY <1>2, <2>2, <2>3, TextsOfAppend
  <2> QED BY <1>4, <1>6, <2>4, <2>5
<1> QED BY <1>5, <1>6

\* getBacklog puts its copy behind them, and nothing live.
LEMMA BacklogStreams ==
  ASSUME TypeOK, NEW c \in Clients, QueueBacklog(c)
  PROVE  /\ \A d \in Clients \ {c} : Stream(d)' = Stream(d)
         /\ TextsOf("live", Stream(c))' = TextsOf("live", Stream(c))
         /\ TextsOf("replay", Stream(c))' = TextsOf("replay", Stream(c)) \o snapshot[c]
<1> DEFINE r == Replay(snapshot[c])
<1>1. /\ queue_ \in [Clients -> Seq(Entries)] /\ UNCHANGED out
      /\ snapshot[c] \in Seq(Texts)
  BY DEF QueueBacklog, TypeOK, TextTypes, netVars
<1>2. queue_' = [queue_ EXCEPT ![c] = queue_[c] \o r]
  BY <1>1 DEF QueueBacklog
<1>3. r \in Seq(Items)
  <2>1. r \in Seq(Entries) BY <1>1, ReplayType
  <2>2. Entries \subseteq Items BY DEF Items
  <2> HIDE DEF r
  <2> QED BY <2>1, <2>2
<1>4. TextsOf("live", r) = <<>> /\ TextsOf("replay", r) = snapshot[c]
  BY <1>1, TextsOfReplay
<1> HIDE DEF r
<1>5. \A d \in Clients \ {c} : Stream(d)' = Stream(d) BY <1>1, <1>2 DEF Stream
<1>6. /\ out[c] \in Seq(Items) /\ queue_[c] \in Seq(Items)
      /\ TextsOf("live", Stream(c)) \in Seq(Texts)
      /\ TextsOf("replay", Stream(c)) \in Seq(Texts)
  BY StreamTexts
<1>7. Stream(c)' = Stream(c) \o r
  <2>1. queue_'[c] = queue_[c] \o r BY <1>1, <1>2
  <2>2. out[c] \o (queue_[c] \o r) = (out[c] \o queue_[c]) \o r
    <3> DEFINE o == out[c]
               q == queue_[c]
    <3>1. o \in Seq(Items) /\ q \in Seq(Items) BY <1>6
    <3> HIDE DEF o, q
    <3>2. o \o (q \o r) = (o \o q) \o r BY <1>3, <3>1, ConcatThree
    <3> QED BY <3>2 DEF o, q
  <2> QED BY <1>1, <2>1, <2>2 DEF Stream
<1>8. Stream(c) \in Seq(Items) BY <1>6 DEF Stream
<1>9. TextsOf("live", Stream(c))' = TextsOf("live", Stream(c)) \o TextsOf("live", r)
  BY <1>3, <1>7, <1>8, TextsOfConcat
<1>10. TextsOf("replay", Stream(c))'
         = TextsOf("replay", Stream(c)) \o TextsOf("replay", r)
  BY <1>3, <1>7, <1>8, TextsOfConcat
<1>11. TextsOf("live", Stream(c)) \o <<>> = TextsOf("live", Stream(c))
  BY <1>6, ConcatEmpty
<1> QED BY <1>4, <1>5, <1>9, <1>10, <1>11

\* A broken connection stays broken.
LEMMA BrokenStays ==
  ASSUME TypeOK, [Next]_vars, NEW d \in Clients, Intact(d)'
  PROVE  Intact(d)
<1> USE DEF TypeOK, NetTypes, Intact, ErrorReported, Sent, SendError
<1>1. CASE UNCHANGED <<sock, in, buf, out, nsent>> BY <1>1
<1>2. ASSUME NEW c \in Clients,
             \/ PeerSend(c) \/ PeerClose(c) \/ AuthRecv(c) \/ AuthNoMessage(c)
             \/ Refuse(c)
      PROVE  Intact(d)
  BY <1>2 DEF PeerSend, PeerClose, AuthRecv, AuthNoMessage, Refuse
<1>4. ASSUME NEW c \in Clients, PeerStall(c) \/ PeerReset(c) PROVE Intact(d)
  <2>1. PICK s \in {"open", "stalled", "reset", "broken"} :
          sock' = [sock EXCEPT ![c] = s]
    BY <1>4 DEF PeerStall, PeerReset
  <2>2. sock[c] # "broken"
    BY <1>4 DEF PeerStall, PeerReset, Connected
  <2> QED BY <2>1, <2>2
<1>3. ASSUME NEW c \in Clients,
             \/ Reply(c) \/ FlushOne(c) \/ ReadText(c) \/ ReadOther(c)
             \/ ReadNothing(c) \/ ReplyError(c) \/ PeekOpen(c)
      PROVE  Intact(d)
  BY <1>3 DEF Reply, FlushOne, ReadText, ReadOther, ReadNothing, ReplyError,
       PeekOpen
<1> QED BY <1>1, <1>2, <1>3, <1>4, NetFrame

\* The backlog only grows.
LEMMA BacklogStep ==
  ASSUME TypeOK, [Next]_vars
  PROVE  \/ UNCHANGED backlog_
         \/ \E t \in Texts : backlog_' = Append(backlog_, t)
<1>1. CASE UNCHANGED <<backlog_, snapshot, queue_, text, since>> BY <1>1
<1>2. CASE RegisterPush BY <1>2 DEF RegisterPush
<1>3. ASSUME NEW c \in Clients,
             \/ SetAuth(c) \/ CopyBacklog(c) \/ QueueBacklog(c) \/ FlushOne(c)
             \/ ReadText(c) \/ \E d \in Clients : SendQueue(c, d)
      PROVE  UNCHANGED backlog_
  BY <1>3 DEF SetAuth, CopyBacklog, QueueBacklog, FlushOne, ReadText, SendQueue,
       dataVars
<1>4. ASSUME NEW c \in Clients, SendCommit(c)
      PROVE  \E t \in Texts : backlog_' = Append(backlog_, t)
  <2>1. ServerText(c) \in Texts BY <1>4, ServerTextType DEF SendCommit, At
  <2> QED BY <1>4, <2>1 DEF SendCommit, Recorded
<1> QED BY <1>1, <1>2, <1>3, <1>4, TextFrame

LEMMA BeginsStep ==
  ASSUME TypeOK, [Next]_vars, NEW s \in Seq(Texts), Begins(s, backlog_)
  PROVE  Begins(s, backlog_')
<1>1. CASE UNCHANGED backlog_ BY <1>1
<1>2. ASSUME NEW t \in Texts, backlog_' = Append(backlog_, t)
      PROVE  Begins(s, backlog_')
  <2>1. backlog_ \in Seq(Texts) /\ Len(s) \in Nat /\ Len(s) <= Len(backlog_)
    BY DEF TypeOK, TextTypes, Begins
  <2>2. SubSeq(Append(backlog_, t), 1, Len(s)) = SubSeq(backlog_, 1, Len(s))
    BY <2>1, PrefixAppend
  <2> QED BY <1>2, <2>1, <2>2 DEF Begins
<1> QED BY <1>1, <1>2, BacklogStep

(***************************************************************************)
(* The invariant of the relay.                                             *)
(***************************************************************************)

\* The stream of d gives d the same live texts, unless it breaks.
SameLive(d) ==
  \/ TextsOf("live", Stream(d))' = TextsOf("live", Stream(d))
  \/ /\ ~Intact(d)'
     /\ TextsOf("live", Stream(d)) = <<>> => TextsOf("live", Stream(d))' = <<>>

\* A client that comes in is served from the end of the log it will be given.
LEMMA EnterLog ==
  ASSUME TypeOK, MutexHeld, Members, NEW c \in Clients, Inside(c)',
         SetAuth(c) \/ (RegisterPush /\ newClient = c)
  PROVE  /\ since'[c] = Len(LogFor(c)) /\ LogFor(c) \in Seq(Texts)
         /\ \A d \in Clients \ {c} : since'[d] = since[d]
<1>1. backlog_ \in Seq(Texts) /\ since \in [Clients -> Nat]
  BY DEF TypeOK, TextTypes
<1>2. CASE RegisterPush /\ newClient = c
  <2>1. pcMain = "push" /\ auth_[c]
    BY <1>2 DEF RegisterPush, Inside, clientVars
  <2>2. \A t \in Clients : pc[t] # "sending"
    BY <2>1, OneSender
  <2>3. LogFor(c) = backlog_ BY <2>2, NoSender
  <2>4. since' = [since EXCEPT ![c] = Len(backlog_)]
    BY <1>2, <2>1 DEF RegisterPush
  <2> QED BY <1>1, <2>3, <2>4
<1>3. CASE SetAuth(c)
  <2>1. c \in clients_ BY <1>3 DEF SetAuth, Inside, dataVars
  <2>2. since' = [since EXCEPT ![c] = IF SenderActive /\ c \notin todo
                                         THEN Len(backlog_) + 1 ELSE Len(backlog_)]
    BY <1>3, <2>1 DEF SetAuth
  <2>3. CASE ~SenderActive
    <3>1. LogFor(c) = backlog_ BY <2>3, NoSender DEF SenderActive
    <3> QED BY <1>1, <2>2, <2>3, <3>1
  <2>4. CASE SenderActive
    <3>1. PICK s \in Clients : pc[s] = "sending" BY <2>4 DEF SenderActive
    <3>2. LogFor(c) = IF c \in todo THEN backlog_ ELSE Append(backlog_, ServerText(s))
      BY <3>1, OneSender
    <3>3. ServerText(s) \in Texts BY <3>1, ServerTextType
    <3>4. /\ Append(backlog_, ServerText(s)) \in Seq(Texts)
          /\ Len(Append(backlog_, ServerText(s))) = Len(backlog_) + 1
      BY <1>1, <3>3
    <3> QED BY <1>1, <2>2, <2>4, <3>2, <3>4
  <2> QED BY <2>3, <2>4
<1> QED BY <1>2, <1>3

LEMMA LogType ==
  ASSUME TypeOK, MutexHeld, NEW d \in Clients
  PROVE  /\ LogFor(d) \in Seq(Texts) /\ PostedLog \in Seq(Texts)
         /\ LogFor(d) \in {backlog_, PostedLog}
<1>1. backlog_ \in Seq(Texts) BY DEF TypeOK, TextTypes
<1>2. CASE \A t \in Clients : pc[t] # "sending" BY <1>1, <1>2, NoSender
<1>3. ASSUME NEW s \in Clients, pc[s] = "sending"
      PROVE  /\ LogFor(d) \in Seq(Texts) /\ PostedLog \in Seq(Texts)
             /\ LogFor(d) \in {backlog_, PostedLog}
  <2>1. ServerText(s) \in Texts BY <1>3, ServerTextType
  <2>2. Append(backlog_, ServerText(s)) \in Seq(Texts) BY <1>1, <2>1
  <2> QED BY <1>1, <1>3, <2>2, OneSender
<1> QED BY <1>2, <1>3

\* Any step that neither posts nor queues: clients come in and leave.
LEMMA LiveWhenQuiet ==
  ASSUME TypeOK, TypeOK', MutexHeld, MutexHeld', Members, [Next]_vars, SameLog,
         NEW c \in Clients, Moves(c), NEW d \in Clients, LiveOf(d), SameLive(d)
  PROVE  LiveOf(d)'
<1>1. LogFor(d)' = LogFor(d) BY SameLogs
<1>2. LogFor(d) \in Seq(Texts) BY LogType
<1>3. CASE SamePlace(d) /\ since'[d] = since[d]
  <2>1. Outside(d)' <=> Outside(d) BY <1>3 DEF SamePlace, Outside
  <2>2. Inside(d)' <=> Inside(d) BY <1>3 DEF SamePlace
  <2>3. Intact(d)' => Intact(d) BY BrokenStays
  <2> QED BY <1>1, <1>3, <2>1, <2>2, <2>3 DEF LiveOf, SameLive
<1>4. CASE Gone(d)'
  <2>1. ~Inside(d)' /\ ~Outside(d)' BY <1>4 DEF Gone, Outside
  <2> QED BY <2>1 DEF LiveOf
<1>5. CASE Outside(d) /\ Inside(d)' /\ (SetAuth(d) \/ (RegisterPush /\ newClient = d))
  <2>1. since'[d] = Len(LogFor(d)) BY <1>5, EnterLog
  <2>2. TextsOf("live", Stream(d)) = <<>> BY <1>5 DEF LiveOf
  <2>3. TextsOf("live", Stream(d))' = <<>> BY <2>2 DEF SameLive
  <2>4. ~Outside(d)' BY <1>5 DEF Outside
  <2>5. Len(LogFor(d)) \in Nat BY <1>2
  <2>6. SubSeq(LogFor(d), Len(LogFor(d)) + 1, Len(LogFor(d))) = <<>>
    BY <1>2, EmptySubSeq
  <2>7. since'[d] <= Len(LogFor(d)') BY <1>1, <2>1, <2>5
  <2>8. TextsOf("live", Stream(d))'
          = SubSeq(LogFor(d)', since'[d] + 1, Len(LogFor(d)'))
    BY <1>1, <2>1, <2>3, <2>6
  <2> QED BY <2>4, <2>7, <2>8 DEF LiveOf
<1>6. CASE d # c
  <2>1. SamePlace(d) BY <1>6 DEF Moves
  <2>2. since'[d] = since[d]
    <3>1. CASE UNCHANGED since BY <3>1
    <3>2. CASE Inside(c)' /\ (SetAuth(c) \/ (RegisterPush /\ newClient = c))
      BY <1>6, <3>2, EnterLog
    <3> QED BY <3>1, <3>2 DEF Moves
  <2> QED BY <1>3, <2>1, <2>2
<1>7. CASE d = c
  <2>1. \/ SamePlace(d) /\ UNCHANGED since
        \/ Gone(d)'
        \/ Outside(d) /\ Inside(d)' /\ (SetAuth(d) \/ (RegisterPush /\ newClient = d))
    BY <1>7 DEF Moves
  <2> QED BY <1>3, <1>4, <1>5, <2>1
<1> QED BY <1>6, <1>7

\* The three steps of sendText.
LEMMA Senders ==
  ASSUME TypeOK, NEW c \in Clients,
         \/ SendLock(c) \/ SendCommit(c) \/ \E e \in Clients : SendQueue(c, e)
  PROVE  /\ \A d \in Clients : SamePlace(d) /\ (Outside(d)' <=> Outside(d))
         /\ UNCHANGED <<since, out, sock, clients_, auth_>>
BY DEF TypeOK, ControlTypes, SendLock, SendCommit, SendQueue, SamePlace, Inside,
       Gone, Outside, At, Goto, mainVars, dataVars, clientVars, netVars

LEMMA LiveSendLock ==
  ASSUME TypeOK, TypeOK', MutexHeld, MutexHeld', Members, NEW c \in Clients,
         SendLock(c), NEW d \in Clients, LiveOf(d)
  PROVE  LiveOf(d)'
<1>1. /\ SamePlace(d) /\ (Outside(d)' <=> Outside(d))
      /\ UNCHANGED <<since, out, sock, clients_, auth_>>
  BY Senders
<1>2. Stream(d)' = Stream(d) BY DEF SendLock, Stream, clientVars, netVars
<1>3. d \in clients_ => LogFor(d)' = LogFor(d)
  <2>1. \A t \in Clients : pc[t] # "sending"
    BY ThreadsAssumption DEF SendLock, Lock, MutexFree, MutexHeld, Critical, NoOne
  <2>2. LogFor(d) = backlog_ BY <2>1, NoSender
  <2>3. todo' = clients_ /\ UNCHANGED backlog_ BY DEF SendLock, dataVars
  <2> QED BY <2>2, <2>3 DEF LogFor
<1>4. CASE d \notin clients_
  BY <1>1, <1>2, <1>4 DEF LiveOf, Inside
<1>5. CASE d \in clients_
  BY <1>1, <1>2, <1>3, <1>5 DEF LiveOf, SamePlace, Intact
<1> QED BY <1>4, <1>5

LEMMA LiveSendCommit ==
  ASSUME TypeOK, TypeOK', MutexHeld, MutexHeld', Members, NEW c \in Clients,
         SendCommit(c), NEW d \in Clients, LiveOf(d)
  PROVE  LiveOf(d)'
<1>1. /\ SamePlace(d) /\ (Outside(d)' <=> Outside(d))
      /\ UNCHANGED <<since, out, sock, clients_, auth_>>
  BY Senders
<1>2. Stream(d)' = Stream(d) BY DEF SendCommit, Stream, clientVars, netVars
<1>3. pc[c] = "sending" /\ todo = {} BY DEF SendCommit, At
<1>4. LogFor(d) = Append(backlog_, ServerText(c)) BY <1>3, OneSender
<1>5. backlog_' = Append(backlog_, ServerText(c)) BY DEF SendCommit, Recorded
<1>6. \A t \in Clients : pc'[t] # "sending"
  <2>1. \A t \in Clients : pc[t] = "sending" => t = c
    BY <1>3, OneSender DEF Critical
  <2> QED BY <2>1 DEF SendCommit, Goto, TypeOK, ControlTypes
<1>7. LogFor(d)' = backlog_' BY <1>6 DEF LogFor
<1> QED BY <1>1, <1>2, <1>4, <1>5, <1>7 DEF LiveOf, SamePlace, Intact

LEMMA LiveSendQueue ==
  ASSUME TypeOK, TypeOK', MutexHeld, MutexHeld', Members, NEW c \in Clients,
         NEW e \in Clients, SendQueue(c, e), NEW d \in Clients, LiveOf(d)
  PROVE  LiveOf(d)'
<1> DEFINE t == ServerText(c)
<1>1. /\ SamePlace(d) /\ (Outside(d)' <=> Outside(d))
      /\ UNCHANGED <<since, out, sock, clients_, auth_>>
  BY Senders
<1>2. /\ pc[c] = "sending" /\ e \in todo /\ todo' = todo \ {e}
      /\ UNCHANGED <<pc, backlog_, text, name_>>
  BY DEF SendQueue, At, dataVars, localVars
<1>3. t' = t BY <1>2 DEF ServerText
<1>4. /\ PostedLog = Append(backlog_, t)
      /\ LogFor(d) = IF d \in todo THEN backlog_ ELSE PostedLog
  BY <1>2, OneSender
<1>5. /\ PostedLog' = PostedLog
      /\ LogFor(d)' = IF d \in todo' THEN backlog_ ELSE PostedLog
  <2>1. \A u \in Clients : pc[u] \in Critical => u = c BY <1>2, OneSender
  <2>2. (CHOOSE u \in Clients : pc[u] = "sending") = c
    BY <1>2, <2>1 DEF Critical
  <2> QED BY <1>2, <1>3, <1>4, <2>2 DEF PostedLog, LogFor
<1>6. CASE d # e
  <2>1. Stream(d)' = Stream(d) BY <1>6, SendStreams
  <2>2. LogFor(d)' = LogFor(d) BY <1>2, <1>4, <1>5, <1>6
  <2> QED BY <1>1, <2>1, <2>2 DEF LiveOf, SamePlace, Intact
<1>7. CASE d = e
  <2>1. LogFor(d) = backlog_ /\ LogFor(d)' = Append(backlog_, t)
    BY <1>2, <1>4, <1>5, <1>7
  <2>2. backlog_ \in Seq(Texts) /\ t \in Texts
    BY <1>2, ServerTextType DEF TypeOK, TextTypes
  <2>3. Len(backlog_) \in Nat /\ Len(Append(backlog_, t)) = Len(backlog_) + 1
    BY <2>2
  <2>4. CASE ~auth_[d]
    <3>1. TextsOf("live", Stream(d))' = TextsOf("live", Stream(d))
      BY <1>7, <2>4, SendStreams
    <3> QED BY <1>1, <2>4, <3>1 DEF LiveOf, Inside
  <2>5. CASE auth_[d]
    <3>1. Inside(d) /\ ~Outside(d)'
      <4>1. d \in clients_ BY <1>2, <1>7 DEF Members, Membership
      <4> QED BY <1>1, <2>5, <4>1 DEF Inside, Outside
    <3>2. TextsOf("live", Stream(d))' = Append(TextsOf("live", Stream(d)), t)
      BY <1>7, <2>5, SendStreams
    <3>3. since[d] \in Nat /\ since[d] <= Len(backlog_)
      BY <2>1, <3>1 DEF LiveOf, TypeOK, TextTypes
    <3>4. SubSeq(Append(backlog_, t), since[d] + 1, Len(backlog_) + 1)
            = Append(SubSeq(backlog_, since[d] + 1, Len(backlog_)), t)
      BY <2>2, <3>3, SubSeqAppend
    <3>5. Intact(d)' => Intact(d) BY <1>1 DEF Intact
    <3>6. Intact(d) =>
            TextsOf("live", Stream(d)) = SubSeq(backlog_, since[d] + 1, Len(backlog_))
      BY <2>1, <3>1 DEF LiveOf
    <3>7. since'[d] = since[d] /\ since[d] <= Len(backlog_) + 1
      BY <1>1, <2>3, <3>3
    <3> HIDE DEF t
    <3> QED BY <2>1, <2>3, <3>1, <3>2, <3>4, <3>5, <3>6, <3>7 DEF LiveOf
  <2> QED BY <2>4, <2>5
<1> QED BY <1>6, <1>7

LEMMA EmptyBegins ==
  ASSUME NEW t \in Seq(Texts)
  PROVE  Begins(<<>>, t)
<1>1. Len(<<>>) = 0 /\ Len(t) \in Nat /\ SubSeq(t, 1, 0) = <<>> OBVIOUS
<1> QED BY <1>1 DEF Begins

LEMMA LiveStep ==
  ASSUME TypeOK, TypeOK', MutexHeld, MutexHeld', RelayInv, [Next]_vars,
         NEW d \in Clients
  PROVE  LiveOf(d)'
<1>1. Members /\ LiveOf(d) BY DEF RelayInv, Members
<1>2. ASSUME NEW c \in Clients, SendLock(c) PROVE LiveOf(d)'
  BY <1>1, <1>2, LiveSendLock
<1>3. ASSUME NEW c \in Clients, SendCommit(c) PROVE LiveOf(d)'
  BY <1>1, <1>3, LiveSendCommit
<1>4. ASSUME NEW c \in Clients, NEW e \in Clients, SendQueue(c, e) PROVE LiveOf(d)'
  BY <1>1, <1>4, LiveSendQueue
<1>5. CASE SameLog
  <2>1. PICK c \in Clients : Moves(c) BY <1>1, MoveStep
  <2>2. SameLive(d)
    <3>1. CASE SameStreams BY <3>1 DEF SameStreams, SameLive
    <3>2. ASSUME NEW e \in Clients, QueueBacklog(e) PROVE SameLive(d)
      <4>1. Stream(d)' = Stream(d) \/ d = e BY <3>2, BacklogStreams
      <4> QED BY <3>2, <4>1, BacklogStreams DEF SameLive
    <3>3. ASSUME NEW e \in Clients, Dropped(e) PROVE SameLive(d)
      BY <3>3 DEF Dropped, SameLive, Intact
    <3>4. ASSUME NEW e \in Clients, NEW f \in Clients, SendQueue(e, f) PROVE FALSE
      BY <1>5, <3>4 DEF SendQueue, SameLog
    <3> QED BY <3>1, <3>2, <3>3, <3>4, StreamStep
  <2> QED BY <1>1, <1>5, <2>1, <2>2, LiveWhenQuiet
<1> QED BY <1>2, <1>3, <1>4, <1>5, LogStep

LEMMA SnapshotStep ==
  ASSUME TypeOK, TypeOK', [Next]_vars, NEW d \in Clients,
         Begins(snapshot[d], backlog_)
  PROVE  Begins(snapshot[d], backlog_)'
<1>1. /\ backlog_ \in Seq(Texts) /\ snapshot \in [Clients -> Seq(Texts)]
      /\ backlog_' \in Seq(Texts)
  BY DEF TypeOK, TextTypes
<1>2. CASE UNCHANGED snapshot
  <2>1. Begins(snapshot[d], backlog_') BY <1>1, BeginsStep
  <2> QED BY <1>2, <2>1 DEF Begins
<1>3. ASSUME NEW c \in Clients, CopyBacklog(c) PROVE Begins(snapshot[d], backlog_)'
  <2>1. CASE d = c
    <3>1. snapshot'[d] = backlog_ /\ backlog_' = backlog_
      BY <1>1, <1>3, <2>1 DEF CopyBacklog, dataVars
    <3>2. backlog_ = SubSeq(backlog_, 1, Len(backlog_)) BY <1>1, WholeSubSeq
    <3>3. Len(backlog_) <= Len(backlog_) BY <1>1
    <3> QED BY <3>1, <3>2, <3>3 DEF Begins
  <2>2. CASE d # c
    BY <1>1, <1>3, <2>2 DEF CopyBacklog, dataVars, Begins
  <2> QED BY <2>1, <2>2
<1>4. ASSUME NEW c \in Clients, QueueBacklog(c) PROVE Begins(snapshot[d], backlog_)'
  <2>1. CASE d = c
    <3>1. snapshot'[d] = <<>> BY <1>1, <1>4, <2>1 DEF QueueBacklog
    <3>2. Begins(<<>>, backlog_') BY <1>1, EmptyBegins
    <3> QED BY <3>1, <3>2 DEF Begins
  <2>2. CASE d # c
    BY <1>1, <1>4, <2>2 DEF QueueBacklog, dataVars, Begins
  <2> QED BY <2>1, <2>2
<1>5. CASE UNCHANGED <<backlog_, snapshot, queue_, text, since>> BY <1>2, <1>5
<1>6. CASE RegisterPush BY <1>2, <1>6 DEF RegisterPush, localVars
<1>7. ASSUME NEW c \in Clients,
             \/ SetAuth(c) \/ FlushOne(c) \/ ReadText(c) \/ SendCommit(c)
             \/ \E e \in Clients : SendQueue(c, e)
      PROVE  Begins(snapshot[d], backlog_)'
  BY <1>2, <1>7 DEF SetAuth, FlushOne, ReadText, SendQueue, SendCommit, localVars
<1> QED BY <1>3, <1>4, <1>5, <1>6, <1>7, TextFrame

LEMMA ReplayStep ==
  ASSUME TypeOK, TypeOK', MutexHeld, RelayInv, [Next]_vars, NEW d \in Clients
  PROVE  ReplayOf(d)'
<1> DEFINE r == TextsOf("replay", Stream(d))
<1>1. /\ pc[d] \in Fresh => r = <<>>
      /\ Begins(snapshot[d], backlog_)
      /\ Intact(d) => Begins(r, backlog_)
  BY DEF RelayInv, ReplayOf
<1>2. pc'[d] \in Fresh => pc[d] \in Fresh
  <2>1. Members BY DEF RelayInv, Members
  <2>2. PICK c \in Clients : Moves(c) BY <2>1, MoveStep
  <2> QED BY <2>2 DEF Moves
<1>3. Intact(d)' => Intact(d) BY BrokenStays
<1>4. Begins(snapshot[d], backlog_)' BY <1>1, SnapshotStep
<1>5. r \in Seq(Texts) BY StreamTexts
<1>6. CASE r' = r
  <2>1. Intact(d)' => Begins(r, backlog_') BY <1>1, <1>3, <1>5, BeginsStep
  <2>2. Intact(d)' => Begins(r', backlog_') BY <1>6, <2>1
  <2>3. pc'[d] \in Fresh => r' = <<>> BY <1>1, <1>2, <1>6
  <2> HIDE DEF r
  <2>4. Intact(d)' => Begins(r, backlog_)' BY <2>2 DEF Begins
  <2> QED BY <1>4, <2>3, <2>4 DEF ReplayOf, r
<1>7. ASSUME NEW c \in Clients, QueueBacklog(c) PROVE ReplayOf(d)'
  <2>1. CASE d # c BY <1>6, <1>7, <2>1, BacklogStreams
  <2>2. CASE d = c
    <3>1. pc[d] \in Fresh /\ pc'[d] \notin Fresh
      BY <1>7, <2>2 DEF QueueBacklog, Fresh, At, Goto, TypeOK, ControlTypes
    <3>2. snapshot[d] \in Seq(Texts) /\ backlog_' = backlog_
      BY <1>7 DEF QueueBacklog, TypeOK, TextTypes, dataVars
    <3>3. r' = r \o snapshot[d] BY <1>7, <2>2, BacklogStreams
    <3>4. r' = snapshot[d] BY <1>1, <3>1, <3>2, <3>3, ConcatEmpty
    <3>5. Begins(r, backlog_)' BY <1>1, <3>2, <3>4 DEF Begins
    <3> QED BY <1>4, <3>1, <3>5 DEF ReplayOf
  <2> QED BY <2>1, <2>2
<1>8. ASSUME NEW c \in Clients, Dropped(c) PROVE ReplayOf(d)'
  <2>1. CASE d # c BY <1>6, <1>8, <2>1 DEF Dropped
  <2>2. CASE d = c
    <3>1. ~Intact(d)' /\ (r = <<>> => r' = <<>>)
      BY <1>8, <2>2 DEF Dropped, Intact
    <3> QED BY <1>1, <1>2, <1>4, <3>1 DEF ReplayOf
  <2> QED BY <2>1, <2>2
<1>9. ASSUME NEW c \in Clients, NEW e \in Clients, SendQueue(c, e)
      PROVE  ReplayOf(d)'
  <2>1. r' = r
    <3>1. CASE d # e BY <1>9, <3>1, SendStreams
    <3>2. CASE d = e BY <1>9, <3>2, SendStreams
    <3> QED BY <3>1, <3>2
  <2> QED BY <1>6, <2>1
<1>10. CASE SameStreams BY <1>6, <1>10 DEF SameStreams
<1> QED BY <1>7, <1>8, <1>9, <1>10, StreamStep

LEMMA InitRelay == Init => RelayInv
<1> SUFFICES ASSUME Init, NEW c \in Clients
             PROVE  Membership(c) /\ LiveOf(c) /\ ReplayOf(c)
  BY DEF RelayInv
<1> USE DEF Init, mainVars
<1>1. Membership(c)
  BY ThreadsAssumption DEF Membership, Named, Accepted, SenderActive, NoOne
<1>2. Outside(c) /\ ~Inside(c) BY DEF Outside, Inside, Gone
<1>3. Stream(c) = <<>> BY DEF Stream
<1>4. /\ TextsOf("live", Stream(c)) = <<>> /\ TextsOf("replay", Stream(c)) = <<>>
  BY <1>3, TextsOfEmpty
<1>5. Begins(<<>>, backlog_) BY LoadedAssumption, EmptyBegins
<1>6. snapshot[c] = <<>> OBVIOUS
<1> QED BY <1>1, <1>2, <1>4, <1>5, <1>6 DEF LiveOf, ReplayOf

LEMMA RelayStep ==
  TypeOK /\ TypeOK' /\ MutexHeld /\ MutexHeld' /\ RelayInv /\ [Next]_vars => RelayInv'
<1> SUFFICES ASSUME TypeOK, TypeOK', MutexHeld, MutexHeld', RelayInv, [Next]_vars,
                    NEW d \in Clients
             PROVE  Membership(d)' /\ LiveOf(d)' /\ ReplayOf(d)'
  BY DEF RelayInv
<1>1. Membership(d)'
  <2>1. Members BY DEF RelayInv, Members
  <2>2. PICK c \in Clients : Moves(c) BY <2>1, MoveStep
  <2> QED BY <2>2 DEF Moves
<1> QED BY <1>1, LiveStep, ReplayStep

SafeInv == TypeOK /\ MutexHeld /\ RelayInv

LEMMA RelayInvariant == Spec => []SafeInv
<1>1. Init => SafeInv BY InitType, InitMutex, InitRelay DEF SafeInv
<1>2. SafeInv /\ [Next]_vars => SafeInv'
  BY TypeStep, MutexStep, RelayStep DEF SafeInv
<1> QED BY <1>1, <1>2, PTL DEF Spec

\* From the moment a client is registered and authenticated it is given every
\* text sendText queues, once and in the order of the backlog, whoever else
\* sends, comes in, leaves or is disconnected meanwhile.
THEOREM LiveTextsExact == Spec => []LiveExact
<1>1. SafeInv => LiveExact
  <2> SUFFICES ASSUME SafeInv, NEW c \in clients_, auth_[c], Intact(c)
               PROVE  TextsOf("live", Stream(c)) =
                        SubSeq(LogFor(c), since[c] + 1, Len(LogFor(c)))
    BY DEF LiveExact
  <2>1. c \in Clients BY DEF SafeInv, TypeOK, ControlTypes
  <2> QED BY <2>1 DEF SafeInv, RelayInv, LiveOf, Inside
<1> QED BY <1>1, RelayInvariant, PTL

\* What is replayed to a new client is a beginning of the backlog, although the
\* backlog is copied without the mutex and grows before the copy is queued.
THEOREM ReplayInOrder == Spec => []ReplayIsPrefix
<1>1. SafeInv => ReplayIsPrefix
  BY DEF SafeInv, RelayInv, ReplayOf, ReplayIsPrefix, Begins
<1> QED BY <1>1, RelayInvariant, PTL

(***************************************************************************)
(* The server implements the room.                                         *)
(***************************************************************************)
LEMMA PlaceIs ==
  ASSUME NEW c
  PROVE  /\ PlaceOf(c) = "inside" <=> Inside(c)
         /\ PlaceOf(c) = "gone" <=> Gone(c)
         /\ PlaceOf(c) = "outside" <=> Outside(c)
BY DEF PlaceOf, Inside, Gone, Outside

LEMMA PlaceWillBe ==
  ASSUME NEW c
  PROVE  /\ PlaceOf(c)' = "inside" <=> Inside(c)'
         /\ PlaceOf(c)' = "gone" <=> Gone(c)'
         /\ SamePlace(c) => PlaceOf(c)' = PlaceOf(c)
BY DEF PlaceOf, Inside, Gone, SamePlace

LEMMA GivenFrame ==
  ASSUME TypeOK, TypeOK', [Next]_vars
  PROVE  \/ UNCHANGED Given
         \/ \E c \in Clients : /\ FlushOne(c) /\ Sent(c, Head(queue_[c]))
                               /\ Head(queue_[c]).kind = "live"
                               /\ Given' = [Given EXCEPT ![c] =
                                              Append(@, Head(queue_[c]).text)]
<1> SUFFICES ASSUME ~UNCHANGED Given
             PROVE  \E c \in Clients : /\ FlushOne(c) /\ Sent(c, Head(queue_[c]))
                               /\ Head(queue_[c]).kind = "live"
                               /\ Given' = [Given EXCEPT ![c] =
                                              Append(@, Head(queue_[c]).text)]
  OBVIOUS
<1>1. out \in [Clients -> Seq(Items)] BY DEF TypeOK, NetTypes, Items
<1>2. ASSUME NEW c \in Clients, NEW code \in {"ok", "not_ok", "not_auth"},
             Sent(c, Status(code)) \/ SendError(c)
      PROVE  FALSE
  <2>1. \A d \in Clients : \/ out'[d] = out[d]
                           \/ d = c /\ out'[d] = Append(out[d], Status(code))
    BY <1>1, <1>2 DEF Sent, SendError
  <2>2. \A d \in Clients : TextsOf("live", out'[d]) = TextsOf("live", out[d])
    BY <2>1, StatusIsNoText
  <2> QED BY <2>2 DEF Given
<1>3. ASSUME NEW c \in Clients, Refuse(c) \/ Reply(c) \/ ReplyError(c) PROVE FALSE
  <2>1. \E code \in {"ok", "not_ok", "not_auth"} : Sent(c, Status(code)) \/ SendError(c)
    BY <1>3 DEF Refuse, Reply, ReplyError
  <2> QED BY <1>2, <2>1
<1>4. ASSUME UNCHANGED out PROVE FALSE BY <1>4 DEF Given
<1>5. ASSUME NEW c \in Clients, QueueBacklog(c) \/ \E d \in Clients : SendQueue(c, d)
      PROVE  FALSE
  BY <1>4, <1>5 DEF QueueBacklog, SendQueue, netVars
<1>6. ASSUME NEW c \in Clients, FlushOne(c)
      PROVE  /\ Sent(c, Head(queue_[c])) /\ Head(queue_[c]).kind = "live"
             /\ Given' = [Given EXCEPT ![c] = Append(@, Head(queue_[c]).text)]
  <2> DEFINE e == Head(queue_[c])
  <2>1. Sent(c, e) BY <1>4, <1>6 DEF FlushOne, SendError
  <2>2. e \in Items /\ out[c] \in Seq(Items)
    <3>1. queue_[c] \in Seq(Items) /\ queue_[c] # <<>> /\ out[c] \in Seq(Items)
      BY <1>6, StreamTexts DEF FlushOne
    <3> QED BY <3>1
  <2> HIDE DEF e
  <2>3. out' = [out EXCEPT ![c] = Append(out[c], e)] BY <1>1, <2>1 DEF Sent
  <2>4. TextsOf("live", Append(out[c], e)) = IF e.kind = "live"
           THEN Append(TextsOf("live", out[c]), e.text) ELSE TextsOf("live", out[c])
    BY <2>2, TextsOfAppend
  <2>5. \A d \in Clients \ {c} : out'[d] = out[d] BY <1>1, <2>3
  <2>6. out'[c] = Append(out[c], e) BY <1>1, <2>3
  <2>7. CASE e.kind # "live"
    <3>1. \A d \in Clients : TextsOf("live", out'[d]) = TextsOf("live", out[d])
      BY <2>4, <2>5, <2>6, <2>7
    <3> QED BY <3>1 DEF Given
  <2>8. CASE e.kind = "live"
    <3>1. TextsOf("live", out'[c]) = Append(TextsOf("live", out[c]), e.text)
      BY <2>4, <2>6, <2>8
    <3>2. Given' = [Given EXCEPT ![c] = Append(@, e.text)]
      BY <2>5, <3>1 DEF Given
    <3> QED BY <2>1, <2>8, <3>2 DEF e
  <2> QED BY <2>7, <2>8
<1> QED BY <1>3, <1>4, <1>5, <1>6, StreamFrame

\* What is served to a client is the posted log, or the log without the text
\* that is being sent.
LEMMA LogLengths ==
  ASSUME TypeOK, MutexHeld, NEW d \in Clients
  PROVE  /\ Len(LogFor(d)) \in {Len(PostedLog), Len(PostedLog) - 1} \cap Nat
         /\ \A i \in 1 .. Len(LogFor(d)) :
              i <= Len(PostedLog) /\ PostedLog[i] = LogFor(d)[i]
<1>1. backlog_ \in Seq(Texts) BY DEF TypeOK, TextTypes
<1>2. CASE \A t \in Clients : pc[t] # "sending" BY <1>1, <1>2, NoSender
<1>3. ASSUME NEW s \in Clients, pc[s] = "sending"
      PROVE  /\ Len(LogFor(d)) \in {Len(PostedLog), Len(PostedLog) - 1} \cap Nat
             /\ \A i \in 1 .. Len(LogFor(d)) :
                  i <= Len(PostedLog) /\ PostedLog[i] = LogFor(d)[i]
  <2>1. ServerText(s) \in Texts BY <1>3, ServerTextType
  <2>2. /\ PostedLog = Append(backlog_, ServerText(s))
        /\ LogFor(d) \in {backlog_, PostedLog}
    BY <1>3, OneSender
  <2>3. /\ PostedLog \in Seq(Texts) /\ Len(PostedLog) = Len(backlog_) + 1
        /\ \A i \in 1 .. Len(backlog_) : PostedLog[i] = backlog_[i]
    BY <1>1, <2>1, <2>2
  <2>4. CASE LogFor(d) = backlog_ BY <1>1, <2>3, <2>4
  <2>5. CASE LogFor(d) = PostedLog BY <2>3, <2>5
  <2> QED BY <2>2, <2>4, <2>5
<1> QED BY <1>2, <1>3

\* Comings and goings are those of the room.
LEMMA RoomWhenQuiet ==
  ASSUME SafeInv, SafeInv', [Next]_vars, SameLog, UNCHANGED Given,
         NEW c \in Clients, Moves(c)
  PROVE  [Room!Next]_(Room!vars)
<1> USE DEF SafeInv
<1>1. PostedLog' = PostedLog BY SameLogs
<1>2. \A d \in Clients \ {c} : PlaceOf(d)' = PlaceOf(d)
  BY PlaceWillBe DEF Moves
<1>3. CASE SamePlace(c) /\ UNCHANGED since
  <2>1. \A d \in Clients : PlaceOf(d)' = PlaceOf(d) BY <1>2, <1>3, PlaceWillBe
  <2>2. Places' = Places BY <2>1 DEF Places
  <2> QED BY <1>1, <1>3, <2>2 DEF Room!vars
<1>4. CASE ~Gone(c) /\ Gone(c)' /\ UNCHANGED since
  <2>1. Places[c] # "gone" /\ Places' = [Places EXCEPT ![c] = "gone"]
    BY <1>2, <1>4, PlaceIs, PlaceWillBe DEF Places
  <2>2. Room!Quit(c) BY <1>1, <1>4, <2>1 DEF Room!Quit
  <2> QED BY <2>2 DEF Room!Next
<1>5. CASE Outside(c) /\ Inside(c)' /\ (SetAuth(c) \/ (RegisterPush /\ newClient = c))
  <2>1. Members BY DEF RelayInv, Members
  <2>2. Places[c] = "outside" /\ Places' = [Places EXCEPT ![c] = "inside"]
    BY <1>2, <1>5, PlaceIs, PlaceWillBe DEF Places
  <2>3. /\ since'[c] = Len(LogFor(c)) /\ LogFor(c) \in Seq(Texts)
        /\ \A d \in Clients \ {c} : since'[d] = since[d]
    BY <1>5, <2>1, EnterLog
  <2>4. since' = [since EXCEPT ![c] = Len(LogFor(c))]
    BY <2>3 DEF TypeOK, TextTypes
  <2>5. Len(LogFor(c)) \in {Len(PostedLog), Len(PostedLog) - 1} \cap Nat
    BY <2>3, LogLengths
  <2>6. Room!Enter(c) BY <1>1, <2>2, <2>4, <2>5 DEF Room!Enter
  <2> QED BY <2>6 DEF Room!Next
<1> QED BY <1>3, <1>4, <1>5 DEF Moves

\* A text put into the socket is the next one of the log.
LEMMA RoomGive ==
  ASSUME SafeInv, SafeInv', [Next]_vars, NEW c \in Clients, FlushOne(c),
         Sent(c, Head(queue_[c])), Head(queue_[c]).kind = "live",
         Given' = [Given EXCEPT ![c] = Append(@, Head(queue_[c]).text)]
  PROVE  Room!Give(c)
<1> USE DEF SafeInv
<1> DEFINE q == queue_[c]
           x == Head(q).text
           g == TextsOf("live", out[c])
           r == TextsOf("live", Tail(q))
<1>1. /\ q \in Seq(Items) /\ q # <<>> /\ g \in Seq(Texts)
      /\ TextsOf("live", Stream(c)) = g \o TextsOf("live", q)
  BY StreamTexts DEF FlushOne
<1>2. Head(q) \in Items /\ Tail(q) \in Seq(Items) BY <1>1
<1>3. x \in Texts BY <1>2 DEF Items, Entries, Replies
<1>4. r \in Seq(Texts) BY <1>2, TextsOfType
<1>5. TextsOf("live", q) = <<x>> \o r BY <1>1, TextsOfHead
<1>6. TextsOf("live", Stream(c)) = g \o (<<x>> \o r) BY <1>1, <1>5
<1>7. pc[c] \in {"backflush", "flush"} /\ Intact(c)
  BY DEF FlushOne, At, Sent, Intact
<1>8. Inside(c)
  <2>1. ~Gone(c) BY <1>7 DEF Gone
  <2>2. TextsOf("live", Stream(c)) # <<>>
    <3> HIDE DEF x, g, r
    <3>1. <<x>> \o r \in Seq(Texts) /\ Len(<<x>> \o r) # 0 BY <1>3, <1>4
    <3> QED BY <1>1, <1>6, <3>1
  <2>3. ~Outside(c) BY <2>2 DEF RelayInv, LiveOf
  <2> QED BY <2>1, <2>3 DEF Outside
<1>9. /\ g \o (<<x>> \o r) = SubSeq(LogFor(c), since[c] + 1, Len(LogFor(c)))
      /\ since[c] <= Len(LogFor(c))
  BY <1>6, <1>7, <1>8 DEF RelayInv, LiveOf
<1>10. since[c] \in Nat /\ LogFor(c) \in Seq(Texts)
  BY LogType DEF TypeOK, TextTypes
<1>11. since[c] + Len(g) < Len(LogFor(c)) /\ LogFor(c)[since[c] + Len(g) + 1] = x
  <2> DEFINE l == LogFor(c)
             k == since[c]
  <2>1. l \in Seq(Texts) /\ k \in Nat /\ k <= Len(l)
        /\ g \o (<<x>> \o r) = SubSeq(l, k + 1, Len(l))
    BY <1>9, <1>10
  <2>2. g \in Seq(Texts) /\ x \in Texts /\ r \in Seq(Texts) BY <1>1, <1>3, <1>4
  <2> HIDE DEF l, k, g, x, r
  <2>3. k + Len(g) < Len(l) /\ l[k + Len(g) + 1] = x BY <2>1, <2>2, NextInLog
  <2> QED BY <2>3 DEF l, k
<1>12. since[c] + Len(g) < Len(PostedLog) /\ PostedLog[since[c] + Len(g) + 1] = x
  <2>1. Len(g) \in Nat BY <1>1
  <2>2. \A i \in 1 .. Len(LogFor(c)) : i <= Len(PostedLog) /\ PostedLog[i] = LogFor(c)[i]
    BY LogLengths
  <2>3. since[c] + Len(g) + 1 \in 1 .. Len(LogFor(c))
    BY <1>10, <1>11, <2>1
  <2> QED BY <1>10, <1>11, <2>1, <2>2, <2>3, LogType
<1>13. Given[c] = g /\ Places[c] = "inside"
  BY <1>8, PlaceIs DEF Given, Places
<1>14. PostedLog' = PostedLog /\ Places' = Places /\ UNCHANGED since
  <2>1. SameLog
    BY <1>7 DEF FlushOne, SameLog, ServerText, lockVars, dataVars, localVars, Sent,
       SendError
  <2>2. UNCHANGED <<clients_, auth_, newClient, since, pc>>
    BY DEF FlushOne, mainVars, dataVars, Sent, SendError
  <2>3. \A d \in Clients : SamePlace(d)
    BY <2>2 DEF SamePlace, Inside, Gone
  <2>4. Places' = Places BY <2>3, PlaceWillBe DEF Places
  <2> QED BY <2>1, <2>2, <2>4, SameLogs
<1> QED BY <1>12, <1>13, <1>14 DEF Room!Give

LEMMA RoomPost ==
  ASSUME SafeInv, SafeInv', [Next]_vars, NEW c \in Clients, SendLock(c)
  PROVE  Room!Post(c, ServerText(c))
<1> USE DEF SafeInv
<1>1. \A t \in Clients : pc[t] # "sending"
  BY ThreadsAssumption DEF SendLock, Lock, MutexFree, MutexHeld, Critical, NoOne
<1>2. PostedLog = backlog_ BY <1>1, NoSender
<1>3. /\ pc'[c] = "sending" /\ \A t \in Clients : pc'[t] = "sending" => t = c
      /\ UNCHANGED <<backlog_, name_, text, out>>
  BY <1>1 DEF SendLock, Goto, TypeOK, ControlTypes, dataVars, clientVars, localVars,
     netVars
<1>4. PostedLog' = Append(PostedLog, ServerText(c))
  <2>1. (CHOOSE t \in Clients : pc'[t] = "sending") = c BY <1>3
  <2> QED BY <1>2, <1>3, <2>1 DEF PostedLog, ServerText
<1>5. Places' = Places /\ UNCHANGED since
  BY Senders, PlaceWillBe DEF Places
<1>6. Places[c] # "gone"
  BY PlaceIs DEF Places, Gone, SendLock, At
<1>7. ServerText(c).from = c BY DEF ServerText
<1>8. Given' = Given BY <1>3 DEF Given
<1> QED BY <1>4, <1>5, <1>6, <1>7, <1>8 DEF Room!Post

LEMMA RoomSends ==
  ASSUME SafeInv, SafeInv', NEW c \in Clients,
         SendCommit(c) \/ \E e \in Clients : SendQueue(c, e)
  PROVE  UNCHANGED Room!vars
<1> USE DEF SafeInv
<1>1. pc[c] = "sending" BY DEF SendCommit, SendQueue, At
<1>2. PostedLog = Append(backlog_, ServerText(c)) BY <1>1, OneSender
<1>3. \A t \in Clients : pc[t] = "sending" => t = c
  BY <1>1, OneSender DEF Critical
<1>4. PostedLog' = PostedLog
  <2>1. CASE SendCommit(c)
    <3>1. backlog_' = Append(backlog_, ServerText(c))
      BY <2>1 DEF SendCommit, Recorded
    <3>2. \A t \in Clients : pc'[t] # "sending"
      BY <1>3, <2>1 DEF SendCommit, Goto, TypeOK, ControlTypes
    <3> QED BY <1>2, <3>1, <3>2 DEF PostedLog
  <2>2. ASSUME NEW e \in Clients, SendQueue(c, e) PROVE PostedLog' = PostedLog
    <3>1. UNCHANGED <<pc, backlog_, text, name_>>
      BY <2>2 DEF SendQueue, dataVars, localVars
    <3> QED BY <3>1 DEF PostedLog, ServerText
  <2> QED BY <2>1, <2>2
<1>5. UNCHANGED <<since, out>> /\ \A d \in Clients : PlaceOf(d)' = PlaceOf(d)
  BY Senders, PlaceWillBe
<1>6. Places' = Places /\ Given' = Given BY <1>5 DEF Places, Given
<1> QED BY <1>4, <1>5, <1>6 DEF Room!vars

LEMMA RoomStep ==
  ASSUME SafeInv, SafeInv', [Next]_vars
  PROVE  [Room!Next]_(Room!vars)
<1>1. ASSUME NEW c \in Clients, SendLock(c) PROVE Room!Next
  <2>1. ServerText(c) \in Texts
    BY <1>1, ServerTextType DEF SafeInv, SendLock, At
  <2>2. Room!Post(c, ServerText(c)) BY <1>1, RoomPost
  <2> QED BY <2>1, <2>2 DEF Room!Next
<1>2. ASSUME NEW c \in Clients, SendCommit(c) \/ \E e \in Clients : SendQueue(c, e)
      PROVE  UNCHANGED Room!vars
  BY <1>2, RoomSends
<1>3. CASE SameLog
  <2>1. ASSUME NEW c \in Clients, FlushOne(c), Sent(c, Head(queue_[c])),
               Head(queue_[c]).kind = "live",
               Given' = [Given EXCEPT ![c] = Append(@, Head(queue_[c]).text)]
        PROVE  Room!Next
    BY <2>1, RoomGive DEF Room!Next
  <2>2. ASSUME UNCHANGED Given PROVE [Room!Next]_(Room!vars)
    <3>1. ASSUME Clients = {} PROVE UNCHANGED Room!vars
      <4>1. UNCHANGED since
        BY <3>1 DEF SafeInv, TypeOK, TextTypes
      <4>2. Places' = Places BY <3>1 DEF Places
      <4>3. PostedLog' = PostedLog BY <1>3, SameLogs DEF SafeInv
      <4> QED BY <2>2, <4>1, <4>2, <4>3 DEF Room!vars
    <3>2. ASSUME NEW one \in Clients PROVE [Room!Next]_(Room!vars)
      <4>1. Members BY DEF SafeInv, RelayInv, Members
      <4>2. PICK c \in Clients : Moves(c) BY <4>1, MoveStep DEF SafeInv
      <4> QED BY <1>3, <2>2, <4>2, RoomWhenQuiet
    <3> QED BY <3>1, <3>2
  <2>3. TypeOK /\ TypeOK' BY DEF SafeInv
  <2> QED BY <2>1, <2>2, <2>3, GivenFrame
<1> QED BY <1>1, <1>2, <1>3, LogStep DEF SafeInv

LEMMA RoomInit == Init => Room!Init
<1> SUFFICES ASSUME Init PROVE Room!Init OBVIOUS
<1> USE DEF Init, mainVars
<1>1. PostedLog \in Seq(Texts) BY LoadedAssumption, NoSender
<1>2. \A c \in Clients : Outside(c) BY DEF Outside, Inside, Gone
<1>3. Places = [c \in Clients |-> "outside"] BY <1>2, PlaceIs DEF Places
<1>4. Given = [c \in Clients |-> <<>>] BY TextsOfEmpty DEF Given
<1> QED BY <1>1, <1>3, <1>4 DEF Room!Init

\* The server's threads, for any number of clients, texts and faults, behave
\* like the room: every sendText takes effect at one moment, and everyone inside
\* is given the texts from one log.
THEOREM ServerIsRoom == Spec => ImplementsRoom
<1>1. Init => Room!Init BY RoomInit
<1>2. SafeInv /\ SafeInv' /\ [Next]_vars => [Room!Next]_(Room!vars) BY RoomStep
<1> QED BY <1>1, <1>2, RelayInvariant, PTL DEF Spec, ImplementsRoom
=============================================================================
