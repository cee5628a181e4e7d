------------------------ MODULE MessageBufferProofs ------------------------
(***************************************************************************)
(* Messages come out of the buffer as they were sent, for all messages,    *)
(* every size of a byte, a number and the buffer, and every way to cut the *)
(* stream but within a status.                                             *)
(***************************************************************************)
EXTENDS MessageBuffer, SequenceLemmas, TLAPS

LEMMA RadixOK == Radix \in Nat /\ Radix >= 6 /\ 0 \in Byte /\ Byte \subseteq Nat
BY FormatAssumption DEF Byte, MSG_SERVER_TEXT

(***************************************************************************)
(* Numbers: taken apart byte by byte and put together again.               *)
(***************************************************************************)
LEMMA Division ==
  ASSUME NEW x \in Nat, NEW r \in Nat, r >= 1
  PROVE  /\ x \div r \in Nat /\ x % r \in 0..(r - 1)
         /\ x = (x \div r) * r + (x % r)
OBVIOUS

LEMMA ByRadix ==
  ASSUME NEW x \in Nat
  PROVE  /\ x \div Radix \in Nat /\ x % Radix \in 0..(Radix - 1)
         /\ x = (x \div Radix) * Radix + (x % Radix)
<1> DEFINE r == Radix
<1>1. r \in Nat /\ r >= 1
  BY RadixOK
<1> HIDE DEF r
<1>2. /\ x \div r \in Nat /\ x % r \in 0..(r - 1)
      /\ x = (x \div r) * r + (x % r)
  BY <1>1, Division
<1> QED BY <1>2 DEF r

IsRest(f, n, k) == f = [i \in 0..k |-> IF i = 0 THEN n ELSE f[i - 1] \div Radix]

RestFor(n, k) == CHOOSE f : IsRest(f, n, k)

LEMMA ShiftedRest ==
  ASSUME NEW n, NEW k
  PROVE  Shifted(n, k) = RestFor(n, k)[k]
BY DEF Shifted, RestFor, IsRest

LEMMA RestType ==
  ASSUME NEW n \in Nat, NEW k \in Nat
  PROVE  /\ RestFor(n, k) \in [0..k -> Nat]
         /\ RestFor(n, k)[0] = n
         /\ \A i \in 1..k : RestFor(n, k)[i] = RestFor(n, k)[i - 1] \div Radix
<1> DEFINE step == [i \in 1..k |-> [v \in Nat |-> v \div Radix]]
<1>1. step \in [1..k -> [Nat -> Nat]]
  BY ByRadix
<1>2. PICK f \in [0..k -> Nat] : Recursion(f, k, n, step)
  <2> HIDE DEF step
  <2> QED BY <1>1, RecursiveFunction
<1>3. IsRest(f, n, k)
  <2>1. ASSUME NEW i \in 1..k PROVE f[i] = f[i - 1] \div Radix
    <3>1. f[i] = step[i][f[i - 1]]
      BY <1>2 DEF Recursion
    <3>2. f[i - 1] \in Nat
      BY <1>2
    <3> QED BY <3>1, <3>2
  <2>2. f[0] = n
    BY <1>2 DEF Recursion
  <2>3. ASSUME NEW i \in 0..k PROVE f[i] = IF i = 0 THEN n ELSE f[i - 1] \div Radix
    <3>1. i = 0 \/ i \in 1..k
      OBVIOUS
    <3> QED BY <2>1, <2>2, <3>1
  <2> QED BY <1>2, <2>3 DEF IsRest
<1> DEFINE g == RestFor(n, k)
<1>4. g = [i \in 0..k |-> IF i = 0 THEN n ELSE g[i - 1] \div Radix]
  BY <1>3 DEF RestFor, IsRest
<1> HIDE DEF g
<1>5. g[0] = n /\ \A i \in 1..k : g[i] = g[i - 1] \div Radix
  BY <1>4
<1>6. Alike(f, g, k)
  <2>1. f[0] = n /\ \A i \in 1..k : f[i] = f[i - 1] \div Radix
    <3>1. f = [i \in 0..k |-> IF i = 0 THEN n ELSE f[i - 1] \div Radix]
      BY <1>3 DEF IsRest
    <3> QED BY <3>1
  <2> QED BY <1>5, <2>1 DEF Alike
<1>7. \A i \in 0..k : f[i] = g[i]
  BY <1>6, SameRecursion
<1>8. g \in [0..k -> Nat]
  BY <1>2, <1>4, <1>7
<1> QED BY <1>5, <1>8 DEF g

\* Shifting by one byte more is one division more.
LEMMA ShiftedNext ==
  ASSUME NEW n \in Nat, NEW k \in Nat
  PROVE  /\ Shifted(n, k) \in Nat /\ Shifted(n, 0) = n
         /\ Shifted(n, k + 1) = Shifted(n, k) \div Radix
<1> DEFINE f == RestFor(n, k)
           g == RestFor(n, k + 1)
<1>1. f \in [0..k -> Nat] /\ f[0] = n /\ \A i \in 1..k : f[i] = f[i - 1] \div Radix
  BY RestType
<1>2. /\ g \in [0..(k + 1) -> Nat] /\ g[0] = n
      /\ \A i \in 1..(k + 1) : g[i] = g[i - 1] \div Radix
  BY RestType
<1>3. Shifted(n, k) = f[k] /\ Shifted(n, k + 1) = g[k + 1]
  BY ShiftedRest
<1>4. Shifted(n, 0) = n
  BY ShiftedRest, RestType
<1> HIDE DEF f, g
<1>5. Alike(f, g, k)
  BY <1>1, <1>2 DEF Alike
<1>6. f[k] = g[k]
  BY <1>5, SameRecursion
<1>7. g[k + 1] = g[k] \div Radix
  <2>1. k + 1 \in 1..(k + 1) /\ (k + 1) - 1 = k
    OBVIOUS
  <2> QED BY <1>2, <2>1
<1> QED BY <1>1, <1>3, <1>4, <1>6, <1>7

LEMMA NumberOK ==
  ASSUME NEW n \in Nat, NEW bytes \in Nat
  PROVE  /\ Number(n, bytes) \in Seq(Byte) /\ Len(Number(n, bytes)) = bytes
         /\ \A i \in 1..bytes : Number(n, bytes)[i] = Shifted(n, i - 1) % Radix
<1>1. ASSUME NEW i \in 1..bytes PROVE Shifted(n, i - 1) % Radix \in Byte
  <2>1. Shifted(n, i - 1) \in Nat
    BY ShiftedNext
  <2> QED BY <2>1, ByRadix DEF Byte
<1>2. Number(n, bytes) \in [1..bytes -> Byte]
  BY <1>1 DEF Number
<1> QED BY <1>2 DEF Number

IsSum(f, b, pos, bytes) ==
  f = [i \in 0..bytes |-> IF i = 0 THEN 0 ELSE f[i - 1] * Radix + b[pos + bytes - i]]

SumFor(b, pos, bytes) == CHOOSE f : IsSum(f, b, pos, bytes)

LEMMA ValueSum ==
  ASSUME NEW b, NEW pos, NEW bytes
  PROVE  Value(b, pos, bytes) = SumFor(b, pos, bytes)[bytes]
BY DEF Value, SumFor, IsSum

\* What serialize() took apart deserialize() puts together.
LEMMA ValueOfNumber ==
  ASSUME NEW bytes \in Nat, NEW n \in Numbers(bytes), NEW b, NEW pos \in Nat,
         \A i \in 1..bytes : b[pos + i - 1] = Number(n, bytes)[i]
  PROVE  Value(b, pos, bytes) = n
<1>0. n \in Nat /\ Shifted(n, bytes) = 0
  BY DEF Numbers
<1> DEFINE f == [i \in 0..bytes |-> Shifted(n, bytes - i)]
<1>1. ASSUME NEW i \in 1..bytes
      PROVE  f[i] = f[i - 1] * Radix + b[pos + bytes - i]
  <2> DEFINE j == bytes - i
             x == Shifted(n, j)
  <2>1. j \in Nat /\ bytes - (i - 1) = j + 1 /\ j + 1 \in 1..bytes
        /\ pos + bytes - i = pos + (j + 1) - 1 /\ (j + 1) - 1 = j
        /\ i - 1 \in 0..bytes /\ i \in 0..bytes
    OBVIOUS
  <2>2. f[i] = x /\ f[i - 1] = Shifted(n, j + 1)
    BY <2>1
  <2> HIDE DEF j, f
  <2>3. x \in Nat /\ Shifted(n, j + 1) = x \div Radix
    BY <1>0, <2>1, ShiftedNext
  <2>4. b[pos + bytes - i] = x % Radix
    <3>1. b[pos + (j + 1) - 1] = Number(n, bytes)[j + 1]
      BY <2>1
    <3>2. Number(n, bytes)[j + 1] = Shifted(n, (j + 1) - 1) % Radix
      BY <1>0, <2>1, NumberOK
    <3> QED BY <2>1, <3>1, <3>2
  <2>5. x = (x \div Radix) * Radix + (x % Radix)
    BY <2>3, ByRadix
  <2> HIDE DEF x
  <2> QED BY <2>2, <2>3, <2>4, <2>5
<1>2. f[0] = 0 /\ f[bytes] = n
  BY <1>0, ShiftedNext
<1>3. IsSum(f, b, pos, bytes)
  <2>1. ASSUME NEW i \in 0..bytes
        PROVE  f[i] = IF i = 0 THEN 0 ELSE f[i - 1] * Radix + b[pos + bytes - i]
    <3>1. i = 0 \/ i \in 1..bytes
      OBVIOUS
    <3> HIDE DEF f
    <3> QED BY <1>1, <1>2, <3>1
  <2>2. f = [i \in 0..bytes |-> f[i]]
    OBVIOUS
  <2> HIDE DEF f
  <2> QED BY <2>1, <2>2 DEF IsSum
<1> DEFINE g == SumFor(b, pos, bytes)
<1>4. IsSum(g, b, pos, bytes)
  <2> HIDE DEF f
  <2> QED BY <1>3 DEF SumFor
<1> HIDE DEF f, g
<1>5. g[0] = 0 /\ \A i \in 1..bytes : g[i] = g[i - 1] * Radix + b[pos + bytes - i]
  <2>1. g = [i \in 0..bytes |->
              IF i = 0 THEN 0 ELSE g[i - 1] * Radix + b[pos + bytes - i]]
    BY <1>4 DEF IsSum
  <2>2. \A i \in 1..bytes : i \in 0..bytes /\ i # 0
    OBVIOUS
  <2>3. 0 \in 0..bytes
    OBVIOUS
  <2> QED BY <2>1, <2>2, <2>3, Zenon
<1>6. Alike(f, g, bytes)
  BY <1>1, <1>2, <1>5 DEF Alike
<1>7. f[bytes] = g[bytes]
  BY <1>6, SameRecursion
<1> QED BY <1>2, <1>7, ValueSum DEF g

(***************************************************************************)
(* Where the parts of a serialized message stand.                          *)
(***************************************************************************)
\* s stands in w behind the first p elements.
At(w, p, s) == p + Len(s) <= Len(w) /\ \A i \in 1..Len(s) : w[p + i] = s[i]

LEMMA AtFirst ==
  ASSUME NEW T, NEW u \in Seq(T), NEW v \in Seq(T)
  PROVE  u \o v \in Seq(T) /\ Len(u \o v) = Len(u) + Len(v) /\ At(u \o v, 0, u)
BY DEF At

LEMMA AtLast ==
  ASSUME NEW T, NEW u \in Seq(T), NEW v \in Seq(T)
  PROVE  At(u \o v, Len(u), v)
<1> DEFINE w == u \o v
<1>1. Len(w) = Len(u) + Len(v) /\ \A i \in 1..Len(v) : w[Len(u) + i] = v[i]
  OBVIOUS
<1> HIDE DEF w
<1>2. Len(u) \in Nat /\ Len(v) \in Nat
  OBVIOUS
<1>3. At(w, Len(u), v)
  BY <1>1, <1>2 DEF At
<1> QED BY <1>3 DEF w

LEMMA AtStays ==
  ASSUME NEW T, NEW u \in Seq(T), NEW v \in Seq(T), NEW s \in Seq(T), NEW p \in Nat,
         At(u, p, s)
  PROVE  At(u \o v, p, s)
<1> DEFINE w == u \o v
<1>1. Len(w) = Len(u) + Len(v) /\ \A i \in 1..Len(u) : w[i] = u[i]
  OBVIOUS
<1> HIDE DEF w
<1>2. Len(u) \in Nat /\ Len(v) \in Nat /\ Len(s) \in Nat
  OBVIOUS
<1>3. At(w, p, s)
  BY <1>1, <1>2 DEF At
<1> QED BY <1>3 DEF w

LEMMA StringOK ==
  ASSUME NEW s \in Strings
  PROVE  /\ s \in Seq(Byte) /\ Len(s) \in Byte
         /\ String(s) \in Seq(Byte) /\ Len(String(s)) = Len(s) + 1
         /\ String(s)[1] = Len(s)
         /\ \A i \in 1..Len(s) : String(s)[i + 1] = s[i]
<1>1. s \in Seq(Byte) /\ Len(s) \in Nat /\ Len(s) < Radix
  BY DEF Strings
<1>2. Len(s) % Radix = Len(s) /\ Len(s) \in Byte
  BY <1>1, RadixOK DEF Byte
<1> DEFINE h == <<Len(s)>>
           w == h \o s
<1>3. String(s) = w
  BY <1>2 DEF String
<1>4. h \in Seq(Byte) /\ Len(h) = 1 /\ h[1] = Len(s)
  BY <1>2
<1> HIDE DEF h
<1>5. w \in Seq(Byte) /\ Len(w) = Len(s) + 1 /\ w[1] = h[1]
      /\ \A i \in 1..Len(s) : w[i + 1] = s[i]
  <2>1. w \in Seq(Byte) /\ Len(w) = Len(h) + Len(s) /\ At(w, 0, h) /\ At(w, Len(h), s)
    BY <1>1, <1>4, AtFirst, AtLast
  <2> HIDE DEF w
  <2> QED BY <1>1, <1>4, <2>1 DEF At
<1> QED BY <1>1, <1>2, <1>3, <1>4, <1>5

\* The first size bytes of b are those of w, as far as w goes.
Agrees(b, w, size) == \A i \in 1..Len(w) : i <= size => b[i] = w[i]

\* deserialize() of a string: it is there if it has arrived as a whole.
LEMMA StringThere ==
  ASSUME NEW s \in Strings, NEW w \in Seq(Byte), Len(w) <= Size,
         NEW p \in Nat \ {0}, At(w, p - 1, String(s)),
         NEW b \in [1..Size -> Byte], NEW size \in 0..Size, Agrees(b, w, size)
  PROVE  /\ size >= p => After(b, p) = p + 1 + Len(s)
         /\ Ends(b, p, size) <=> size >= p + Len(s)
         /\ size >= p + Len(s) => Field(b, p) = s
<1> DEFINE l == Len(s)
           t == String(s)
<1>1. /\ s \in Seq(Byte) /\ l \in Byte /\ Len(t) = l + 1 /\ t[1] = l
      /\ \A i \in 1..l : t[i + 1] = s[i]
  BY StringOK
<1>2. l \in Nat /\ Size \in Nat
  BY <1>1, RadixOK, FormatAssumption
<1> HIDE DEF t
<1>3. /\ (p - 1) + (l + 1) <= Len(w)
      /\ \A i \in 1..(l + 1) : w[(p - 1) + i] = t[i]
  BY <1>1 DEF At, t
<1>4. w[p] = l /\ \A i \in 1..l : w[p + i] = s[i]
  <2>1. w[(p - 1) + 1] = t[1] /\ (p - 1) + 1 = p
    BY <1>2, <1>3
  <2>2. ASSUME NEW i \in 1..l PROVE w[p + i] = s[i]
    <3>1. i + 1 \in 1..(l + 1) /\ (p - 1) + (i + 1) = p + i
      BY <1>2
    <3>2. w[(p - 1) + (i + 1)] = t[i + 1]
      BY <1>3, <3>1
    <3> QED BY <1>1, <3>1, <3>2
  <2> QED BY <1>1, <2>1, <2>2
<1> HIDE DEF l
<1>5. p + l <= Len(w) /\ Len(w) \in Nat
  BY <1>2, <1>3
<1>6. size >= p => b[p] = l
  BY <1>2, <1>4, <1>5 DEF Agrees
<1>7. p \in 1..Size /\ b[p] \in Nat
  <2>1. p \in 1..Size
    BY <1>2, <1>5
  <2> QED BY <2>1, RadixOK
<1>8. Ends(b, p, size) <=> size >= p + l
  BY <1>2, <1>6, <1>7 DEF Ends
<1>9. ASSUME size >= p + l PROVE Field(b, p) = s
  <2>1. b[p] = l
    BY <1>2, <1>6, <1>9
  <2>2. Field(b, p) = SubSeq(b, p + 1, p + l)
    BY <2>1 DEF Field
  <2>3. \A i \in 1..l : b[p + i] = s[i]
    BY <1>2, <1>4, <1>5, <1>9 DEF Agrees
  <2>4. b \in Seq(Byte) /\ Len(b) = Size
    BY <1>2
  <2>5. p + l <= Size
    BY <1>2, <1>5
  <2>6. SubSeq(b, p + 1, p + l) = [i \in 1..l |-> b[p + i]]
    BY <1>2, <2>4, <2>5
  <2>7. s = [i \in 1..l |-> s[i]]
    BY <1>1 DEF l
  <2> QED BY <2>2, <2>3, <2>6, <2>7
<1> QED BY <1>6, <1>8, <1>9 DEF After, l

\* The same of a number.
LEMMA NumberThere ==
  ASSUME NEW bytes \in Nat, NEW n \in Numbers(bytes), NEW w \in Seq(Byte),
         NEW p \in Nat \ {0}, At(w, p - 1, Number(n, bytes)),
         NEW b, NEW size \in Nat, Agrees(b, w, size), size >= p - 1 + bytes
  PROVE  Value(b, p, bytes) = n
<1>0. n \in Nat
  BY DEF Numbers
<1> DEFINE t == Number(n, bytes)
<1>1. Len(t) = bytes
  BY <1>0, NumberOK
<1> HIDE DEF t
<1>2. (p - 1) + bytes <= Len(w) /\ \A i \in 1..bytes : w[(p - 1) + i] = t[i]
  BY <1>1 DEF At, t
<1>3. ASSUME NEW i \in 1..bytes PROVE b[p + i - 1] = t[i]
  <2>1. (p - 1) + i \in 1..Len(w) /\ (p - 1) + i <= size /\ p + i - 1 = (p - 1) + i
    BY <1>2
  <2> QED BY <1>2, <2>1 DEF Agrees
<1> QED BY <1>3, ValueOfNumber DEF t

(***************************************************************************)
(* The round trip of each kind of message.  Parses(m): whatever follows a  *)
(* message in the buffer, deserialize() returns it if all of it is there.  *)
(***************************************************************************)
Auths == [id : {MSG_AUTH}, name : Strings, pass : Strings]
Quits == [id : {MSG_QUIT}]
Statuses == [id : {MSG_RESP}, status : Byte]
ClientTexts == [id : {MSG_CLIENT_TEXT}, msg : Strings]
ServerTexts ==
  [id : {MSG_SERVER_TEXT}, addr : Numbers(AddrBytes), port : Numbers(PortBytes),
   time : Numbers(TimeBytes), name : Strings, msg : Strings]

LEMMA MessageKinds == Messages = Auths \cup Quits \cup Statuses \cup ClientTexts \cup ServerTexts
BY DEF Messages, Auths, Quits, Statuses, ClientTexts, ServerTexts

Formatted(m) ==
  /\ Serialize(m) \in Seq(Byte) /\ Len(Serialize(m)) = GetSize(m)
  /\ GetSize(m) \in 1..Size /\ Serialize(m)[1] = m.id

Parses(m) ==
  \A b \in [1..Size -> Byte], size \in 0..Size :
    Agrees(b, Serialize(m), size) /\ ~(m.id = MSG_RESP /\ size = 1) =>
      Deserialize(b, size) = IF size >= GetSize(m) THEN m ELSE nullptr

LEMMA Ids ==
  /\ MSG_AUTH = 0 /\ MSG_QUIT = 1 /\ MSG_RESP = 2 /\ MSG_CLIENT_TEXT = 3 /\ MSG_SERVER_TEXT = 4
  /\ {0, 1, 2, 3, 4} \subseteq Byte
BY RadixOK DEF MSG_AUTH, MSG_QUIT, MSG_RESP, MSG_CLIENT_TEXT, MSG_SERVER_TEXT, Byte

\* A buffer with something in it starts with the id of the message.
LEMMA FirstByte ==
  ASSUME NEW w \in Seq(Byte), Len(w) >= 1, NEW b, NEW size \in Nat, size >= 1,
         Agrees(b, w, size)
  PROVE  b[1] = w[1]
BY DEF Agrees

LEMMA OneByte ==
  ASSUME NEW x \in Byte
  PROVE  <<x>> \in Seq(Byte) /\ Len(<<x>>) = 1 /\ <<x>>[1] = x
OBVIOUS

LEMMA QuitParses ==
  ASSUME NEW m \in Quits
  PROVE  Formatted(m) /\ Parses(m)
<1>1. m.id = MSG_QUIT /\ m = [id |-> MSG_QUIT]
  BY DEF Quits
<1>2. Serialize(m) = <<1>> /\ GetSize(m) = 1
  BY <1>1, Ids DEF Serialize, SerializeQuit, GetSize, GetSizeQuit
<1>3. Serialize(m) \in Seq(Byte) /\ Len(Serialize(m)) = 1 /\ Serialize(m)[1] = 1
  BY <1>2, Ids, OneByte
<1>4. Size >= 1 /\ Size \in Nat
  BY FormatAssumption, RadixOK DEF Header
<1>5. Formatted(m)
  BY <1>1, <1>2, <1>3, <1>4, Ids DEF Formatted
<1>6. ASSUME NEW b \in [1..Size -> Byte], NEW size \in 0..Size, Agrees(b, Serialize(m), size)
      PROVE  Deserialize(b, size) = IF size >= GetSize(m) THEN m ELSE nullptr
  <2>1. CASE size < 1
    BY <1>2, <2>1 DEF Deserialize
  <2>2. CASE size >= 1
    <3>1. b[1] = 1
      BY <1>3, <1>4, <1>6, <2>2, FirstByte
    <3> QED BY <1>1, <1>2, <2>2, <3>1, Ids DEF Deserialize, DeserializeQuit
  <2> QED BY <1>4, <2>1, <2>2
<1> QED BY <1>5, <1>6 DEF Parses

LEMMA StatusParses ==
  ASSUME NEW m \in Statuses
  PROVE  Formatted(m) /\ Parses(m)
<1>1. m.id = MSG_RESP /\ m = [id |-> MSG_RESP, status |-> m.status] /\ m.status \in Byte
  BY DEF Statuses
<1> DEFINE w == <<MSG_RESP, m.status>>
<1>2. Serialize(m) = w /\ GetSize(m) = 2
  BY <1>1, Ids DEF Serialize, SerializeStatus, GetSize, GetSizeStatus
<1>3. w \in Seq(Byte) /\ Len(w) = 2 /\ w[1] = 2 /\ w[2] = m.status
  BY <1>1, Ids
<1> HIDE DEF w
<1>4. Size >= 2 /\ Size \in Nat
  BY FormatAssumption, RadixOK DEF Header
<1>5. Formatted(m)
  BY <1>1, <1>2, <1>3, <1>4, Ids DEF Formatted
<1>6. ASSUME NEW b \in [1..Size -> Byte], NEW size \in 0..Size, Agrees(b, w, size), size # 1
      PROVE  Deserialize(b, size) = IF size >= GetSize(m) THEN m ELSE nullptr
  <2>1. CASE size < 1
    BY <1>2, <2>1 DEF Deserialize
  <2>2. CASE size >= 2
    <3>1. b[1] = 2 /\ b[2] = m.status
      BY <1>3, <1>4, <1>6, <2>2 DEF Agrees
    <3> QED BY <1>1, <1>2, <2>2, <3>1, Ids DEF Deserialize, DeserializeStatus
  <2> QED BY <1>4, <1>6, <2>1, <2>2
<1> QED BY <1>1, <1>2, <1>5, <1>6 DEF Parses

LEMMA ClientTextParses ==
  ASSUME NEW m \in ClientTexts
  PROVE  Formatted(m) /\ Parses(m)
<1>1. /\ m.id = MSG_CLIENT_TEXT /\ m = [id |-> MSG_CLIENT_TEXT, msg |-> m.msg]
      /\ m.msg \in Strings
  BY DEF ClientTexts
<1> DEFINE s == m.msg
           l == Len(s)
           head == <<MSG_CLIENT_TEXT>>
           w == head \o String(s)
<1>2. Serialize(m) = w /\ GetSize(m) = 2 + l
  BY <1>1, Ids DEF Serialize, SerializeClientText, GetSize, GetSizeClientText
<1>3. s \in Strings /\ l \in Byte /\ String(s) \in Seq(Byte) /\ Len(String(s)) = l + 1
  BY <1>1, StringOK
<1>4. head \in Seq(Byte) /\ Len(head) = 1 /\ head[1] = 3
  BY Ids, OneByte
<1> HIDE DEF s, head
<1>5. w \in Seq(Byte) /\ Len(w) = Len(head) + Len(String(s)) /\ At(w, 0, head)
      /\ At(w, Len(head), String(s))
  BY <1>3, <1>4, AtFirst, AtLast
<1> HIDE DEF w, l
<1>6. Len(w) = 2 + l /\ w[1] = 3 /\ At(w, 2 - 1, String(s))
  <2>1. w[0 + 1] = head[1]
    BY <1>4, <1>5 DEF At
  <2> QED BY <1>3, <1>4, <1>5, <2>1, RadixOK
<1>7. l \in Nat /\ Size \in Nat /\ 2 + l <= Size
  BY <1>3, FormatAssumption, RadixOK DEF Header, Byte
<1>8. Formatted(m)
  BY <1>1, <1>2, <1>5, <1>6, <1>7, Ids DEF Formatted
<1>9. ASSUME NEW b \in [1..Size -> Byte], NEW size \in 0..Size, Agrees(b, w, size)
      PROVE  Deserialize(b, size) = IF size >= GetSize(m) THEN m ELSE nullptr
  <2>1. CASE size < 1
    BY <1>2, <1>7, <2>1 DEF Deserialize
  <2>2. CASE size >= 1
    <3>1. b[1] = 3
      BY <1>5, <1>6, <1>7, <1>9, <2>2, FirstByte
    <3>2. Deserialize(b, size) = DeserializeClientText(b, size)
      BY <1>7, <2>2, <3>1, Ids DEF Deserialize
    <3>3. /\ Ends(b, 2, size) <=> size >= 2 + l
          /\ size >= 2 + l => Field(b, 2) = s
      BY <1>3, <1>5, <1>6, <1>7, <1>9, StringThere DEF l
    <3> QED BY <1>1, <1>2, <3>2, <3>3 DEF DeserializeClientText, s
  <2> QED BY <1>7, <2>1, <2>2
<1> QED BY <1>2, <1>8, <1>9 DEF Parses

LEMMA HeaderOK ==
  /\ AddrBytes \in Nat \ {0} /\ PortBytes \in Nat \ {0} /\ TimeBytes \in Nat \ {0}
  /\ Header \in Nat /\ Header = AddrBytes + PortBytes + TimeBytes
BY FormatAssumption DEF Header

LEMMA AuthParses ==
  ASSUME NEW m \in Auths
  PROVE  Formatted(m) /\ Parses(m)
<1>1. /\ m.id = MSG_AUTH /\ m = [id |-> MSG_AUTH, name |-> m.name, pass |-> m.pass]
      /\ m.name \in Strings /\ m.pass \in Strings
  BY DEF Auths
<1> DEFINE s == m.name
           t == m.pass
           k == Len(s)
           l == Len(t)
           head == <<MSG_AUTH>>
           v == head \o String(s)
           w == v \o String(t)
<1>2. Serialize(m) = w /\ GetSize(m) = 3 + k + l
  BY <1>1, Ids DEF Serialize, SerializeAuth, GetSize, GetSizeAuth
<1>3. /\ s \in Strings /\ k \in Byte /\ String(s) \in Seq(Byte) /\ Len(String(s)) = k + 1
      /\ t \in Strings /\ l \in Byte /\ String(t) \in Seq(Byte) /\ Len(String(t)) = l + 1
  BY <1>1, StringOK
<1>4. head \in Seq(Byte) /\ Len(head) = 1 /\ head[1] = 0
  BY Ids, OneByte
<1> HIDE DEF s, t, head
<1>5. v \in Seq(Byte) /\ Len(v) = Len(head) + Len(String(s)) /\ At(v, 0, head)
      /\ At(v, Len(head), String(s))
  BY <1>3, <1>4, AtFirst, AtLast
<1> HIDE DEF v
<1>6. w \in Seq(Byte) /\ Len(w) = Len(v) + Len(String(t)) /\ At(w, 0, head)
      /\ At(w, 1, String(s)) /\ At(w, Len(v), String(t))
  <2>1. At(w, 0, head) /\ At(w, 1, String(s))
    BY <1>3, <1>4, <1>5, AtStays
  <2> QED BY <1>3, <1>5, <2>1, AtFirst, AtLast
<1> HIDE DEF w, k, l
<1>7. k \in Nat /\ l \in Nat /\ Size \in Nat /\ 3 + k + l <= Size
  <2>1. k \in 0..(Radix - 1) /\ l \in 0..(Radix - 1)
    BY <1>3 DEF Byte
  <2> QED BY <2>1, FormatAssumption, HeaderOK, RadixOK
<1>8. /\ Len(w) = 3 + k + l /\ w[1] = 0
      /\ At(w, 2 - 1, String(s)) /\ At(w, (3 + k) - 1, String(t))
  <2>1. w[0 + 1] = head[1]
    BY <1>4, <1>6 DEF At
  <2>2. Len(v) = (3 + k) - 1
    BY <1>3, <1>4, <1>5, <1>7
  <2> QED BY <1>3, <1>4, <1>6, <1>7, <2>1, <2>2
<1>9. Formatted(m)
  BY <1>1, <1>2, <1>6, <1>7, <1>8, Ids DEF Formatted
<1>10. ASSUME NEW b \in [1..Size -> Byte], NEW size \in 0..Size, Agrees(b, w, size)
       PROVE  Deserialize(b, size) = IF size >= GetSize(m) THEN m ELSE nullptr
  <2>1. CASE size < 1
    BY <1>2, <1>7, <2>1 DEF Deserialize
  <2>2. CASE size >= 1
    <3>1. b[1] = 0
      BY <1>6, <1>7, <1>8, <1>10, <2>2, FirstByte
    <3>2. Deserialize(b, size) = DeserializeAuth(b, size)
      BY <1>7, <2>2, <3>1, Ids DEF Deserialize
    <3>3. /\ size >= 2 => After(b, 2) = 2 + 1 + k
          /\ Ends(b, 2, size) <=> size >= 2 + k
          /\ size >= 2 + k => Field(b, 2) = s
      <4> DEFINE o == 2
      <4>1. o \in Nat \ {0} /\ At(w, o - 1, String(s)) /\ Len(w) <= Size
        BY <1>7, <1>8
      <4> HIDE DEF o
      <4>2. /\ size >= o => After(b, o) = o + 1 + k
            /\ Ends(b, o, size) <=> size >= o + k
            /\ size >= o + k => Field(b, o) = s
        BY <1>3, <1>6, <1>10, <4>1, StringThere DEF k
      <4> QED BY <4>2 DEF o
    <3> DEFINE p == 3 + k
    <3>4. p \in Nat \ {0} /\ At(w, p - 1, String(t))
      BY <1>7, <1>8
    <3> HIDE DEF p
    <3>5. /\ Ends(b, p, size) <=> size >= p + l
          /\ size >= p + l => Field(b, p) = t
      BY <1>3, <1>6, <1>7, <1>8, <1>10, <3>4, StringThere DEF l
    <3>6. CASE size >= 2 + k
      <4>1. After(b, 2) = p /\ p + l = 3 + k + l
        BY <1>7, <3>3, <3>6 DEF p
      <4> QED BY <1>1, <1>2, <1>7, <3>2, <3>3, <3>5, <3>6, <4>1 DEF DeserializeAuth, s, t
    <3>7. CASE ~(size >= 2 + k)
      BY <1>2, <1>7, <3>2, <3>3, <3>7 DEF DeserializeAuth
    <3> QED BY <3>6, <3>7
  <2> QED BY <1>7, <2>1, <2>2
<1> QED BY <1>2, <1>9, <1>10, Ids DEF Parses

LEMMA ServerTextParses ==
  ASSUME NEW m \in ServerTexts
  PROVE  Formatted(m) /\ Parses(m)
<1>1. /\ m.id = MSG_SERVER_TEXT
      /\ m = [id |-> MSG_SERVER_TEXT, addr |-> m.addr, port |-> m.port, time |-> m.time,
              name |-> m.name, msg |-> m.msg]
      /\ m.addr \in Numbers(AddrBytes) /\ m.port \in Numbers(PortBytes)
      /\ m.time \in Numbers(TimeBytes) /\ m.name \in Strings /\ m.msg \in Strings
  BY DEF ServerTexts
<1> DEFINE s == m.name
           t == m.msg
           k == Len(s)
           l == Len(t)
           n1 == Number(m.addr, AddrBytes)
           n2 == Number(m.port, PortBytes)
           n3 == Number(m.time, TimeBytes)
           head == <<MSG_SERVER_TEXT>>
           v1 == head \o n1
           v2 == v1 \o n2
           v3 == v2 \o n3
           v4 == v3 \o String(s)
           w == v4 \o String(t)
<1>2. Serialize(m) = w /\ GetSize(m) = 3 + Header + k + l
  BY <1>1, Ids DEF Serialize, SerializeServerText, GetSize, GetSizeServerText
<1>3. /\ s \in Strings /\ k \in Byte /\ String(s) \in Seq(Byte) /\ Len(String(s)) = k + 1
      /\ t \in Strings /\ l \in Byte /\ String(t) \in Seq(Byte) /\ Len(String(t)) = l + 1
  BY <1>1, StringOK
<1>4. /\ n1 \in Seq(Byte) /\ Len(n1) = AddrBytes
      /\ n2 \in Seq(Byte) /\ Len(n2) = PortBytes
      /\ n3 \in Seq(Byte) /\ Len(n3) = TimeBytes
  BY <1>1, HeaderOK, NumberOK DEF Numbers
<1>5. head \in Seq(Byte) /\ Len(head) = 1 /\ head[1] = 4
  BY Ids, OneByte
<1> HIDE DEF s, t, n1, n2, n3, head
<1>6. v1 \in Seq(Byte) /\ Len(v1) = 1 + AddrBytes /\ At(v1, 0, head) /\ At(v1, 1, n1)
  BY <1>4, <1>5, AtFirst, AtLast
<1> HIDE DEF v1
<1>7. /\ v2 \in Seq(Byte) /\ Len(v2) = 1 + AddrBytes + PortBytes
      /\ At(v2, 0, head) /\ At(v2, 1, n1) /\ At(v2, 1 + AddrBytes, n2)
  <2>1. At(v2, 0, head) /\ At(v2, 1, n1)
    BY <1>4, <1>5, <1>6, AtStays
  <2> QED BY <1>4, <1>6, <2>1, AtFirst, AtLast
<1> HIDE DEF v2
<1>8. /\ v3 \in Seq(Byte) /\ Len(v3) = 1 + Header
      /\ At(v3, 0, head) /\ At(v3, 1, n1) /\ At(v3, 1 + AddrBytes, n2)
      /\ At(v3, 1 + AddrBytes + PortBytes, n3)
  <2>1. At(v3, 0, head) /\ At(v3, 1, n1) /\ At(v3, 1 + AddrBytes, n2)
    BY <1>4, <1>5, <1>7, HeaderOK, AtStays
  <2>2. v3 \in Seq(Byte) /\ Len(v3) = Len(v2) + Len(n3) /\ At(v3, Len(v2), n3)
    BY <1>4, <1>7, AtFirst, AtLast
  <2> QED BY <1>4, <1>7, <2>1, <2>2, HeaderOK
<1> HIDE DEF v3
<1>9. /\ v4 \in Seq(Byte) /\ Len(v4) = 2 + Header + k
      /\ At(v4, 0, head) /\ At(v4, 1, n1) /\ At(v4, 1 + AddrBytes, n2)
      /\ At(v4, 1 + AddrBytes + PortBytes, n3) /\ At(v4, 1 + Header, String(s))
  <2>1. /\ At(v4, 0, head) /\ At(v4, 1, n1) /\ At(v4, 1 + AddrBytes, n2)
        /\ At(v4, 1 + AddrBytes + PortBytes, n3)
    BY <1>3, <1>4, <1>5, <1>8, HeaderOK, AtStays
  <2>2. /\ v4 \in Seq(Byte) /\ Len(v4) = Len(v3) + Len(String(s))
        /\ At(v4, Len(v3), String(s))
    BY <1>3, <1>8, AtFirst, AtLast
  <2> QED BY <1>3, <1>8, <2>1, <2>2, HeaderOK, RadixOK
<1> HIDE DEF v4
<1>10. /\ w \in Seq(Byte) /\ Len(w) = Len(v4) + Len(String(t)) /\ At(w, 0, head)
       /\ At(w, 1, n1) /\ At(w, 1 + AddrBytes, n2) /\ At(w, 1 + AddrBytes + PortBytes, n3)
       /\ At(w, 1 + Header, String(s)) /\ At(w, Len(v4), String(t))
  <2>1. /\ At(w, 0, head) /\ At(w, 1, n1) /\ At(w, 1 + AddrBytes, n2)
        /\ At(w, 1 + AddrBytes + PortBytes, n3) /\ At(w, 1 + Header, String(s))
    BY <1>3, <1>4, <1>5, <1>9, HeaderOK, AtStays
  <2> QED BY <1>3, <1>9, <2>1, AtFirst, AtLast
<1> HIDE DEF w, k, l
<1>11. k \in Nat /\ l \in Nat /\ Size \in Nat /\ 3 + Header + k + l <= Size
  BY <1>3, FormatAssumption, HeaderOK, RadixOK DEF Byte
<1>12. /\ Len(w) = 3 + Header + k + l /\ w[1] = 4
       /\ At(w, (2 + Header) - 1, String(s)) /\ At(w, (3 + Header + k) - 1, String(t))
       /\ At(w, 2 - 1, n1) /\ At(w, (2 + AddrBytes) - 1, n2)
       /\ At(w, (2 + AddrBytes + PortBytes) - 1, n3)
  <2>1. w[0 + 1] = head[1]
    BY <1>5, <1>10 DEF At
  <2>2. /\ Len(v4) = (3 + Header + k) - 1 /\ 1 + Header = (2 + Header) - 1
        /\ 1 + AddrBytes = (2 + AddrBytes) - 1 /\ 2 - 1 = 1
        /\ 1 + AddrBytes + PortBytes = (2 + AddrBytes + PortBytes) - 1
    BY <1>9, <1>11, HeaderOK
  <2>3. Len(w) = 3 + Header + k + l
    BY <1>3, <1>9, <1>10, <1>11, HeaderOK
  <2> QED BY <1>5, <1>10, <2>1, <2>2, <2>3
<1>13. Formatted(m)
  <2>1. GetSize(m) \in 1..Size
    BY <1>2, <1>11, HeaderOK
  <2>2. Serialize(m)[1] = m.id
    BY <1>1, <1>2, <1>12, Ids
  <2> QED BY <1>2, <1>10, <1>12, <2>1, <2>2 DEF Formatted
<1>14. ASSUME NEW b \in [1..Size -> Byte], NEW size \in 0..Size, Agrees(b, w, size)
       PROVE  Deserialize(b, size) = IF size >= GetSize(m) THEN m ELSE nullptr
  <2>1. CASE size < 1
    BY <1>2, <1>11, <2>1, HeaderOK DEF Deserialize
  <2>2. CASE size >= 1
    <3>1. b[1] = 4
      <4>1. Len(w) >= 1
        BY <1>11, <1>12, HeaderOK
      <4> QED BY <1>10, <1>11, <1>12, <1>14, <2>2, <4>1, FirstByte
    <3>2. Deserialize(b, size) = DeserializeServerText(b, size)
      BY <1>11, <2>2, <3>1, Ids DEF Deserialize
    <3> DEFINE p == 2 + Header
               q == 3 + Header + k
    <3>3. p \in Nat \ {0} /\ At(w, p - 1, String(s)) /\ Len(w) <= Size
      BY <1>11, <1>12, HeaderOK
    <3>4. q \in Nat \ {0} /\ At(w, q - 1, String(t))
      BY <1>11, <1>12, HeaderOK
    <3>5. q = p + 1 + k /\ q + l = 3 + Header + k + l
      BY <1>11, HeaderOK
    <3> HIDE DEF p, q
    <3>6. /\ size >= p => After(b, p) = p + 1 + k
          /\ Ends(b, p, size) <=> size >= p + k
          /\ size >= p + k => Field(b, p) = s
      BY <1>3, <1>10, <1>14, <3>3, StringThere DEF k
    <3>7. /\ Ends(b, q, size) <=> size >= q + l
          /\ size >= q + l => Field(b, q) = t
      BY <1>3, <1>10, <1>14, <3>3, <3>4, StringThere DEF l
    <3>8. CASE size >= q + l
      <4>1. size >= p /\ size >= p + k /\ size >= q /\ After(b, p) = q
        BY <1>11, <3>3, <3>4, <3>5, <3>6, <3>8
      <4>2. size >= GetSize(m)
        BY <1>2, <3>5, <3>8
      <4>3. Value(b, 2, AddrBytes) = m.addr
        <5> DEFINE r == 2
        <5>1. size >= r - 1 + AddrBytes /\ r \in Nat \ {0} /\ At(w, r - 1, n1)
          BY <1>11, <1>12, <4>1, HeaderOK DEF p
        <5> HIDE DEF r
        <5>2. Value(b, r, AddrBytes) = m.addr
          BY <1>1, <1>10, <1>14, <5>1, HeaderOK, NumberThere DEF n1
        <5> QED BY <5>2 DEF r
      <4>4. Value(b, 2 + AddrBytes, PortBytes) = m.port
        <5> DEFINE r == 2 + AddrBytes
        <5>1. size >= r - 1 + PortBytes /\ r \in Nat \ {0} /\ At(w, r - 1, n2)
          BY <1>11, <1>12, <4>1, HeaderOK DEF p
        <5> HIDE DEF r
        <5>2. Value(b, r, PortBytes) = m.port
          BY <1>1, <1>10, <1>14, <5>1, HeaderOK, NumberThere DEF n2
        <5> QED BY <5>2 DEF r
      <4>5. Value(b, 2 + AddrBytes + PortBytes, TimeBytes) = m.time
        <5> DEFINE r == 2 + AddrBytes + PortBytes
        <5>1. size >= r - 1 + TimeBytes /\ r \in Nat \ {0} /\ At(w, r - 1, n3)
          BY <1>11, <1>12, <4>1, HeaderOK DEF p
        <5> HIDE DEF r
        <5>2. Value(b, r, TimeBytes) = m.time
          BY <1>1, <1>10, <1>14, <5>1, HeaderOK, NumberThere DEF n3
        <5> QED BY <5>2 DEF r
      <4>6. Field(b, p) = m.name /\ Field(b, q) = m.msg /\ Ends(b, p, size) /\ Ends(b, q, size)
        BY <3>6, <3>7, <3>8, <4>1 DEF s, t
      <4> QED
        BY <1>1, <3>2, <4>1, <4>2, <4>3, <4>4, <4>5, <4>6 DEF DeserializeServerText, p
    <3>9. CASE ~(size >= q + l)
      <4>1. ~(size >= GetSize(m))
        BY <1>2, <3>5, <3>9
      <4>2. ~(size >= p /\ Ends(b, p, size) /\ size >= After(b, p) /\ Ends(b, After(b, p), size))
        BY <1>11, <3>3, <3>5, <3>6, <3>7, <3>9
      <4> QED BY <3>2, <4>1, <4>2 DEF DeserializeServerText, p
    <3> QED BY <3>8, <3>9
  <2> QED BY <1>11, <2>1, <2>2
<1> QED BY <1>1, <1>2, <1>13, <1>14, Ids DEF Parses

\* Every message is written as GetSize says, and read back when all of it is there.
LEMMA RoundTrip ==
  ASSUME NEW m \in Messages
  PROVE  Formatted(m) /\ Parses(m) /\ m # nullptr
<1>1. m # nullptr
  <2>1. m.id \in {0, 1, 2, 3, 4}
    BY MessageKinds, Ids DEF Auths, Quits, Statuses, ClientTexts, ServerTexts
  <2>2. nullptr.id = Radix
    BY DEF nullptr
  <2> QED BY <2>1, <2>2, RadixOK
<1> QED
  BY <1>1, MessageKinds, AuthParses, QuitParses, StatusParses, ClientTextParses, ServerTextParses

(***************************************************************************)
(* The bytes of a sequence of messages.                                    *)
(***************************************************************************)
IsBytes(f, s) ==
  f = [i \in 0..Len(s) |-> IF i = 0 THEN <<>> ELSE f[i - 1] \o Serialize(s[i])]

BytesFor(s) == CHOOSE f : IsBytes(f, s)

LEMMA BytesIs ==
  ASSUME NEW s
  PROVE  Bytes(s) = BytesFor(s)[Len(s)]
BY DEF Bytes, BytesFor, IsBytes

LEMMA BytesForType ==
  ASSUME NEW s \in Seq(Messages)
  PROVE  /\ BytesFor(s) \in [0..Len(s) -> Seq(Byte)]
         /\ BytesFor(s)[0] = <<>>
         /\ \A i \in 1..Len(s) : BytesFor(s)[i] = BytesFor(s)[i - 1] \o Serialize(s[i])
<1> DEFINE n == Len(s)
           V == Seq(Byte)
           step == [i \in 1..n |-> [v \in V |-> v \o Serialize(s[i])]]
<1>0. n \in Nat /\ <<>> \in V /\ \A i \in 1..n : s[i] \in Messages
  OBVIOUS
<1>1. step \in [1..n -> [V -> V]]
  <2>1. ASSUME NEW i \in 1..n, NEW v \in V PROVE v \o Serialize(s[i]) \in V
    <3>1. Serialize(s[i]) \in Seq(Byte)
      BY <1>0, RoundTrip DEF Formatted
    <3> QED BY <3>1
  <2> HIDE DEF V, n
  <2> QED BY <2>1
<1>2. PICK f \in [0..n -> V] : Recursion(f, n, <<>>, step)
  <2> HIDE DEF step, V, n
  <2> QED BY <1>0, <1>1, RecursiveFunction
<1>3. f[0] = <<>> /\ \A i \in 1..n : f[i] = f[i - 1] \o Serialize(s[i])
  <2>1. ASSUME NEW i \in 1..n PROVE f[i] = f[i - 1] \o Serialize(s[i])
    <3> HIDE DEF V, n
    <3>1. f[i] = step[i][f[i - 1]]
      <4> HIDE DEF step
      <4> QED BY <1>2 DEF Recursion
    <3>2. f[i - 1] \in V
      BY <1>0, <1>2
    <3> QED BY <3>1, <3>2
  <2> HIDE DEF step, V, n
  <2> QED BY <1>2, <2>1 DEF Recursion
<1> HIDE DEF step, V
<1>4. IsBytes(f, s)
  <2> HIDE DEF n
  <2>1. ASSUME NEW i \in 0..n PROVE f[i] = IF i = 0 THEN <<>> ELSE f[i - 1] \o Serialize(s[i])
    <3>1. i = 0 \/ i \in 1..n
      BY <1>0
    <3> QED BY <1>3, <3>1
  <2>2. f = [i \in 0..n |-> f[i]]
    BY <1>2
  <2>3. f = [i \in 0..n |-> IF i = 0 THEN <<>> ELSE f[i - 1] \o Serialize(s[i])]
    BY <2>1, <2>2, Zenon
  <2> QED BY <2>3 DEF IsBytes, n
<1> DEFINE g == BytesFor(s)
<1>5. IsBytes(g, s)
  BY <1>4 DEF BytesFor
<1> HIDE DEF g
<1>6. g = [i \in 0..n |-> IF i = 0 THEN <<>> ELSE g[i - 1] \o Serialize(s[i])]
  BY <1>5 DEF IsBytes
<1> HIDE DEF n
<1>7. g[0] = <<>> /\ \A i \in 1..n : g[i] = g[i - 1] \o Serialize(s[i])
  <2>1. 0 \in 0..n /\ \A i \in 1..n : i \in 0..n /\ i # 0
    BY <1>0
  <2> QED BY <1>6, <2>1, Zenon
<1>8. Alike(f, g, n)
  BY <1>3, <1>7 DEF Alike
<1>9. \A i \in 0..n : f[i] = g[i]
  BY <1>0, <1>8, SameRecursion
<1>10. g \in [0..n -> V]
  <2>1. g = [i \in 0..n |-> g[i]]
    BY <1>6
  <2>2. \A i \in 0..n : g[i] \in V
    BY <1>2, <1>9
  <2> QED BY <2>1, <2>2, Zenon
<1> QED BY <1>7, <1>10 DEF g, n, V

LEMMA BytesOK ==
  ASSUME NEW s \in Seq(Messages)
  PROVE  Bytes(s) \in Seq(Byte)
<1>1. Len(s) \in 0..Len(s)
  OBVIOUS
<1> QED BY <1>1, BytesIs, BytesForType

LEMMA BytesOfNone == Bytes(<<>>) = <<>>
<1> DEFINE s == <<>>
<1>1. s \in Seq(Messages) /\ Len(s) = 0
  OBVIOUS
<1> HIDE DEF s
<1>2. Bytes(s) = <<>>
  BY <1>1, BytesIs, BytesForType
<1> QED BY <1>2 DEF s

LEMMA BytesAppend ==
  ASSUME NEW s \in Seq(Messages), NEW m \in Messages
  PROVE  Bytes(Append(s, m)) = Bytes(s) \o Serialize(m)
<1> DEFINE t == Append(s, m)
           n == Len(s)
           f == BytesFor(s)
           g == BytesFor(t)
<1>1. /\ t \in Seq(Messages) /\ Len(t) = n + 1 /\ n \in Nat /\ t[n + 1] = m
      /\ \A i \in 1..n : t[i] = s[i]
  OBVIOUS
<1> HIDE DEF t
<1>2. f[0] = <<>> /\ \A i \in 1..n : f[i] = f[i - 1] \o Serialize(s[i])
  BY BytesForType
<1>3. g[0] = <<>> /\ \A i \in 1..(n + 1) : g[i] = g[i - 1] \o Serialize(t[i])
  <2>1. g[0] = <<>> /\ \A i \in 1..Len(t) : g[i] = g[i - 1] \o Serialize(t[i])
    BY <1>1, BytesForType
  <2> HIDE DEF g, n
  <2> QED BY <1>1, <2>1
<1>4. Bytes(s) = f[n] /\ Bytes(t) = g[n + 1]
  BY <1>1, BytesIs
<1> HIDE DEF f, g, n
<1>5. Alike(f, g, n)
  <2>1. \A i \in 1..n : i \in 1..(n + 1) /\ t[i] = s[i]
    BY <1>1
  <2> QED BY <1>2, <1>3, <2>1 DEF Alike
<1>6. f[n] = g[n]
  BY <1>1, <1>5, SameRecursion
<1>7. g[n + 1] = g[n] \o Serialize(m)
  <2>1. n + 1 \in 1..(n + 1) /\ (n + 1) - 1 = n
    BY <1>1
  <2>2. g[n + 1] = g[(n + 1) - 1] \o Serialize(t[n + 1])
    BY <1>3, <2>1
  <2> QED BY <1>1, <2>1, <2>2
<1> QED BY <1>4, <1>6, <1>7 DEF t

\* The bytes of the first messages.
Upto(s, k) == Bytes(SubSeq(s, 1, k))

LEMMA FirstMessages ==
  ASSUME NEW s \in Seq(Messages), NEW k \in Nat, k <= Len(s)
  PROVE  /\ SubSeq(s, 1, k) \in Seq(Messages) /\ Len(SubSeq(s, 1, k)) = k
         /\ \A i \in 1..k : SubSeq(s, 1, k)[i] = s[i]
         /\ Upto(s, k) \in Seq(Byte)
<1>1. /\ SubSeq(s, 1, k) \in Seq(Messages) /\ Len(SubSeq(s, 1, k)) = k
      /\ \A i \in 1..k : SubSeq(s, 1, k)[i] = s[i]
  OBVIOUS
<1> QED BY <1>1, BytesOK DEF Upto

LEMMA UptoNext ==
  ASSUME NEW s \in Seq(Messages), NEW k \in Nat, k < Len(s)
  PROVE  Upto(s, k + 1) = Upto(s, k) \o Serialize(s[k + 1])
<1> DEFINE t == SubSeq(s, 1, k)
<1>1. SubSeq(s, 1, k + 1) = Append(t, s[k + 1]) /\ t \in Seq(Messages) /\ s[k + 1] \in Messages
  OBVIOUS
<1> HIDE DEF t
<1>2. Bytes(Append(t, s[k + 1])) = Bytes(t) \o Serialize(s[k + 1])
  BY <1>1, BytesAppend
<1> QED BY <1>1, <1>2 DEF Upto, t

\* What the bytes of all messages say behind those of the first k.
LEMMA UptoBegins ==
  ASSUME NEW s \in Seq(Messages), NEW k \in Nat, NEW n \in Nat, k <= n, n <= Len(s)
  PROVE  At(Upto(s, n), 0, Upto(s, k))
<1> DEFINE S == {j \in Nat : k <= j /\ j <= Len(s) => At(Upto(s, j), 0, Upto(s, k))}
<1>1. 0 \in S
  <2>1. k <= 0 => k = 0
    OBVIOUS
  <2>2. k <= 0 => At(Upto(s, 0), 0, Upto(s, k))
    BY <2>1, FirstMessages DEF At
  <2> QED BY <2>2
<1>2. ASSUME NEW j \in Nat, j \in S PROVE j + 1 \in S
  <2> SUFFICES ASSUME k <= j + 1, j + 1 <= Len(s)
               PROVE  At(Upto(s, j + 1), 0, Upto(s, k))
    OBVIOUS
  <2>0. Upto(s, k) \in Seq(Byte)
    BY FirstMessages
  <2>1. CASE k = j + 1
    <3> DEFINE u == Upto(s, j + 1)
    <3>1. u \in Seq(Byte) /\ Upto(s, k) = u
      BY <2>0, <2>1
    <3> HIDE DEF u
    <3>2. At(u, 0, u)
      BY <3>1 DEF At
    <3> QED BY <3>1, <3>2 DEF u
  <2>2. CASE k <= j
    <3>1. At(Upto(s, j), 0, Upto(s, k)) /\ j < Len(s)
      BY <1>2, <2>2
    <3>2. Upto(s, j) \in Seq(Byte) /\ Serialize(s[j + 1]) \in Seq(Byte)
      <4>1. s[j + 1] \in Messages
        OBVIOUS
      <4> QED BY <3>1, <4>1, FirstMessages, RoundTrip DEF Formatted
    <3>3. At(Upto(s, j) \o Serialize(s[j + 1]), 0, Upto(s, k))
      BY <2>0, <3>1, <3>2, AtStays
    <3> QED BY <3>1, <3>3, UptoNext
  <2> QED BY <2>1, <2>2
<1>3. n \in S
  <2> HIDE DEF S
  <2> QED BY <1>1, <1>2, NatSetInduction
<1> QED BY <1>3

LEMMA UptoAll ==
  ASSUME NEW s \in Seq(Messages)
  PROVE  Upto(s, Len(s)) = Bytes(s)
BY WholeSubSeq DEF Upto

\* Message k + 1 stands behind the bytes of the first k.
LEMMA NextStands ==
  ASSUME NEW s \in Seq(Messages), NEW k \in Nat, k < Len(s)
  PROVE  At(Bytes(s), Len(Upto(s, k)), Serialize(s[k + 1]))
<1> DEFINE u == Upto(s, k)
           v == Serialize(s[k + 1])
           x == Upto(s, k + 1)
           t == Bytes(s)
<1>1. u \in Seq(Byte) /\ v \in Seq(Byte) /\ x = u \o v
  <2>1. s[k + 1] \in Messages
    OBVIOUS
  <2> QED BY <2>1, FirstMessages, RoundTrip, UptoNext DEF Formatted
<1>2. At(t, 0, x)
  <2>1. Len(s) \in Nat /\ k + 1 <= Len(s)
    OBVIOUS
  <2> QED BY <2>1, UptoBegins, UptoAll
<1> HIDE DEF u, v, x, t
<1>3. At(x, Len(u), v) /\ Len(x) = Len(u) + Len(v) /\ Len(u) \in Nat /\ Len(v) \in Nat
  BY <1>1, AtFirst, AtLast
<1>4. Len(u) + Len(v) <= Len(t)
  BY <1>2, <1>3 DEF At
<1>5. ASSUME NEW i \in 1..Len(v) PROVE t[Len(u) + i] = v[i]
  <2>1. Len(u) + i \in 1..Len(x)
    BY <1>3
  <2>2. t[0 + (Len(u) + i)] = x[Len(u) + i]
    BY <1>2, <2>1 DEF At
  <2>3. 0 + (Len(u) + i) = Len(u) + i
    BY <1>3
  <2>4. x[Len(u) + i] = v[i]
    BY <1>3 DEF At
  <2> QED BY <2>2, <2>3, <2>4
<1>6. At(t, Len(u), v)
  BY <1>4, <1>5 DEF At
<1> QED BY <1>6 DEF u, v, t

\* w is u, then pos bytes of the buffer b, then rest.
Parts(w, u, b, pos, rest) == w = u \o SubSeq(b, 1, pos) \o rest

\* The buffer holds the beginning of the next message that was written, and
\* nothing if there is none.
LEMMA Stored ==
  ASSUME NEW s \in Seq(Messages), NEW k \in Nat, k <= Len(s),
         NEW b \in [1..Size -> Byte], NEW pos \in 0..Size, NEW rest \in Seq(Byte),
         NEW w \in Seq(Byte), At(Bytes(s), 0, w),
         Parts(w, Upto(s, k), b, pos, rest)
  PROVE  /\ k = Len(s) => pos = 0 /\ rest = <<>>
         /\ k < Len(s) => Agrees(b, Serialize(s[k + 1]), pos)
         /\ Len(w) - Len(rest) = Len(Upto(s, k)) + pos
<1> DEFINE u == Upto(s, k)
           a == SubSeq(b, 1, pos)
           t == Bytes(s)
           v == Serialize(s[k + 1])
<1>1. u \in Seq(Byte)
  BY FirstMessages
<1>2. a \in Seq(Byte) /\ Len(a) = pos /\ (\A i \in 1..pos : a[i] = b[i]) /\ pos \in Nat
  <2>1. Size \in Nat /\ b \in Seq(Byte) /\ Len(b) = Size
    BY FormatAssumption
  <2> QED BY <2>1
<1>3. t \in Seq(Byte)
  BY BytesOK
<1>4. k = Len(s) => u = t
  BY UptoAll
<1>5. k < Len(s) => At(t, Len(u), v)
  BY NextStands
<1>6. k < Len(s) => v \in Seq(Byte)
  BY RoundTrip DEF Formatted
<1> HIDE DEF u, a, t, v
<1>7. /\ Len(w) = Len(u) + pos + Len(rest)
      /\ \A i \in 1..pos : w[Len(u) + i] = a[i]
  <2> DEFINE x == u \o a
  <2>1. /\ x \in Seq(Byte) /\ Len(x) = Len(u) + pos /\ At(x, Len(u), a) /\ w = x \o rest
    BY <1>1, <1>2, AtFirst, AtLast DEF u, a, Parts
  <2> HIDE DEF x
  <2>2. Len(w) = Len(x) + Len(rest) /\ At(w, 0, x)
    BY <2>1, AtFirst
  <2>3. Len(u) \in Nat /\ Len(rest) \in Nat
    BY <1>1
  <2>4. ASSUME NEW i \in 1..pos PROVE w[Len(u) + i] = a[i]
    <3>1. Len(u) + i \in 1..Len(x) /\ 0 + (Len(u) + i) = Len(u) + i
      BY <1>2, <2>1, <2>3
    <3>2. w[0 + (Len(u) + i)] = x[Len(u) + i]
      BY <2>2, <3>1 DEF At
    <3>3. x[Len(u) + i] = a[i]
      BY <1>2, <2>1 DEF At
    <3> QED BY <3>1, <3>2, <3>3
  <2> QED BY <2>1, <2>2, <2>3, <2>4
<1>8. Len(w) <= Len(t) /\ (\A i \in 1..Len(w) : t[i] = w[i]) /\ Len(w) \in Nat
  <2>1. At(t, 0, w)
    BY DEF t
  <2>2. \A i \in 1..Len(w) : 0 + i = i
    OBVIOUS
  <2> QED BY <2>1, <2>2 DEF At
<1>9. Len(u) \in Nat /\ Len(rest) \in Nat /\ Len(t) \in Nat
  BY <1>1, <1>3
<1>10. Len(w) - Len(rest) = Len(u) + pos
  BY <1>2, <1>7, <1>9
<1>11. ASSUME k = Len(s) PROVE pos = 0 /\ rest = <<>>
  <2>1. pos = 0 /\ Len(rest) = 0
    BY <1>2, <1>4, <1>7, <1>8, <1>9, <1>11
  <2> QED BY <2>1
<1>12. ASSUME k < Len(s) PROVE Agrees(b, v, pos)
  <2>1. ASSUME NEW i \in 1..Len(v), i <= pos PROVE b[i] = v[i]
    <3>1. Len(v) \in Nat
      BY <1>6, <1>12
    <3>2. i \in 1..pos /\ Len(u) + i \in 1..Len(w)
      BY <1>2, <1>7, <1>9, <2>1, <3>1
    <3>3. b[i] = a[i] /\ w[Len(u) + i] = a[i] /\ t[Len(u) + i] = w[Len(u) + i]
      BY <1>2, <1>7, <1>8, <3>2
    <3>4. t[Len(u) + i] = v[i]
      BY <1>5, <1>12, <2>1 DEF At
    <3> QED BY <3>3, <3>4
  <2> QED BY <2>1 DEF Agrees
<1> QED BY <1>10, <1>11, <1>12 DEF u, v

(***************************************************************************)
(* rewind() and getData().                                                 *)
(***************************************************************************)
Filled(b, pos) ==
  /\ b \in [1..Size -> Byte] /\ pos \in 0..Size
  /\ \A i \in 1..Size : i > pos => b[i] = Filler

LEMMA WrapsOnce ==
  ASSUME NEW a \in Nat, NEW r \in Nat, a < r
  PROVE  (a + r) % r = a
<1> DEFINE x == a + r
           q == x \div r
           e == x % r
<1>1. x \in Nat /\ r >= 1 /\ x = a + r
  OBVIOUS
<1> HIDE DEF x
<1>2. q \in Nat /\ e \in 0..(r - 1) /\ x = q * r + e
  BY <1>1, Division
<1> HIDE DEF q, e
<1>3. CASE q = 1
  BY <1>1, <1>2, <1>3 DEF x, e
<1>4. CASE q = 0
  <2>1. q * r = 0
    BY <1>4
  <2> QED BY <1>1, <1>2, <2>1
<1>5. CASE q >= 2
  <2>1. PICK d \in Nat : q = d + 2
    <3>1. q - 2 \in Nat /\ q = (q - 2) + 2
      BY <1>2, <1>5
    <3> QED BY <3>1
  <2>2. q * r = d * r + 2 * r /\ d * r >= 0
    BY <2>1
  <2> QED BY <1>1, <1>2, <2>2
<1> QED BY <1>2, <1>3, <1>4, <1>5

LEMMA Rewound ==
  ASSUME NEW b, NEW pos, Filled(b, pos), NEW m \in Messages,
         Agrees(b, Serialize(m), pos), pos >= GetSize(m)
  PROVE  /\ Filled(Rewind(b, GetSize(m)), Left(pos, GetSize(m)))
         /\ SubSeq(b, 1, pos) =
              Serialize(m) \o SubSeq(Rewind(b, GetSize(m)), 1, Left(pos, GetSize(m)))
<1> DEFINE n == GetSize(m)
           v == Serialize(m)
           c == Rewind(b, n)
           q == Left(pos, n)
<1>1. v \in Seq(Byte) /\ Len(v) = n /\ n \in 1..Size
  BY RoundTrip DEF Formatted
<1>2. /\ b \in [1..Size -> Byte] /\ pos \in 0..Size /\ Size \in Nat /\ Filler \in Byte
      /\ \A i \in 1..Size : i > pos => b[i] = Filler
  BY FormatAssumption, RadixOK DEF Filled, Filler, Byte
<1>3. \A i \in 1..n : b[i] = v[i]
  BY <1>1, <1>2 DEF Agrees
<1> HIDE DEF n, v
<1>4. n \in Nat /\ n >= 1 /\ n <= pos /\ pos <= Size
  BY <1>1, <1>2 DEF n
<1>5. q = pos - n
  <2> DEFINE a == pos - n
  <2>1. a \in Nat /\ a < Wrap /\ Wrap \in Nat /\ pos + Wrap - n = a + Wrap
    BY <1>2, <1>4, FormatAssumption
  <2> HIDE DEF a
  <2>2. q = a
    BY <2>1, WrapsOnce DEF Left
  <2> QED BY <2>2 DEF a
<1>6. c = [i \in 1..Size |-> IF i <= Size - n THEN b[i + n] ELSE Filler]
  BY DEF Rewind
<1>7. c \in [1..Size -> Byte]
  <2>1. ASSUME NEW i \in 1..Size
        PROVE  (IF i <= Size - n THEN b[i + n] ELSE Filler) \in Byte
    BY <1>2, <1>4
  <2> QED BY <1>6, <2>1
<1> HIDE DEF c, q
<1>8. \A i \in 1..Size : i > q => c[i] = Filler
  BY <1>2, <1>4, <1>5, <1>6
<1>9. Filled(c, q)
  BY <1>2, <1>4, <1>5, <1>7, <1>8 DEF Filled
<1> DEFINE x == SubSeq(b, 1, pos)
           y == SubSeq(c, 1, q)
           z == v \o y
<1>10. x \in Seq(Byte) /\ Len(x) = pos /\ \A i \in 1..pos : x[i] = b[i]
  <2>1. b \in Seq(Byte) /\ Len(b) = Size
    BY <1>2
  <2> QED BY <1>2, <2>1
<1>11. y \in Seq(Byte) /\ Len(y) = q /\ \A i \in 1..q : y[i] = c[i]
  <2>1. c \in Seq(Byte) /\ Len(c) = Size
    BY <1>2, <1>7
  <2> QED BY <1>2, <1>4, <1>5, <2>1
<1> HIDE DEF x, y
<1>12. z \in Seq(Byte) /\ Len(z) = n + q /\ At(z, 0, v) /\ At(z, n, y)
  BY <1>1, <1>11, AtFirst, AtLast DEF n, v
<1> HIDE DEF z
<1>13. ASSUME NEW i \in 1..pos PROVE x[i] = z[i]
  <2>1. CASE i <= n
    <3>1. z[0 + i] = v[i] /\ 0 + i = i
      BY <1>1, <1>4, <1>12, <2>1 DEF At, n, v
    <3> QED BY <1>3, <1>4, <1>10, <2>1, <3>1
  <2>2. CASE i > n
    <3>1. i - n \in 1..q /\ n + (i - n) = i /\ i - n <= Size - n /\ (i - n) + n = i
          /\ i - n \in 1..Size
      BY <1>2, <1>4, <1>5, <2>2
    <3>2. z[n + (i - n)] = y[i - n]
      BY <1>11, <1>12, <3>1 DEF At
    <3>3. c[i - n] = b[(i - n) + n]
      BY <1>6, <3>1
    <3> QED BY <1>10, <1>11, <3>1, <3>2, <3>3
  <2> QED BY <1>4, <2>1, <2>2
<1>14. x = z
  <2>1. Len(x) = Len(z)
    BY <1>4, <1>5, <1>10, <1>12
  <2> QED BY <1>10, <1>12, <1>13, <2>1
<1> QED BY <1>9, <1>14 DEF c, q, n, v, x, y, z

\* The bytes taken from the connection stand behind those of the buffer.
LEMMA FilledUp ==
  ASSUME NEW n \in Nat, n <= Len(wire), pos_ + n <= Size, Filled(buffer_, pos_),
         wire \in Seq(Byte)
  PROVE  /\ Filled(Fill(n), pos_ + n)
         /\ SubSeq(wire, n + 1, Len(wire)) \in Seq(Byte)
         /\ Len(SubSeq(wire, n + 1, Len(wire))) = Len(wire) - n
         /\ SubSeq(Fill(n), 1, pos_ + n) \o SubSeq(wire, n + 1, Len(wire))
              = SubSeq(buffer_, 1, pos_) \o wire
<1> DEFINE p == pos_
           b == buffer_
           e == wire
           c == Fill(n)
           r == SubSeq(e, n + 1, Len(e))
           x == SubSeq(c, 1, p + n)
           y == SubSeq(b, 1, p)
<1>1. /\ b \in [1..Size -> Byte] /\ p \in Nat /\ Size \in Nat
      /\ \A i \in 1..Size : i > p => b[i] = Filler
  BY FormatAssumption DEF Filled
<1>2. c = [i \in 1..Size |-> IF i \in (p + 1)..(p + n) THEN e[i - p] ELSE b[i]]
  BY DEF Fill
<1>3. e \in Seq(Byte) /\ n \in Nat /\ n <= Len(e) /\ p + n <= Size
  OBVIOUS
<1> HIDE DEF p, b, e, c
<1>4. c \in [1..Size -> Byte]
  <2>1. ASSUME NEW i \in 1..Size
        PROVE  (IF i \in (p + 1)..(p + n) THEN e[i - p] ELSE b[i]) \in Byte
    <3>1. i \in (p + 1)..(p + n) => i - p \in 1..Len(e)
      BY <1>1, <1>3
    <3>2. b[i] \in Byte /\ \A j \in 1..Len(e) : e[j] \in Byte
      BY <1>1, <1>3
    <3> QED BY <3>1, <3>2
  <2> QED BY <1>2, <2>1
<1>5. \A i \in 1..Size : i > p + n => c[i] = Filler
  BY <1>1, <1>2, <1>3
<1>6. Filled(c, p + n)
  BY <1>1, <1>3, <1>4, <1>5 DEF Filled
<1>7. r \in Seq(Byte) /\ Len(r) = Len(e) - n /\ \A i \in 1..(Len(e) - n) : r[i] = e[n + i]
  BY <1>3
<1>8. x \in Seq(Byte) /\ Len(x) = p + n /\ \A i \in 1..(p + n) : x[i] = c[i]
  <2>1. c \in Seq(Byte) /\ Len(c) = Size
    BY <1>1, <1>4
  <2> QED BY <1>1, <1>3, <2>1
<1>9. y \in Seq(Byte) /\ Len(y) = p /\ \A i \in 1..p : y[i] = b[i]
  <2>1. b \in Seq(Byte) /\ Len(b) = Size
    BY <1>1
  <2> QED BY <1>1, <1>3, <2>1
<1> HIDE DEF r, x, y
<1> DEFINE u == x \o r
           v == y \o e
<1>10. u \in Seq(Byte) /\ Len(u) = Len(x) + Len(r) /\ At(u, 0, x) /\ At(u, Len(x), r)
  BY <1>7, <1>8, AtFirst, AtLast
<1>11. v \in Seq(Byte) /\ Len(v) = Len(y) + Len(e) /\ At(v, 0, y) /\ At(v, Len(y), e)
  BY <1>3, <1>9, AtFirst, AtLast
<1> HIDE DEF u, v
<1>12. Len(u) = p + Len(e) /\ Len(v) = p + Len(e) /\ Len(e) \in Nat
  BY <1>1, <1>3, <1>7, <1>8, <1>9, <1>10, <1>11
<1>13. ASSUME NEW i \in 1..(p + Len(e)) PROVE u[i] = v[i]
  <2>1. CASE i <= p
    <3>1. u[0 + i] = x[i] /\ v[0 + i] = y[i] /\ 0 + i = i
      BY <1>1, <1>3, <1>8, <1>9, <1>10, <1>11, <2>1 DEF At
    <3>2. c[i] = b[i]
      BY <1>1, <1>2, <1>3, <2>1
    <3> QED BY <1>1, <1>3, <1>8, <1>9, <2>1, <3>1, <3>2
  <2>2. CASE i > p /\ i <= p + n
    <3>1. u[0 + i] = x[i] /\ 0 + i = i
      BY <1>1, <1>3, <1>8, <1>10, <2>2 DEF At
    <3>2. v[p + (i - p)] = e[i - p] /\ p + (i - p) = i
      BY <1>1, <1>3, <1>9, <1>11, <1>12, <2>2 DEF At
    <3>3. c[i] = e[i - p]
      BY <1>1, <1>2, <1>3, <2>2
    <3> QED BY <1>1, <1>3, <1>8, <2>2, <3>1, <3>2, <3>3
  <2>3. CASE i > p + n
    <3>1. i - p - n \in 1..(Len(e) - n) /\ (p + n) + (i - p - n) = i /\ n + (i - p - n) = i - p
      BY <1>1, <1>3, <1>12, <2>3
    <3>2. u[(p + n) + (i - p - n)] = r[i - p - n]
      BY <1>7, <1>8, <1>10, <3>1 DEF At
    <3>3. v[p + (i - p)] = e[i - p] /\ p + (i - p) = i
      <4>1. i - p \in 1..Len(e) /\ p + (i - p) = i
        BY <1>1, <1>3, <1>12, <2>3
      <4>2. \A j \in 1..Len(e) : v[p + j] = e[j]
        BY <1>9, <1>11 DEF At
      <4> QED BY <4>1, <4>2
    <3> QED BY <1>7, <3>1, <3>2, <3>3
  <2> QED BY <1>1, <1>3, <2>1, <2>2, <2>3
<1>14. u = v
  BY <1>10, <1>11, <1>12, <1>13
<1> QED BY <1>6, <1>7, <1>14 DEF p, b, e, c, r, x, y, u, v

(***************************************************************************)
(* The inductive invariant.                                                *)
(***************************************************************************)
\* What is written are the first bytes of messages, without a status but to a
\* client; a connection takes them all.
SentInv ==
  /\ reader \in {"server", "client", "load"} /\ ended \in BOOLEAN
  /\ sent \in Seq(ToServer \cup ToClient \cup Saved) /\ sent \in Seq(Messages)
  /\ reader # "client" => \A i \in DOMAIN sent : sent[i].id # MSG_RESP
  /\ wrote \in Seq(Byte) /\ wire \in Seq(Byte)
  /\ At(Bytes(sent), 0, wrote)
  /\ reader # "load" => wrote = Bytes(sent)

GotInv == Len(got) <= Len(sent) /\ got \in Seq(Messages) /\ got = SubSeq(sent, 1, Len(got))

\* What was returned, pos bytes of b and the bytes rest are what was written.
MakeUp(b, pos, rest) == Parts(wrote, Upto(sent, Len(got)), b, pos, rest)

Conserved == MakeUp(buffer_, pos_, wire)

\* Byte l is the first of a status.
InStatus(l) ==
  \E i \in DOMAIN sent : sent[i].id = MSG_RESP /\ l = Len(Upto(sent, i - 1)) + 1

\* The bytes read so far do not end within a status.
Uncut == ~InStatus(Len(wrote) - Len(wire))

EndInv == ended => reader = "load" /\ wire = <<>> /\ Deserialize(buffer_, pos_) = nullptr

BufferInv == SentInv /\ GotInv /\ Filled(buffer_, pos_) /\ Conserved /\ Uncut /\ EndInv

LEMMA Lengths ==
  /\ Size \in Nat /\ Wrap \in Nat /\ MaxSent \in Nat
  /\ \A m \in Messages : GetSize(m) \in 1..Size /\ Serialize(m) \in Seq(Byte)
                         /\ Len(Serialize(m)) = GetSize(m)
BY FormatAssumption, RoundTrip DEF Formatted

\* What getMessage finds in a buffer b, of which pos bytes are in use and behind
\* which the bytes rest follow.
LEMMA NextMessage ==
  ASSUME SentInv, GotInv, NEW b, NEW pos, Filled(b, pos), NEW rest \in Seq(Byte),
         MakeUp(b, pos, rest), ~InStatus(Len(wrote) - Len(rest))
  PROVE  /\ Len(got) = Len(sent) => pos = 0 /\ rest = <<>> /\ Deserialize(b, pos) = nullptr
         /\ Len(got) < Len(sent) =>
              LET m == sent[Len(got) + 1] IN
                /\ m \in Messages /\ Agrees(b, Serialize(m), pos)
                /\ Deserialize(b, pos) = IF pos >= GetSize(m) THEN m ELSE nullptr
<1> DEFINE k == Len(got)
<1>1. k \in Nat /\ k <= Len(sent) /\ sent \in Seq(Messages) /\ wrote \in Seq(Byte)
      /\ At(Bytes(sent), 0, wrote)
  BY DEF SentInv, GotInv
<1>2. b \in [1..Size -> Byte] /\ pos \in 0..Size
  BY DEF Filled
<1>0. Parts(wrote, Upto(sent, k), b, pos, rest)
  BY DEF MakeUp
<1> HIDE DEF k
<1>3. /\ k = Len(sent) => pos = 0 /\ rest = <<>>
      /\ k < Len(sent) => Agrees(b, Serialize(sent[k + 1]), pos)
      /\ Len(wrote) - Len(rest) = Len(Upto(sent, k)) + pos
  BY <1>0, <1>1, <1>2, Stored
<1>4. ASSUME k = Len(sent) PROVE Deserialize(b, pos) = nullptr
  BY <1>3, <1>4 DEF Deserialize
<1>5. ASSUME k < Len(sent)
      PROVE  /\ sent[k + 1] \in Messages
             /\ Deserialize(b, pos) =
                  IF pos >= GetSize(sent[k + 1]) THEN sent[k + 1] ELSE nullptr
  <2> DEFINE m == sent[k + 1]
  <2>1. k + 1 \in DOMAIN sent /\ (k + 1) - 1 = k /\ m \in Messages
    BY <1>1, <1>5
  <2>2. ~(m.id = MSG_RESP /\ pos = 1)
    <3> SUFFICES ASSUME m.id = MSG_RESP, pos = 1 PROVE FALSE
      OBVIOUS
    <3>1. Len(wrote) - Len(rest) = Len(Upto(sent, (k + 1) - 1)) + 1
      BY <1>3, <2>1
    <3>2. InStatus(Len(wrote) - Len(rest))
      BY <2>1, <3>1 DEF InStatus
    <3> QED BY <3>2
  <2>3. Agrees(b, Serialize(m), pos)
    BY <1>3, <1>5
  <2> HIDE DEF m
  <2>4. Deserialize(b, pos) = IF pos >= GetSize(m) THEN m ELSE nullptr
    BY <1>2, <2>1, <2>2, <2>3, RoundTrip DEF Parses
  <2> QED BY <2>1, <2>4 DEF m
<1> QED BY <1>3, <1>4, <1>5 DEF k

\* The end of getMessage keeps everything together.
LEMMA TakeStep ==
  ASSUME SentInv, GotInv, NEW b, NEW pos, Filled(b, pos), NEW rest \in Seq(Byte),
         MakeUp(b, pos, rest), ~InStatus(Len(wrote) - Len(rest)),
         Take(b, pos), sent' = sent, wrote' = wrote, wire' = rest
  PROVE  /\ GotInv' /\ Filled(buffer_, pos_)' /\ Conserved'
         /\ got' = got => Deserialize(b, pos) = nullptr /\ buffer_' = b /\ pos_' = pos
<1> DEFINE k == Len(got)
           m == sent[k + 1]
<1>1. k \in Nat /\ k <= Len(sent) /\ sent \in Seq(Messages) /\ got \in Seq(Messages)
      /\ got = SubSeq(sent, 1, k)
  BY DEF SentInv, GotInv
<1>2. /\ k = Len(sent) => Deserialize(b, pos) = nullptr
      /\ k < Len(sent) =>
           /\ m \in Messages /\ Agrees(b, Serialize(m), pos)
           /\ Deserialize(b, pos) = IF pos >= GetSize(m) THEN m ELSE nullptr
  BY NextMessage
<1>3. CASE Deserialize(b, pos) = nullptr
  <2>1. buffer_' = b /\ pos_' = pos /\ got' = got
    BY <1>3 DEF Take
  <2>2. GotInv'
    BY <2>1 DEF GotInv
  <2>3. Filled(buffer_, pos_)'
    BY <2>1 DEF Filled
  <2>4. Conserved'
    BY <2>1 DEF Conserved, MakeUp, Parts, Upto
  <2> QED BY <1>3, <2>1, <2>2, <2>3, <2>4
<1>4. CASE Deserialize(b, pos) # nullptr
  <2>1. k < Len(sent) /\ m \in Messages /\ Agrees(b, Serialize(m), pos)
        /\ pos >= GetSize(m) /\ Deserialize(b, pos) = m
    BY <1>1, <1>2, <1>4
  <2>2. /\ buffer_' = Rewind(b, GetSize(m)) /\ pos_' = Left(pos, GetSize(m))
        /\ got' = Append(got, m)
    BY <1>4, <2>1 DEF Take
  <2> HIDE DEF m
  <2>3. /\ Filled(buffer_', pos_')
        /\ SubSeq(b, 1, pos) = Serialize(m) \o SubSeq(buffer_', 1, pos_')
    BY <2>1, <2>2, Rewound
  <2>4. GotInv'
    <3>1. Append(got, m) \in Seq(Messages) /\ Len(Append(got, m)) = k + 1
      BY <1>1, <2>1
    <3>2. SubSeq(sent, 1, k + 1) = Append(SubSeq(sent, 1, k), sent[k + 1])
      <4> HIDE DEF k
      <4> QED BY <1>1, <2>1
    <3>3. got' = SubSeq(sent, 1, k + 1)
      BY <1>1, <2>2, <3>2 DEF m
    <3> HIDE DEF k
    <3> QED BY <1>1, <2>1, <2>2, <3>1, <3>3 DEF GotInv
  <2>5. Conserved'
    <3> DEFINE u == Upto(sent, k)
               v == Serialize(m)
               y == SubSeq(buffer_', 1, pos_')
    <3>1. Upto(sent, k + 1) = u \o v
      BY <1>1, <2>1, UptoNext DEF m
    <3>2. u \in Seq(Byte) /\ v \in Seq(Byte)
      BY <1>1, <2>1, FirstMessages, Lengths
    <3>3. y \in Seq(Byte)
      <4>1. buffer_' \in [1..Size -> Byte] /\ pos_' \in 0..Size /\ Size \in Nat
        BY <2>3, Lengths DEF Filled
      <4> HIDE DEF y
      <4>2. buffer_' \in Seq(Byte) /\ Len(buffer_') = Size
        BY <4>1
      <4> QED BY <4>1, <4>2 DEF y
    <3>4. Len(got') = k + 1
      BY <1>1, <2>1, <2>2
    <3>5. wrote = (u \o (v \o y)) \o rest
      BY <2>3 DEF MakeUp, Parts
    <3> HIDE DEF u, v, y, k
    <3>6. u \o (v \o y) = (u \o v) \o y
      BY <3>2, <3>3, ConcatThree
    <3>7. wrote = ((u \o v) \o y) \o rest
      BY <3>5, <3>6
    <3>8. wrote' = Upto(sent', Len(got')) \o y \o wire'
      BY <3>1, <3>4, <3>7
    <3> QED BY <3>8 DEF Conserved, MakeUp, Parts, Upto, y
  <2>6. got' # got
    <3>1. Len(got') = Len(got) + 1 /\ Len(got) \in Nat
      BY <1>1, <2>1, <2>2
    <3> QED BY <3>1
  <2>7. Filled(buffer_, pos_)'
    BY <2>3 DEF Filled
  <2> QED BY <2>4, <2>5, <2>6, <2>7
<1> QED BY <1>3, <1>4

(***************************************************************************)
(* The steps.                                                              *)
(***************************************************************************)
LEMMA InitBuffer == Init => BufferInv
<1> SUFFICES ASSUME Init PROVE BufferInv
  OBVIOUS
<1>1. /\ buffer_ = [i \in 1..Size |-> Filler] /\ pos_ = 0 /\ got = <<>> /\ ended = FALSE
      /\ ConnectionInit \/ FileInit
  BY DEF Init, BufferInit
<1>2. Size \in Nat /\ Filler \in Byte
  BY Lengths, RadixOK DEF Filler, Byte
<1>3. Filled(buffer_, pos_)
  BY <1>1, <1>2 DEF Filled
<1>4. SentInv /\ wire = wrote /\ reader \in {"server", "client", "load"}
  <2>1. CASE ConnectionInit
    <3>1. Bytes(sent) = <<>> /\ sent = <<>> /\ wrote = <<>> /\ wire = <<>>
      BY <2>1, BytesOfNone DEF ConnectionInit
    <3>2. At(<<>>, 0, <<>>)
      BY DEF At
    <3>3. <<>> \in Seq(ToServer \cup ToClient \cup Saved) /\ <<>> \in Seq(Messages)
          /\ <<>> \in Seq(Byte) /\ DOMAIN sent = {}
      BY <3>1
    <3>4. reader \in {"server", "client"}
      BY <2>1 DEF ConnectionInit
    <3> QED BY <1>1, <3>1, <3>2, <3>3, <3>4 DEF SentInv
  <2>2. CASE FileInit
    <3>1. sent \in Seq(Saved)
      BY <2>2, Lengths DEF FileInit, BoundedSeq, SeqOf
    <3>2. Saved \subseteq Messages /\ \A m \in Saved : m.id # MSG_RESP
      BY MessageAssumption
    <3>3. sent \in Seq(Messages) /\ \A i \in DOMAIN sent : sent[i] \in Saved
      BY <3>1, <3>2
    <3>4. sent \in Seq(ToServer \cup ToClient \cup Saved)
      BY <3>1
    <3> DEFINE t == Bytes(sent)
    <3>5. t \in Seq(Byte)
      BY <3>3, BytesOK
    <3>6. PICK cut \in 0..Len(t) : wrote = SubSeq(t, 1, cut)
      BY <2>2 DEF FileInit
    <3> HIDE DEF t
    <3>7. /\ wrote \in Seq(Byte) /\ Len(wrote) = cut /\ cut <= Len(t)
          /\ \A i \in 1..cut : wrote[i] = t[i]
      BY <3>5, <3>6
    <3>8. At(t, 0, wrote)
      BY <3>6, <3>7 DEF At
    <3>9. reader = "load" /\ wire = wrote
      BY <2>2 DEF FileInit
    <3> QED BY <1>1, <3>2, <3>3, <3>4, <3>7, <3>8, <3>9 DEF SentInv, t
  <2> QED BY <1>1, <2>1, <2>2
<1>5. GotInv
  <2>1. sent \in Seq(Messages)
    BY <1>4 DEF SentInv
  <2>2. SubSeq(sent, 1, 0) = <<>> /\ Len(sent) \in Nat
    BY <2>1
  <2> QED BY <1>1, <2>2 DEF GotInv
<1>6. Conserved
  <2>1. sent \in Seq(Messages) /\ wrote \in Seq(Byte)
    BY <1>4 DEF SentInv
  <2>2. SubSeq(sent, 1, 0) = <<>>
    BY <2>1
  <2>3. Upto(sent, 0) = <<>>
    BY <2>2, BytesOfNone DEF Upto
  <2>4. buffer_ \in Seq(Byte)
    BY <1>2, <1>3 DEF Filled
  <2>5. SubSeq(buffer_, 1, 0) = <<>>
    BY <2>4
  <2>6. <<>> \o <<>> \o wrote = wrote
    BY <2>1
  <2>7. Len(got) = 0
    BY <1>1
  <2> QED BY <1>1, <1>4, <2>3, <2>5, <2>6, <2>7 DEF Conserved, MakeUp, Parts
<1>7. Uncut
  <2>1. sent \in Seq(Messages) /\ wrote \in Seq(Byte)
    BY <1>4 DEF SentInv
  <2>2. Len(wrote) - Len(wire) = 0
    BY <1>4, <2>1
  <2>3. ASSUME NEW i \in DOMAIN sent PROVE Len(Upto(sent, i - 1)) \in Nat
    <3>1. i - 1 \in Nat /\ i - 1 <= Len(sent)
      BY <2>1
    <3>2. Upto(sent, i - 1) \in Seq(Byte)
      BY <2>1, <3>1, FirstMessages
    <3> QED BY <3>2
  <2>4. \A i \in DOMAIN sent : 0 # Len(Upto(sent, i - 1)) + 1
    BY <2>3
  <2> QED BY <2>2, <2>4 DEF Uncut, InStatus
<1> QED BY <1>1, <1>3, <1>4, <1>5, <1>6, <1>7 DEF BufferInv, EndInv

LEMMA WriteStep ==
  ASSUME BufferInv, NEW m \in ToServer \cup ToClient, m \in Messages, reader # "load",
         reader = "client" \/ m.id # MSG_RESP, Write(m)
  PROVE  BufferInv'
<1> DEFINE v == Serialize(m)
           k == Len(got)
<1>1. /\ sent' = Append(sent, m) /\ wrote' = wrote \o v /\ wire' = wire \o v
      /\ UNCHANGED <<reader, buffer_, pos_, got, ended>>
  BY DEF Write
<1>2. /\ sent \in Seq(Messages) /\ sent \in Seq(ToServer \cup ToClient \cup Saved)
      /\ wrote \in Seq(Byte) /\ wire \in Seq(Byte) /\ wrote = Bytes(sent)
      /\ k \in Nat /\ k <= Len(sent) /\ v \in Seq(Byte) /\ got \in Seq(Messages)
  BY RoundTrip DEF BufferInv, SentInv, GotInv, Formatted
<1> DEFINE s == Append(sent, m)
<1>3. /\ s \in Seq(Messages) /\ s \in Seq(ToServer \cup ToClient \cup Saved)
      /\ Len(s) = Len(sent) + 1 /\ s[Len(sent) + 1] = m
      /\ \A i \in 1..Len(sent) : s[i] = sent[i]
  BY <1>2
<1>4. ASSUME NEW j \in Nat, j <= Len(sent) PROVE SubSeq(s, 1, j) = SubSeq(sent, 1, j)
  BY <1>2, <1>4, PrefixAppend
<1>5. Bytes(s) = Bytes(sent) \o v
  BY <1>2, BytesAppend
<1> HIDE DEF v, s
<1>6. wrote' = Bytes(s) /\ wrote' \in Seq(Byte) /\ wire' \in Seq(Byte)
      /\ Len(wrote') - Len(wire') = Len(wrote) - Len(wire)
  <2>1. /\ wrote \o v \in Seq(Byte) /\ Len(wrote \o v) = Len(wrote) + Len(v)
        /\ wire \o v \in Seq(Byte) /\ Len(wire \o v) = Len(wire) + Len(v)
        /\ Len(v) \in Nat /\ Len(wire) \in Nat /\ Len(wrote) \in Nat
    BY <1>2
  <2> QED BY <1>1, <1>2, <1>5, <2>1
<1>7. SentInv'
  <2>1. At(Bytes(s), 0, wrote')
    BY <1>6 DEF At
  <2>2. reader # "client" => \A i \in 1..Len(s) : s[i].id # MSG_RESP
    <3>1. reader # "client" => \A i \in 1..Len(sent) : sent[i].id # MSG_RESP
      BY <1>2 DEF BufferInv, SentInv
    <3>2. Len(sent) \in Nat
      BY <1>2
    <3> QED BY <1>3, <3>1, <3>2
  <2>3. DOMAIN s = 1..Len(s)
    BY <1>3
  <2>4. reader \in {"server", "client", "load"} /\ ended \in BOOLEAN
    BY DEF BufferInv, SentInv
  <2> QED BY <1>1, <1>3, <1>6, <2>1, <2>2, <2>3, <2>4 DEF SentInv, s
<1>8. GotInv'
  <2>1. SubSeq(s, 1, k) = SubSeq(sent, 1, k) /\ k <= Len(s)
    BY <1>2, <1>3, <1>4
  <2> QED BY <1>1, <2>1 DEF BufferInv, GotInv, s
<1>9. Filled(buffer_, pos_)'
  BY <1>1 DEF BufferInv, Filled
<1>10. Conserved'
  <2> DEFINE u == Upto(sent, k)
             y == SubSeq(buffer_, 1, pos_)
  <2>1. Upto(s, k) = u
    BY <1>2, <1>4 DEF Upto
  <2>2. u \in Seq(Byte)
    BY <1>2, FirstMessages
  <2>3. y \in Seq(Byte)
    <3>1. buffer_ \in [1..Size -> Byte] /\ pos_ \in 0..Size /\ Size \in Nat
      BY Lengths DEF BufferInv, Filled
    <3>2. buffer_ \in Seq(Byte) /\ Len(buffer_) = Size
      BY <3>1
    <3> QED BY <3>1, <3>2
  <2>4. wrote = (u \o y) \o wire
    BY DEF BufferInv, Conserved, MakeUp, Parts
  <2> HIDE DEF u, y
  <2> DEFINE x == u \o y
  <2>5. x \in Seq(Byte)
    BY <2>2, <2>3
  <2> HIDE DEF x
  <2>6. x \o (wire \o v) = (x \o wire) \o v
    BY <1>2, <2>5, ConcatThree
  <2>7. wrote' = x \o wire'
    BY <1>1, <2>4, <2>6 DEF x
  <2> QED BY <1>1, <2>1, <2>7 DEF Conserved, MakeUp, Parts, s, u, x, y
<1>11. Uncut'
  <2> DEFINE l == Len(wrote) - Len(wire)
  <2>1. ~InStatus(l)
    BY DEF BufferInv, Uncut
  <2>2. l <= Len(Bytes(sent)) /\ Len(Bytes(sent)) \in Nat
    BY <1>2
  <2> HIDE DEF l
  <2>3. ASSUME NEW i \in 1..Len(s), s[i].id = MSG_RESP PROVE l # Len(Upto(s, i - 1)) + 1
    <3>1. i - 1 \in Nat /\ i - 1 <= Len(sent)
      BY <1>2, <1>3
    <3>2. Upto(s, i - 1) = Upto(sent, i - 1)
      BY <1>4, <3>1 DEF Upto
    <3>3. CASE i \in 1..Len(sent)
      <4>1. i \in DOMAIN sent /\ sent[i].id = MSG_RESP
        BY <1>2, <1>3, <2>3, <3>3
      <4> QED BY <2>1, <3>2, <4>1 DEF InStatus
    <3>4. CASE i = Len(sent) + 1
      <4>1. Upto(s, i - 1) = Bytes(sent)
        BY <1>2, <3>2, <3>4, UptoAll
      <4> QED BY <2>2, <4>1
    <3> QED BY <1>2, <1>3, <3>3, <3>4
  <2>4. DOMAIN s = 1..Len(s)
    BY <1>3
  <2>5. sent' = s /\ Len(wrote') - Len(wire') = l
    BY <1>1, <1>6 DEF s, l
  <2> QED BY <2>3, <2>4, <2>5 DEF Uncut, InStatus, Upto
<1>12. EndInv'
  BY <1>1 DEF BufferInv, EndInv
<1> QED BY <1>7, <1>8, <1>9, <1>10, <1>11, <1>12 DEF BufferInv

\* Only the bytes for a client can end within a status.
LEMMA NoStatus ==
  ASSUME SentInv, reader # "client", NEW l
  PROVE  ~InStatus(l)
BY DEF SentInv, InStatus

LEMMA ReadStep ==
  ASSUME BufferInv, NEW n \in Nat, n <= Len(wire), n <= Space,
         ~InStatus(Len(wrote) - Len(wire) + n), GetData(n), ended' \in BOOLEAN
  PROVE  /\ SentInv' /\ GotInv' /\ Filled(buffer_, pos_)' /\ Conserved' /\ Uncut'
         /\ got' = got => /\ Deserialize(buffer_, pos_)' = nullptr
                          /\ pos_' = pos_ + n /\ Len(wire') = Len(wire) - n
<1> DEFINE b == Fill(n)
           pos == pos_ + n
           rest == SubSeq(wire, n + 1, Len(wire))
<1>1. /\ wire' = rest /\ Take(b, pos) /\ sent' = sent /\ wrote' = wrote /\ reader' = reader
  BY DEF GetData
<1>2. SentInv /\ GotInv /\ wire \in Seq(Byte) /\ wrote \in Seq(Byte) /\ sent \in Seq(Messages)
      /\ Filled(buffer_, pos_) /\ Len(got) \in Nat /\ Len(got) <= Len(sent)
  BY DEF BufferInv, SentInv, GotInv
<1>3. pos_ \in Nat /\ Size \in Nat /\ pos_ + n <= Size /\ Len(wire) \in Nat /\ Len(wrote) \in Nat
  BY <1>2, Lengths DEF Filled, Space
<1>4. /\ Filled(b, pos) /\ rest \in Seq(Byte) /\ Len(rest) = Len(wire) - n
      /\ SubSeq(b, 1, pos) \o rest = SubSeq(buffer_, 1, pos_) \o wire
  BY <1>2, <1>3, FilledUp
<1>5. MakeUp(b, pos, rest)
  <2> DEFINE u == Upto(sent, Len(got))
             x == SubSeq(b, 1, pos)
             y == SubSeq(buffer_, 1, pos_)
  <2>1. wrote = u \o y \o wire
    BY DEF BufferInv, Conserved, MakeUp, Parts
  <2>2. u \in Seq(Byte)
    BY <1>2, FirstMessages
  <2>3. x \in Seq(Byte)
    <3>1. b \in [1..Size -> Byte] /\ pos \in 0..Size
      BY <1>4 DEF Filled
    <3> HIDE DEF b, pos
    <3>2. b \in Seq(Byte) /\ Len(b) = Size
      BY <1>3, <3>1
    <3> QED BY <1>3, <3>1, <3>2
  <2>4. y \in Seq(Byte)
    <3>1. buffer_ \in [1..Size -> Byte] /\ pos_ \in 0..Size
      BY <1>2 DEF Filled
    <3>2. buffer_ \in Seq(Byte) /\ Len(buffer_) = Size
      BY <1>3, <3>1
    <3> QED BY <1>3, <3>1, <3>2
  <2>5. x \o rest = y \o wire
    BY <1>4
  <2>6. rest \in Seq(Byte)
    BY <1>4
  <2> HIDE DEF u, x, y, rest
  <2>7. wire \in Seq(Byte)
    BY <1>2
  <2>8. u \o (y \o wire) = (u \o y) \o wire
    BY <2>2, <2>4, <2>7, ConcatThree
  <2>9. u \o (x \o rest) = (u \o x) \o rest
    BY <2>2, <2>3, <2>6, ConcatThree
  <2>10. wrote = u \o x \o rest
    BY <2>1, <2>5, <2>8, <2>9
  <2> QED BY <2>10 DEF MakeUp, Parts, u, x
<1> HIDE DEF b, pos, rest
<1>6. ~InStatus(Len(wrote) - Len(rest))
  <2>1. Len(wrote) - Len(rest) = Len(wrote) - Len(wire) + n
    BY <1>3, <1>4
  <2> QED BY <2>1
<1>7. /\ GotInv' /\ Filled(buffer_, pos_)' /\ Conserved'
      /\ got' = got => Deserialize(b, pos) = nullptr /\ buffer_' = b /\ pos_' = pos
  BY <1>1, <1>2, <1>4, <1>5, <1>6, TakeStep
<1>8. SentInv'
  BY <1>1, <1>2, <1>4 DEF SentInv
<1>9. Uncut'
  BY <1>1, <1>6 DEF Uncut, InStatus, Upto
<1>10. got' = got => Deserialize(buffer_, pos_)' = nullptr
  BY <1>7 DEF Deserialize, DeserializeAuth, DeserializeQuit, DeserializeStatus,
              DeserializeClientText, DeserializeServerText
<1> QED BY <1>1, <1>4, <1>7, <1>8, <1>9, <1>10 DEF pos

Together == SentInv /\ GotInv /\ Filled(buffer_, pos_) /\ Conserved /\ Uncut

\* If getMessage finds nothing, there is space, and less than a message to come.
Stuck ==
  Deserialize(buffer_, pos_) = nullptr =>
    /\ pos_ < Size
    /\ Len(got) = Len(sent) => wire = <<>>
    /\ Len(got) < Len(sent) => pos_ < Len(Serialize(sent[Len(got) + 1]))

LEMMA StuckIf == Together => Stuck
<1> SUFFICES ASSUME Together, Deserialize(buffer_, pos_) = nullptr
             PROVE  /\ pos_ < Size
                    /\ Len(got) = Len(sent) => wire = <<>>
                    /\ Len(got) < Len(sent) => pos_ < Len(Serialize(sent[Len(got) + 1]))
  BY DEF Stuck
<1> DEFINE k == Len(got)
           m == sent[k + 1]
<1>1. /\ SentInv /\ GotInv /\ Filled(buffer_, pos_) /\ wire \in Seq(Byte)
      /\ MakeUp(buffer_, pos_, wire) /\ ~InStatus(Len(wrote) - Len(wire))
      /\ k \in Nat /\ Len(sent) \in Nat /\ k <= Len(sent) /\ pos_ \in Nat /\ pos_ <= Size
  BY Lengths DEF Together, SentInv, GotInv, Conserved, Uncut, Filled
<1>2. /\ k = Len(sent) => pos_ = 0 /\ wire = <<>>
      /\ k < Len(sent) =>
           /\ m \in Messages
           /\ Deserialize(buffer_, pos_) = IF pos_ >= GetSize(m) THEN m ELSE nullptr
  BY <1>1, NextMessage
<1> HIDE DEF k, m
<1>3. CASE k = Len(sent)
  <2>1. 0 < Size
    BY FormatAssumption, HeaderOK, RadixOK
  <2> QED BY <1>1, <1>2, <1>3, <2>1 DEF k
<1>4. CASE k < Len(sent)
  <2>1. m \in Messages /\ m # nullptr /\ GetSize(m) \in 1..Size /\ Len(Serialize(m)) = GetSize(m)
    BY <1>2, <1>4, Lengths, RoundTrip
  <2>2. pos_ < GetSize(m)
    BY <1>1, <1>2, <1>4, <2>1
  <2> QED BY <1>1, <1>4, <2>1, <2>2, Lengths DEF k, m
<1> QED BY <1>1, <1>3, <1>4

LEMMA BufferedStep ==
  ASSUME BufferInv, GetBuffered
  PROVE  BufferInv'
<1>1. /\ Take(buffer_, pos_) /\ Deserialize(buffer_, pos_) # nullptr
      /\ UNCHANGED <<reader, sent, wrote, wire, ended>>
  BY DEF GetBuffered
<1>2. /\ SentInv /\ GotInv /\ Filled(buffer_, pos_) /\ MakeUp(buffer_, pos_, wire)
      /\ ~InStatus(Len(wrote) - Len(wire)) /\ wire \in Seq(Byte)
  BY DEF BufferInv, SentInv, Conserved, Uncut
<1>3. GotInv' /\ Filled(buffer_, pos_)' /\ Conserved'
  BY <1>1, <1>2, TakeStep
<1>4. SentInv'
  BY <1>1, <1>2 DEF SentInv
<1>5. Uncut'
  BY <1>1, <1>2 DEF Uncut, InStatus, Upto
<1>6. EndInv'
  <2>1. ~ended
    BY <1>1 DEF BufferInv, EndInv
  <2> QED BY <1>1, <2>1 DEF EndInv
<1> QED BY <1>3, <1>4, <1>5, <1>6 DEF BufferInv

LEMMA ConnectionStep ==
  ASSUME BufferInv, reader = "client" => CutStatus = FALSE, ServerReads \/ ClientReads
  PROVE  BufferInv'
<1>1. PICK n \in 1..Size :
        /\ Received(n) /\ reader \in {"server", "client"}
        /\ reader = "client" => ~CutsStatus(n)
  BY DEF ServerReads, ClientReads
<1>2. SentInv /\ wire \in Seq(Byte) /\ pos_ \in Nat /\ pos_ <= Size /\ Size \in Nat
  BY Lengths DEF BufferInv, SentInv, Filled
<1>3. n \in Nat /\ n <= Len(wire) /\ n <= Space /\ GetData(n) /\ ended' = ended
  BY <1>1, <1>2 DEF Received, Least, Space
<1>4. ~InStatus(Len(wrote) - Len(wire) + n)
  <2>1. CASE reader = "client"
    BY <1>1, <2>1 DEF CutsStatus, InStatus, Upto
  <2>2. CASE reader # "client"
    BY <1>2, <2>2, NoStatus
  <2> QED BY <2>1, <2>2
<1>5. ended = FALSE
  BY <1>1 DEF BufferInv, EndInv, SentInv
<1>6. SentInv' /\ GotInv' /\ Filled(buffer_, pos_)' /\ Conserved' /\ Uncut'
  BY <1>3, <1>4, <1>5, ReadStep
<1> QED BY <1>3, <1>5, <1>6 DEF BufferInv, EndInv

LEMMA LoadStep ==
  ASSUME BufferInv, LoadReads
  PROVE  BufferInv'
<1> DEFINE n == Least(Len(wire), Space)
<1>1. reader = "load" /\ GetData(n) /\ ended' = (got' = got)
  BY DEF LoadReads
<1>2. SentInv /\ wire \in Seq(Byte) /\ pos_ \in Nat /\ pos_ <= Size /\ Size \in Nat
  BY Lengths DEF BufferInv, SentInv, Filled
<1>3. /\ n \in Nat /\ n <= Len(wire) /\ n <= Space /\ Len(wire) \in Nat
      /\ n = Len(wire) \/ pos_ + n = Size
  BY <1>2 DEF Least, Space
<1> HIDE DEF n
<1>4. ~InStatus(Len(wrote) - Len(wire) + n)
  BY <1>1, <1>2, NoStatus
<1>5. /\ SentInv' /\ GotInv' /\ Filled(buffer_, pos_)' /\ Conserved' /\ Uncut'
      /\ got' = got => /\ Deserialize(buffer_, pos_)' = nullptr
                       /\ pos_' = pos_ + n /\ Len(wire') = Len(wire) - n
  BY <1>1, <1>3, <1>4, ReadStep
<1>6. Stuck'
  <2>1. Together'
    BY <1>5 DEF Together
  <2> QED BY <2>1, StuckIf, PTL
<1>7. EndInv'
  <2> SUFFICES ASSUME got' = got
               PROVE  reader' = "load" /\ wire' = <<>> /\ Deserialize(buffer_, pos_)' = nullptr
    BY <1>1 DEF EndInv
  <2>1. pos_' < Size
    BY <1>5, <1>6 DEF Stuck
  <2>2. n = Len(wire)
    BY <1>2, <1>3, <1>5, <2>1
  <2>3. Len(wire') = 0 /\ wire' \in Seq(Byte)
    BY <1>3, <1>5, <2>2 DEF SentInv
  <2>4. wire' = <<>>
    BY <2>3
  <2> QED BY <1>1, <1>5, <2>4 DEF GetData
<1> QED BY <1>5, <1>7 DEF BufferInv

LEMMA NextBuffer ==
  ASSUME reader = "client" => CutStatus = FALSE, BufferInv, [Next]_vars
  PROVE  BufferInv'
<1>1. CASE \E m \in ToServer : ClientSends(m)
  <2>1. PICK m \in ToServer : reader = "server" /\ Write(m)
    BY <1>1 DEF ClientSends
  <2>2. m \in Messages /\ m.id # MSG_RESP
    BY MessageAssumption
  <2> QED BY <2>1, <2>2, WriteStep
<1>2. CASE \E m \in ToClient : ServerSends(m)
  <2>1. PICK m \in ToClient : reader = "client" /\ Write(m)
    BY <1>2 DEF ServerSends
  <2>2. m \in Messages
    BY MessageAssumption
  <2> QED BY <2>1, <2>2, WriteStep
<1>3. CASE GetBuffered
  BY <1>3, BufferedStep
<1>4. CASE ServerReads \/ ClientReads
  BY <1>4, ConnectionStep
<1>5. CASE LoadReads
  BY <1>5, LoadStep
<1>6. CASE UNCHANGED vars
  <2>1. SentInv' /\ GotInv'
    BY <1>6 DEF vars, BufferInv, SentInv, GotInv
  <2>2. Filled(buffer_, pos_)' /\ Conserved'
    BY <1>6 DEF vars, BufferInv, Filled, Conserved, MakeUp, Parts, Upto
  <2>3. Uncut' /\ EndInv'
    BY <1>6 DEF vars, BufferInv, Uncut, InStatus, Upto, EndInv, Deserialize, DeserializeAuth,
                DeserializeQuit, DeserializeStatus, DeserializeClientText, DeserializeServerText
  <2> QED BY <2>1, <2>2, <2>3 DEF BufferInv
<1> QED BY <1>1, <1>2, <1>3, <1>4, <1>5, <1>6 DEF Next, GetMessage

LEMMA BufferInvariant ==
  ASSUME CutStatus = FALSE
  PROVE  Spec => []BufferInv
<1>1. BufferInv /\ [Next]_vars => BufferInv'
  BY NextBuffer
<1> QED BY InitBuffer, <1>1, PTL DEF Spec

LEMMA BufferStuck == BufferInv => Stuck
BY StuckIf DEF BufferInv, Together

\* If the bytes of a status arrive together, pos_ stays in the array, whatever
\* is sent or saved and however the stream is cut, and nothing of earlier
\* messages is left beyond it.
THEOREM BufferIsSound ==
  ASSUME CutStatus = FALSE
  PROVE  Spec => []BufferTypeOK
<1>1. BufferInv => BufferTypeOK
  BY DEF BufferInv, SentInv, Filled, BufferTypeOK
<1> QED BY BufferInvariant, <1>1, PTL

\* getMessage returns what was sent or saved, complete, unchanged and in order,
\* for every set of messages and every way to cut them.
THEOREM MessagesComeOut ==
  ASSUME CutStatus = FALSE
  PROVE  Spec => []GotIsPrefix
<1>1. BufferInv => GotIsPrefix
  <2> SUFFICES ASSUME BufferInv PROVE GotIsPrefix
    OBVIOUS
  <2>1. Len(got) <= Len(sent) /\ got \in Seq(Messages) /\ got = SubSeq(sent, 1, Len(got))
    BY DEF BufferInv, GotInv
  <2>2. SubSeq(got, 1, Len(got)) = got
    BY <2>1, WholeSubSeq
  <2> QED BY <2>1, <2>2 DEF GotIsPrefix, IsPrefix
<1> QED BY BufferInvariant, <1>1, PTL

\* rewind and getData neither lose a byte nor count one twice.
THEOREM NoByteIsLost ==
  ASSUME CutStatus = FALSE
  PROVE  Spec => []BytesConserved
<1>1. BufferInv => BytesConserved
  <2> SUFFICES ASSUME BufferInv PROVE BytesConserved
    OBVIOUS
  <2>1. got = SubSeq(sent, 1, Len(got))
    BY DEF BufferInv, GotInv
  <2>2. Bytes(got) = Upto(sent, Len(got))
    BY <2>1 DEF Upto
  <2> QED BY <2>2 DEF BufferInv, Conserved, MakeUp, Parts, BytesConserved
<1> QED BY BufferInvariant, <1>1, PTL

\* A buffer in which getMessage finds nothing has space for the next recv().
THEOREM SpaceIsLeft ==
  ASSUME CutStatus = FALSE
  PROVE  Spec => []NeverJammed
<1>1. Stuck => NeverJammed
  BY DEF Stuck, NeverJammed
<1> QED BY BufferInvariant, BufferStuck, <1>1, PTL

\* Nothing is assumed of statuses where none is sent.
LoadInv == IF reader = "client" THEN ended = FALSE ELSE BufferInv

LEMMA NextLoad ==
  ASSUME LoadInv, [Next]_vars
  PROVE  LoadInv'
<1>1. reader' = reader
  BY DEF Next, ClientSends, ServerSends, Write, GetMessage, GetBuffered, ServerReads,
         ClientReads, LoadReads, Received, GetData, vars
<1>2. CASE reader = "client"
  <2>1. ended' = ended
    BY <1>2 DEF Next, ClientSends, ServerSends, Write, GetMessage, GetBuffered, ServerReads,
                ClientReads, LoadReads, Received, vars
  <2> QED BY <1>1, <1>2, <2>1 DEF LoadInv
<1>3. CASE reader # "client"
  BY <1>1, <1>3, NextBuffer DEF LoadInv
<1> QED BY <1>2, <1>3

\* Database::load returns every record that reached the file as a whole, and
\* stops before the one that was cut.
THEOREM LoadsAll == Spec => []LoadsWhole
<1>1. Init => LoadInv
  BY InitBuffer DEF LoadInv, Init
<1>2. LoadInv /\ [Next]_vars => LoadInv'
  BY NextLoad
<1>3. BufferInv /\ Stuck => LoadsWhole
  BY DEF BufferInv, EndInv, Stuck, LoadsWhole
<1>4. LoadInv => LoadsWhole
  <2>1. ended = FALSE => LoadsWhole
    BY DEF LoadsWhole
  <2> QED BY <1>3, <2>1, BufferStuck DEF LoadInv
<1> QED BY <1>1, <1>2, <1>4, PTL DEF Spec
=============================================================================
