------------------------ MODULE ServerProcessProofs ------------------------
(***************************************************************************)
(* Theorems about the database file over the runs of the server, for any   *)
(* number of runs, texts and accounts, every first file and every fault.   *)
(***************************************************************************)
EXTENDS ServerProcessProperties, SequenceLemmas

Kinds == {"text", "user"}

(***************************************************************************)
(* What load() reads, by induction on the length of the file.              *)
(***************************************************************************)
IsReadable(file, n) ==
  /\ n \in 0 .. Len(file)
  /\ \A i \in 1 .. n : file[i] # Torn
  /\ n < Len(file) => file[n+1] = Torn

LEMMA ReadableIs ==
  ASSUME NEW T, NEW file \in Seq(T)
  PROVE  IsReadable(file, Readable(file))
<1> DEFINE S == {n \in Nat : n <= Len(file) =>
                   \/ \A i \in 1 .. n : file[i] # Torn
                   \/ \E m \in Nat : IsReadable(file, m)}
<1>1. 0 \in S OBVIOUS
<1>2. ASSUME NEW n \in Nat, n \in S PROVE n + 1 \in S
  <2> SUFFICES ASSUME n + 1 <= Len(file), ~ \E m \in Nat : IsReadable(file, m)
               PROVE  \A i \in 1 .. n+1 : file[i] # Torn
    OBVIOUS
  <2>1. \A i \in 1 .. n : file[i] # Torn BY <1>2
  <2>2. file[n+1] # Torn
    <3>1. SUFFICES ASSUME file[n+1] = Torn PROVE FALSE OBVIOUS
    <3>2. IsReadable(file, n) BY <2>1, <3>1 DEF IsReadable
    <3> QED BY <3>2
  <2> QED BY <2>1, <2>2
<1>3. Len(file) \in S
  <2> HIDE DEF S
  <2> QED BY <1>1, <1>2, NatSetInduction
<1>4. \E m \in Nat : IsReadable(file, m)
  <2>1. CASE \A i \in 1 .. Len(file) : file[i] # Torn
    <3>1. IsReadable(file, Len(file)) BY <2>1 DEF IsReadable
    <3> QED BY <3>1
  <2> QED BY <1>3, <2>1
<1>5. Readable(file) = CHOOSE n \in 0 .. Len(file) : IsReadable(file, n)
  BY DEF Readable, IsReadable
<1>6. \E m \in 0 .. Len(file) : IsReadable(file, m) BY <1>4 DEF IsReadable
<1> QED BY <1>5, <1>6

Extends(a, kind, file, i) ==
  IF file[i].kind = kind THEN Append(a, file[i]) ELSE a

IsUpto(f, kind, file) ==
  f = [i \in 0 .. Readable(file) |->
        IF i = 0 THEN <<>>
        ELSE IF file[i].kind = kind THEN Append(f[i-1], file[i])
        ELSE f[i-1]]
UptoFor(kind, file) == CHOOSE f : IsUpto(f, kind, file)

LEMMA AddedUpto ==
  ASSUME NEW kind, NEW file
  PROVE  Added(kind, file) = UptoFor(kind, file)[Readable(file)]
BY DEF Added, UptoFor, IsUpto

LEMMA UptoType ==
  ASSUME NEW T, NEW file \in Seq(T), NEW kind \in Kinds
  PROVE  /\ UptoFor(kind, file)[0] = <<>>
         /\ \A i \in 1 .. Readable(file) :
              UptoFor(kind, file)[i] =
                Extends(UptoFor(kind, file)[i-1], kind, file, i)
<1> DEFINE V == Seq(T)
           n == Readable(file)
           step == [i \in 1 .. n |-> [v \in V |-> Extends(v, kind, file, i)]]
<1>0. n \in Nat /\ n <= Len(file) BY ReadableIs DEF IsReadable
<1>1. step \in [1 .. n -> [V -> V]]
  <2>1. ASSUME NEW i \in 1 .. n, NEW v \in V PROVE Extends(v, kind, file, i) \in V
    <3>1. file[i] \in T BY <1>0
    <3> QED BY <3>1 DEF Extends
  <2> HIDE DEF V, n
  <2> QED BY <2>1
<1>2. PICK f \in [0 .. n -> V] : Recursion(f, n, <<>>, step)
  <2>1. <<>> \in V OBVIOUS
  <2> HIDE DEF step, V, n
  <2> QED BY <1>0, <1>1, <2>1, RecursiveFunction
<1>3. IsUpto(f, kind, file)
  <2>1. ASSUME NEW i \in 1 .. n PROVE step[i][f[i-1]] = Extends(f[i-1], kind, file, i)
    <3>1. i - 1 \in 0 .. n BY <1>0
    <3> HIDE DEF V, n
    <3>2. f[i-1] \in V BY <1>2, <3>1
    <3> QED BY <3>2
  <2> HIDE DEF step, V
  <2>2. f[0] = <<>> /\ \A i \in 1 .. n : f[i] = step[i][f[i-1]]
    BY <1>2 DEF Recursion
  <2>3. ASSUME NEW i \in 0 .. n
        PROVE  f[i] = IF i = 0 THEN <<>>
                      ELSE IF file[i].kind = kind THEN Append(f[i-1], file[i])
                      ELSE f[i-1]
    <3>1. i = 0 \/ i \in 1 .. n BY <1>0
    <3> HIDE DEF n
    <3> QED BY <2>1, <2>2, <3>1 DEF Extends
  <2> QED BY <1>2, <2>3 DEF IsUpto
<1>4. IsUpto(UptoFor(kind, file), kind, file) BY <1>3 DEF UptoFor
<1>5. UptoFor(kind, file)[0] = <<>> BY <1>0, <1>4 DEF IsUpto
<1>6. ASSUME NEW i \in 1 .. Readable(file)
      PROVE  UptoFor(kind, file)[i] = Extends(UptoFor(kind, file)[i-1], kind, file, i)
  <2>1. i \in 0 .. Readable(file) /\ i # 0 BY <1>0
  <2> QED BY <1>4, <2>1 DEF IsUpto, Extends
<1> QED BY <1>5, <1>6

\* a holds the records of a kind among the first n of the file: g tells where
\* each of them stands.
Stands(g, a, kind, file, n) ==
  /\ g \in [1 .. Len(a) -> 1 .. n]
  /\ \A k \in 1 .. Len(a) : a[k] = file[g[k]] /\ a[k].kind = kind
  /\ \A k, l \in 1 .. Len(a) : k < l => g[k] < g[l]
  /\ \A i \in 1 .. n : file[i].kind = kind => \E k \in 1 .. Len(a) : g[k] = i
Selected(a, kind, file, n) == \E g : Stands(g, a, kind, file, n)

LEMMA SelectNext ==
  ASSUME NEW T, NEW file \in Seq(T), NEW kind \in Kinds, NEW n \in Nat,
         n < Len(file), NEW a \in Seq(T), Selected(a, kind, file, n)
  PROVE  Selected(Extends(a, kind, file, n + 1), kind, file, n + 1)
<1> DEFINE b == Extends(a, kind, file, n + 1)
<1>0. file[n+1] \in T /\ Len(a) \in Nat OBVIOUS
<1>1. PICK g : Stands(g, a, kind, file, n) BY DEF Selected
<1>2. CASE file[n+1].kind = kind
  <2> DEFINE h == [k \in 1 .. Len(a) + 1 |-> IF k = Len(a) + 1 THEN n + 1 ELSE g[k]]
  <2>1. /\ b = Append(a, file[n+1]) /\ Len(b) = Len(a) + 1 /\ b[Len(a)+1] = file[n+1]
        /\ \A k \in 1 .. Len(a) : b[k] = a[k]
    BY <1>0, <1>2 DEF Extends
  <2>2. \A k \in 1 .. Len(a) : h[k] = g[k] BY <1>0
  <2>3. h[Len(a)+1] = n + 1 BY <1>0
  <2>4. \A k \in 1 .. Len(a) + 1 : k = Len(a) + 1 \/ k \in 1 .. Len(a) BY <1>0
  <2>5. h \in [1 .. Len(a) + 1 -> 1 .. n + 1] BY <1>0, <1>1 DEF Stands
  <2> HIDE DEF h, b
  <2>6. \A k \in 1 .. Len(b) : b[k] = file[h[k]] /\ b[k].kind = kind
    BY <1>1, <1>2, <2>1, <2>2, <2>3, <2>4 DEF Stands
  <2>7. \A k, l \in 1 .. Len(b) : k < l => h[k] < h[l]
    <3> SUFFICES ASSUME NEW k \in 1 .. Len(b), NEW l \in 1 .. Len(b), k < l
                 PROVE  h[k] < h[l]
      OBVIOUS
    <3>1. k \in 1 .. Len(a) /\ g[k] \in 1 .. n BY <1>0, <1>1, <2>1 DEF Stands
    <3>2. CASE l = Len(a) + 1 BY <2>2, <2>3, <3>1, <3>2
    <3>3. CASE l \in 1 .. Len(a) BY <1>1, <2>2, <3>1, <3>3 DEF Stands
    <3> QED BY <2>1, <2>4, <3>2, <3>3
  <2>8. ASSUME NEW i \in 1 .. n + 1, file[i].kind = kind
        PROVE  \E k \in 1 .. Len(b) : h[k] = i
    <3>1. CASE i = n + 1 BY <1>0, <2>1, <2>3, <3>1
    <3>2. CASE i \in 1 .. n
      <4>1. PICK k \in 1 .. Len(a) : g[k] = i BY <1>1, <2>8, <3>2 DEF Stands
      <4>2. k \in 1 .. Len(b) /\ h[k] = i BY <1>0, <2>1, <2>2, <4>1
      <4> QED BY <4>2
    <3> QED BY <3>1, <3>2
  <2>9. Stands(h, b, kind, file, n + 1) BY <2>1, <2>5, <2>6, <2>7, <2>8 DEF Stands
  <2> QED BY <2>9 DEF Selected, b
<1>3. CASE file[n+1].kind # kind
  <2>1. b = a BY <1>3 DEF Extends
  <2>2. g \in [1 .. Len(a) -> 1 .. n + 1] BY <1>1 DEF Stands
  <2>3. ASSUME NEW i \in 1 .. n + 1, file[i].kind = kind
        PROVE  \E k \in 1 .. Len(a) : g[k] = i
    <3>1. i \in 1 .. n BY <1>3, <2>3
    <3> QED BY <1>1, <2>3, <3>1 DEF Stands
  <2>4. Stands(g, a, kind, file, n + 1) BY <1>1, <2>2, <2>3 DEF Stands
  <2> QED BY <2>1, <2>4 DEF Selected
<1> QED BY <1>2, <1>3

LEMMA AddedSelects ==
  ASSUME NEW T, NEW file \in Seq(T), NEW kind \in Kinds
  PROVE  /\ Added(kind, file) \in Seq(T)
         /\ Selected(Added(kind, file), kind, file, Readable(file))
<1> DEFINE u == UptoFor(kind, file)
           n == Readable(file)
           S == {i \in Nat : i <= n => u[i] \in Seq(T) /\ Selected(u[i], kind, file, i)}
<1>0. n \in Nat /\ n <= Len(file) BY ReadableIs DEF IsReadable
<1>1. 0 \in S
  <2>1. u[0] = <<>> BY UptoType
  <2>2. Stands(<<>>, <<>>, kind, file, 0) BY DEF Stands
  <2>3. <<>> \in Seq(T) /\ Selected(<<>>, kind, file, 0) BY <2>2 DEF Selected
  <2> HIDE DEF u, n
  <2> QED BY <2>1, <2>3
<1>2. ASSUME NEW i \in Nat, i \in S PROVE i + 1 \in S
  <2> SUFFICES ASSUME i + 1 <= n
               PROVE  u[i+1] \in Seq(T) /\ Selected(u[i+1], kind, file, i + 1)
    OBVIOUS
  <2>1. u[i] \in Seq(T) /\ Selected(u[i], kind, file, i) BY <1>0, <1>2
  <2>2. u[i+1] = Extends(u[i], kind, file, i + 1)
    <3>1. i + 1 \in 1 .. n /\ (i + 1) - 1 = i BY <1>0
    <3> QED BY <3>1, UptoType
  <2>3. file[i+1] \in T /\ i < Len(file) BY <1>0
  <2> DEFINE a == u[i]
  <2>4. a \in Seq(T) /\ Selected(a, kind, file, i) BY <2>1
  <2>5. u[i+1] = Extends(a, kind, file, i + 1) BY <2>2
  <2> HIDE DEF a, u
  <2>6. Selected(Extends(a, kind, file, i + 1), kind, file, i + 1)
    BY <2>3, <2>4, SelectNext
  <2>7. Extends(a, kind, file, i + 1) \in Seq(T) BY <2>3, <2>4 DEF Extends
  <2> QED BY <2>5, <2>6, <2>7
<1>3. n \in S
  <2> HIDE DEF S
  <2> QED BY <1>0, <1>1, <1>2, NatSetInduction
<1>4. u[n] = Added(kind, file) BY AddedUpto
<1> QED BY <1>0, <1>3, <1>4

(***************************************************************************)
(* What a file holds, and what load() makes of it.                         *)
(***************************************************************************)
LEMMA RecordForms ==
  ASSUME NEW r \in Records \cup {Torn}
  PROVE  /\ r.kind = "text" => r.n \in 1 .. MaxTexts /\ r = Text(r.n)
         /\ r.kind = "user" => r.name \in Users /\ r = User(r.name)
         /\ r.kind \in Kinds => r # Torn
         /\ r # Torn => r \in Records
BY DEF Records, Text, User, Other, Torn, Kinds

LEMMA RecordsOfMemory ==
  /\ \A n \in 1 .. MaxTexts : Text(n) \in Records /\ Text(n).kind = "text" /\ Text(n).n = n
  /\ \A u \in Users : User(u) \in Records /\ User(u).kind = "user" /\ User(u).name = u
BY DEF Records, Text, User

\* In a file of which at most the last record is torn load() reads every
\* text and every user.
OnlyLastTorn(file) == \A i \in DOMAIN file : file[i] = Torn => i = Len(file)

LEMMA ReadsAll ==
  ASSUME NEW file \in Seq(Records \cup {Torn}), OnlyLastTorn(file),
         NEW i \in DOMAIN file, file[i].kind \in Kinds
  PROVE  i \in 1 .. Readable(file)
<1>1. IsReadable(file, Readable(file)) BY ReadableIs
<1>2. file[i] # Torn
  <2>1. file[i] \in Records \cup {Torn} OBVIOUS
  <2> QED BY <2>1, RecordForms
<1>3. CASE Readable(file) < Len(file)
  <2>1. Readable(file) + 1 \in DOMAIN file /\ file[Readable(file) + 1] = Torn
    BY <1>1, <1>3 DEF IsReadable
  <2>2. Readable(file) + 1 = Len(file) BY <2>1 DEF OnlyLastTorn
  <2>3. i # Len(file) BY <1>2, <2>1, <2>2
  <2> QED BY <1>1, <2>2, <2>3 DEF IsReadable
<1> QED BY <1>1, <1>3 DEF IsReadable

LEMMA LoadedForms ==
  ASSUME NEW file \in Seq(Records \cup {Torn})
  PROVE  /\ UsersOf(file) \in Seq(Users) /\ BacklogOf(file) \in Seq(1 .. MaxTexts)
         /\ Len(UsersOf(file)) = Len(Added("user", file))
         /\ \A i \in 1 .. Len(UsersOf(file)) : User(UsersOf(file)[i]) = Added("user", file)[i]
         /\ Len(BacklogOf(file)) = Len(Added("text", file))
         /\ \A i \in 1 .. Len(BacklogOf(file)) :
              Text(BacklogOf(file)[i]) = Added("text", file)[i]
<1> DEFINE us == Added("user", file)
           ts == Added("text", file)
<1>1. /\ us \in Seq(Records \cup {Torn}) /\ Selected(us, "user", file, Readable(file))
      /\ ts \in Seq(Records \cup {Torn}) /\ Selected(ts, "text", file, Readable(file))
  BY AddedSelects DEF Kinds
<1>2. UsersOf(file) = [i \in 1 .. Len(us) |-> us[i].name] BY <1>1 DEF UsersOf
<1>3. BacklogOf(file) = [i \in 1 .. Len(ts) |-> ts[i].n] BY <1>1 DEF BacklogOf
<1> HIDE DEF us, ts
<1>4. ASSUME NEW i \in 1 .. Len(us) PROVE us[i].name \in Users /\ us[i] = User(us[i].name)
  <2>1. us[i] \in Records \cup {Torn} /\ us[i].kind = "user" BY <1>1 DEF Selected, Stands
  <2> QED BY <2>1, RecordForms
<1>5. ASSUME NEW i \in 1 .. Len(ts) PROVE ts[i].n \in 1 .. MaxTexts /\ ts[i] = Text(ts[i].n)
  <2>1. ts[i] \in Records \cup {Torn} /\ ts[i].kind = "text" BY <1>1 DEF Selected, Stands
  <2> QED BY <2>1, RecordForms
<1>6. Len(us) \in Nat /\ Len(ts) \in Nat BY <1>1
<1>7. UsersOf(file) \in Seq(Users) /\ Len(UsersOf(file)) = Len(us) BY <1>2, <1>4, <1>6
<1>8. BacklogOf(file) \in Seq(1 .. MaxTexts) /\ Len(BacklogOf(file)) = Len(ts)
  BY <1>3, <1>5, <1>6
<1>9. \A i \in 1 .. Len(us) : User(UsersOf(file)[i]) = us[i] BY <1>2, <1>4
<1>10. \A i \in 1 .. Len(ts) : Text(BacklogOf(file)[i]) = ts[i] BY <1>3, <1>5
<1> QED BY <1>7, <1>8, <1>9, <1>10 DEF us, ts

\* The texts of a file that holds them in order are loaded in order.
LEMMA LoadsInOrder ==
  ASSUME NEW file \in Seq(Records \cup {Torn}), InOrder(file)
  PROVE  Rising(BacklogOf(file)) /\ \A i \in DOMAIN BacklogOf(file) : BacklogOf(file)[i] <= taken
<1> DEFINE ts == Added("text", file)
           bs == BacklogOf(file)
<1>1. PICK g : Stands(g, ts, "text", file, Readable(file))
  BY AddedSelects DEF Selected, Kinds
<1>2. /\ bs \in Seq(1 .. MaxTexts) /\ Len(bs) = Len(ts)
      /\ \A i \in 1 .. Len(bs) : Text(bs[i]) = ts[i]
  BY LoadedForms
<1>3. Readable(file) \in 0 .. Len(file) BY ReadableIs DEF IsReadable
<1> HIDE DEF ts, bs
<1>4. ASSUME NEW i \in 1 .. Len(bs)
      PROVE  /\ g[i] \in DOMAIN file /\ file[g[i]].kind = "text"
             /\ bs[i] = file[g[i]].n
  <2>1. g[i] \in 1 .. Readable(file) /\ ts[i] = file[g[i]] /\ ts[i].kind = "text"
    BY <1>1, <1>2 DEF Stands
  <2>2. bs[i] \in 1 .. MaxTexts BY <1>2, ProcessAssumption
  <2>3. ts[i].n = bs[i] BY <1>2, <2>2, RecordsOfMemory
  <2> QED BY <1>3, <2>1, <2>3
<1>5. DOMAIN bs = 1 .. Len(bs) BY <1>2
<1>6. \A i \in 1 .. Len(bs) : bs[i] <= taken BY <1>4 DEF InOrder
<1>7. ASSUME NEW i \in 1 .. Len(bs), NEW j \in 1 .. Len(bs), i < j PROVE bs[i] < bs[j]
  <2>1. g[i] < g[j] BY <1>1, <1>2, <1>7 DEF Stands
  <2> QED BY <1>4, <2>1 DEF InOrder
<1> QED BY <1>5, <1>6, <1>7 DEF Rising, bs

\* What a file holds is in memory after load().
LEMMA LoadsDatabase ==
  ASSUME NEW file \in Seq(Records \cup {Torn}), OnlyLastTorn(file)
  PROVE  InDatabase(file)
           \subseteq {Text(BacklogOf(file)[i]) : i \in 1 .. Len(BacklogOf(file))}
                     \cup {User(UsersOf(file)[i]) : i \in 1 .. Len(UsersOf(file))}
<1> DEFINE us == Added("user", file)
           ts == Added("text", file)
           R == Readable(file)
<1>1. Selected(us, "user", file, R) /\ Selected(ts, "text", file, R)
  BY AddedSelects DEF Kinds
<1>2. SUFFICES ASSUME NEW r \in InDatabase(file)
      PROVE  \/ \E k \in 1 .. Len(us) : r = us[k]
             \/ \E k \in 1 .. Len(ts) : r = ts[k]
  BY LoadedForms
<1>3. PICK i \in DOMAIN file : file[i] = r BY DEF InDatabase, Range
<1>4. file[i].kind \in Kinds BY <1>3 DEF InDatabase, Kinds
<1>5. i \in 1 .. R BY <1>4, ReadsAll
<1> HIDE DEF us, ts, R
<1>6. CASE file[i].kind = "user"
  <2>1. PICK g : Stands(g, us, "user", file, R) BY <1>1 DEF Selected
  <2>2. PICK k \in 1 .. Len(us) : g[k] = i BY <1>5, <1>6, <2>1 DEF Stands
  <2>3. us[k] = file[i] BY <2>1, <2>2 DEF Stands
  <2> QED BY <1>3, <2>3
<1>7. CASE file[i].kind = "text"
  <2>1. PICK g : Stands(g, ts, "text", file, R) BY <1>1 DEF Selected
  <2>2. PICK k \in 1 .. Len(ts) : g[k] = i BY <1>5, <1>7, <2>1 DEF Stands
  <2>3. ts[k] = file[i] BY <2>1, <2>2 DEF Stands
  <2> QED BY <1>3, <2>3
<1> QED BY <1>4, <1>6, <1>7 DEF Kinds

LEMMA NothingInNoFile ==
  InDatabase(NoFile) = {} /\ BacklogOf(NoFile) = <<>> /\ Len(BacklogOf(NoFile)) = 0
<1>1. NoFile \in Seq({Torn}) /\ Len(NoFile) = 2 /\ NoFile[1] = Torn /\ NoFile[2] = Torn
  BY DEF NoFile
<1>2. InDatabase(NoFile) = {}
  <2>1. \A i \in DOMAIN NoFile : NoFile[i] = Torn BY <1>1
  <2>2. Torn.kind = "torn" BY DEF Torn
  <2> QED BY <2>1, <2>2 DEF InDatabase, Range
<1>3. Readable(NoFile) = 0
  <2>1. IsReadable(NoFile, Readable(NoFile)) BY <1>1, ReadableIs
  <2> QED BY <1>1, <2>1 DEF IsReadable
<1> DEFINE ts == Added("text", NoFile)
<1>4. ts \in Seq({Torn}) /\ Selected(ts, "text", NoFile, 0)
  BY <1>1, <1>3, AddedSelects DEF Kinds
<1>5. Len(ts) = 0
  <2> HIDE DEF ts
  <2>1. PICK g : g \in [1 .. Len(ts) -> 1 .. 0] BY <1>4 DEF Selected, Stands
  <2>2. Len(ts) \in Nat BY <1>4
  <2> QED BY <2>1, <2>2
<1>6. BacklogOf(NoFile) = [i \in 1 .. 0 |-> ts[i].n]
  BY <1>4, <1>5 DEF BacklogOf
<1> QED BY <1>2, <1>6

(***************************************************************************)
(* Every variable keeps its type.                                          *)
(***************************************************************************)
LEMMA NextCases ==
  ASSUME [Next]_vars
  PROVE  \/ Start \/ BadSettings \/ GoodSettings \/ DatabaseInit \/ Bind
         \/ StartWaiting \/ StopWaiting \/ OpenFile \/ WriteText \/ WriteUsers
         \/ WriteUser \/ CloseFile \/ Exit \/ AcceptFails \/ Sigint \/ WriteFails
         \/ AddMsg \/ Crash
         \/ \E u \in Users : AddUser(u)
         \/ \E k \in Nat, part \in BOOLEAN : Flush(k, part)
         \/ UNCHANGED vars
BY ProcessAssumption DEF Next, MainStep

LEMMA DatabaseType ==
  ASSUME NEW file \in Seq(Records \cup {Torn})
  PROVE  InDatabase(file) \subseteq Records
<1> SUFFICES ASSUME NEW r \in InDatabase(file) PROVE r \in Records
  OBVIOUS
<1>1. r \in Records \cup {Torn} /\ r.kind \in Kinds BY DEF InDatabase, Range, Kinds
<1> QED BY <1>1, RecordForms

LEMMA StillSavedType ==
  ASSUME ProcessTypeOK PROVE StillSaved \subseteq Records
BY DEF ProcessTypeOK, StillSaved

LEMMA InFileType ==
  ASSUME ProcessTypeOK, NEW k \in 0 .. Len(stream), NEW part \in BOOLEAN
  PROVE  /\ InFile(k, part) \in Seq(Records \cup {Torn})
         /\ Len(InFile(k, part)) = IF part THEN k + 1 ELSE k
         /\ \A i \in 1 .. k : InFile(k, part)[i] = stream[i]
         /\ part => InFile(k, part)[k+1] = Torn
<1> DEFINE s == SubSeq(stream, 1, k)
           R == Records \cup {Torn}
<1>1. stream \in Seq(R)
  <2>1. stream \in Seq(Records) BY DEF ProcessTypeOK
  <2> QED BY <2>1
<1> HIDE DEF R
<1>2. s \in Seq(R) /\ Len(s) = k /\ \A i \in 1 .. k : s[i] = stream[i] BY <1>1
<1>3. Torn \in R BY DEF R
<1> HIDE DEF s
<1>4. CASE part
  <2>1. InFile(k, part) = s \o <<Torn>> BY <1>4 DEF InFile, s
  <2>2. InFile(k, part) \in Seq(R) BY <1>2, <1>3, <2>1
  <2>3. Len(InFile(k, part)) = k + 1 BY <1>2, <2>1
  <2>4. \A i \in 1 .. k : InFile(k, part)[i] = stream[i] BY <1>2, <2>1
  <2>5. InFile(k, part)[k+1] = Torn BY <1>2, <2>1
  <2> QED BY <1>4, <2>2, <2>3, <2>4, <2>5 DEF R
<1>5. CASE ~part
  <2>1. InFile(k, part) = s \o <<>> BY <1>5 DEF InFile, s
  <2> QED BY <1>2, <1>5, <2>1 DEF R
<1> QED BY <1>4, <1>5

Flags == running_ \in BOOLEAN /\ failed \in BOOLEAN /\ asked \in BOOLEAN

Control ==
  /\ at \in {"down", "settings", "load", "bind", "made", "loop", "open",
             "texts", "users", "gone"}
  /\ server \in {"null", "set", "dangling"}
  /\ runs \in 0..MaxRuns /\ taken \in 0..MaxTexts

Memory == users_ \in Seq(Users) /\ backlog_ \in Seq(1..MaxTexts)

Saving ==
  /\ stream \in Seq(Records) /\ flushed \in 0..Len(stream)
  /\ next \in 1..limit + 1 /\ limit \in Nat
  /\ disk = NoFile \/ disk \in Seq(Records \cup {Torn})

History == atStop \in [texts : Seq(Records), users : Seq(Records)] /\ durable \subseteq Records

LEMMA TypeParts == ProcessTypeOK <=> Flags /\ Control /\ Memory /\ Saving /\ History
BY DEF ProcessTypeOK, Flags, Control, Memory, Saving, History

LEMMA Lengths ==
  ASSUME ProcessTypeOK
  PROVE  /\ backlog_ \in Seq(1 .. MaxTexts) /\ users_ \in Seq(Users)
         /\ Len(backlog_) \in Nat /\ Len(users_) \in Nat
         /\ next \in 1 .. limit + 1 /\ limit \in Nat /\ Len(stream) \in Nat
         /\ stream \in Seq(Records) /\ flushed \in 0 .. Len(stream)
         /\ TextsToSave \in Int /\ UsersToSave \in Int
<1>1. /\ backlog_ \in Seq(1 .. MaxTexts) /\ users_ \in Seq(Users)
      /\ Len(backlog_) \in Nat /\ Len(users_) \in Nat
      /\ next \in 1 .. limit + 1 /\ limit \in Nat /\ Len(stream) \in Nat
      /\ stream \in Seq(Records) /\ flushed \in 0 .. Len(stream)
  <2>1. Memory /\ Saving BY TypeParts
  <2>2. /\ backlog_ \in Seq(1 .. MaxTexts) /\ users_ \in Seq(Users)
        /\ Len(backlog_) \in Nat /\ Len(users_) \in Nat
    BY <2>1 DEF Memory
  <2> QED BY <2>1, <2>2 DEF Saving
<1> QED BY <1>1 DEF TextsToSave, UsersToSave

LEMMA LengthsNext ==
  ASSUME ProcessTypeOK'
  PROVE  /\ Len(backlog_') \in Nat /\ Len(users_') \in Nat
         /\ TextsToSave' \in Int /\ UsersToSave' \in Int
<1>1. /\ Len(backlog_') \in Nat /\ Len(users_') \in Nat
      /\ next' \in 1 .. limit' + 1 /\ limit' \in Nat /\ Len(stream') \in Nat
  <2>1. Memory' /\ Saving'
    BY DEF ProcessTypeOK, Memory, Saving
  <2>2. Len(backlog_') \in Nat BY <2>1 DEF Memory
  <2>3. Len(users_') \in Nat BY <2>1 DEF Memory
  <2>4. Len(stream') \in Nat BY <2>1 DEF Saving
  <2>5. next' \in 1 .. limit' + 1 /\ limit' \in Nat BY <2>1 DEF Saving
  <2> QED BY <2>2, <2>3, <2>4, <2>5
<1> QED BY <1>1 DEF TextsToSave, UsersToSave

\* What StreamInv says of the place of the iterators.
LEMMA Iterators ==
  ASSUME ProcessTypeOK, StreamInv
  PROVE  /\ at = "texts" => limit <= Len(backlog_) /\ Len(stream) = next - 1
         /\ at = "users" => limit <= Len(users_) /\ Len(stream) + 1 - next \in 0 .. Len(backlog_)
<1>1. CASE at = "texts"
  <2>1. TextsToSave = limit /\ TextsWritten = next - 1 /\ UsersWritten = 0
    BY <1>1 DEF TextsToSave, TextsWritten, UsersWritten
  <2> QED BY <1>1, <2>1, Lengths DEF StreamInv
<1>2. CASE at = "users"
  <2>1. TextsToSave = Len(stream) + 1 - next /\ UsersToSave = limit
    BY <1>2 DEF TextsToSave, UsersToSave
  <2> QED BY <1>2, <2>1, Lengths DEF StreamInv
<1> QED BY <1>1, <1>2

LEMMA NextFlags ==
  ASSUME Flags, [Next]_vars PROVE Flags'
<1> USE DEF Flags, Ends, saveVars, dbVars, histVars
<1>1. CASE Start BY <1>1, Zenon DEF Start
<1>2. CASE StartWaiting BY <1>2, Zenon DEF StartWaiting
<1>3. CASE Sigint
  <2>1. running_' = FALSE \/ running_' = running_ BY <1>3, Zenon DEF Sigint, Stop
  <2> QED BY <1>3, <2>1, Zenon DEF Sigint
<1>4. CASE WriteFails BY <1>4, Zenon DEF WriteFails
<1>5. CASE OpenFile
  <2>1. failed' = FALSE \/ failed' = TRUE BY <1>5, Zenon DEF OpenFile
  <2> QED BY <1>5, <2>1, Zenon DEF OpenFile
<1>6. CASE UNCHANGED <<running_, failed, asked>> BY <1>6, Zenon
<1>7. \/ Start \/ StartWaiting \/ Sigint \/ WriteFails \/ OpenFile
      \/ UNCHANGED <<running_, failed, asked>>
  <2> USE DEF Write, LeaveLoop
  <2>1. CASE BadSettings \/ GoodSettings \/ DatabaseInit \/ Bind \/ Exit \/ Crash \/ UNCHANGED vars
    BY <2>1 DEF BadSettings, GoodSettings, DatabaseInit, Bind, Exit, Crash, vars
  <2>2. CASE StopWaiting \/ AcceptFails \/ WriteText \/ WriteUsers \/ WriteUser \/ CloseFile \/ AddMsg
    BY <2>2 DEF StopWaiting, AcceptFails, WriteText, WriteUsers, WriteUser, CloseFile, AddMsg
  <2>3. CASE \/ \E u \in Users : AddUser(u)
             \/ \E k \in Nat, part \in BOOLEAN : Flush(k, part)
    BY <2>3 DEF AddUser, Flush
  <2> QED BY <2>1, <2>2, <2>3, NextCases
<1> QED BY <1>1, <1>2, <1>3, <1>4, <1>5, <1>6, <1>7

LEMMA InitType == Init => ProcessTypeOK
<1> SUFFICES ASSUME Init PROVE ProcessTypeOK
  OBVIOUS
<1>1. disk = NoFile \/ disk \in Seq(Records)
  BY ProcessAssumption DEF Init
<1>2. disk = NoFile \/ disk \in Seq(Records \cup {Torn})
  BY <1>1
<1>3. Len(BacklogOf(disk)) \in 0 .. MaxTexts
  <2>1. CASE disk = NoFile BY <2>1, NothingInNoFile, ProcessAssumption
  <2>2. CASE disk # NoFile
    <3>1. /\ BacklogOf(disk) \in Seq(1 .. MaxTexts)
          /\ \A i \in DOMAIN BacklogOf(disk) : BacklogOf(disk)[i] = i
      BY <1>2, <2>2, LoadedForms, ProcessAssumption DEF Init
    <3> DEFINE b == BacklogOf(disk)
    <3>2. b \in Seq(1 .. MaxTexts) /\ \A i \in DOMAIN b : b[i] = i BY <3>1
    <3> HIDE DEF b
    <3>3. Len(b) \in 0 .. MaxTexts
      <4>1. Len(b) = 0 \/ Len(b) \in DOMAIN b BY <3>2
      <4>2. Len(b) \in DOMAIN b => b[Len(b)] \in 1 .. MaxTexts BY <3>2, ProcessAssumption
      <4> QED BY <3>2, <4>1, <4>2, ProcessAssumption
    <3> QED BY <3>3 DEF b
  <2> QED BY <2>1, <2>2
<1>4. InDatabase(disk) \subseteq Records
  BY <1>2, NothingInNoFile, DatabaseType
<1>5. <<>> \in Seq(Users) /\ <<>> \in Seq(1 .. MaxTexts) /\ <<>> \in Seq(Records) /\ Len(<<>>) = 0
  OBVIOUS
<1>6. Flags BY Zenon DEF Init, Flags
<1>7. Control BY <1>3, ProcessAssumption DEF Init, Control
<1>8. Memory BY <1>5 DEF Init, Memory
<1>9. Saving BY <1>2, <1>5 DEF Init, Saving
<1>10. History BY <1>4, <1>5 DEF Init, History
<1> QED BY <1>6, <1>7, <1>8, <1>9, <1>10, TypeParts

LEMMA NextControl ==
  ASSUME Control, [Next]_vars PROVE Control'
<1> USE ProcessAssumption DEF Control, Ends, saveVars, dbVars, histVars
<1>1. CASE Start \/ BadSettings \/ GoodSettings \/ Bind \/ StartWaiting \/ Exit \/ Sigint
  BY <1>1 DEF Start, BadSettings, GoodSettings, Bind, StartWaiting, Exit, Sigint
<1>2. CASE WriteFails \/ WriteText \/ WriteUser \/ UNCHANGED vars
  BY <1>2 DEF WriteFails, WriteText, WriteUser, Write, vars
<1>3. CASE DatabaseInit \/ OpenFile \/ WriteUsers \/ CloseFile \/ Crash
  BY <1>3 DEF DatabaseInit, Unreadable, OpenFile, WriteUsers, CloseFile, Crash
<1>4. CASE StopWaiting \/ AcceptFails
  BY <1>4 DEF StopWaiting, AcceptFails, LeaveLoop
<1>5. CASE AddMsg BY <1>5 DEF AddMsg, Race
<1>6. CASE \E u \in Users : AddUser(u) BY <1>6 DEF AddUser, Race
<1>7. CASE \E k \in Nat, part \in BOOLEAN : Flush(k, part) BY <1>7 DEF Flush
<1> QED BY <1>1, <1>2, <1>3, <1>4, <1>5, <1>6, <1>7, NextCases

LEMMA NextMemory ==
  ASSUME ProcessTypeOK, [Next]_vars PROVE Memory'
<1> USE DEF Memory, Ends, saveVars, dbVars, histVars
<1>0. Memory /\ <<>> \in Seq(Users) /\ <<>> \in Seq(1 .. MaxTexts) BY TypeParts
<1>1. CASE Start \/ BadSettings \/ GoodSettings \/ Bind \/ StartWaiting \/ Exit \/ Sigint
  BY <1>0, <1>1 DEF Start, BadSettings, GoodSettings, Bind, StartWaiting, Exit, Sigint
<1>2. CASE WriteFails \/ WriteText \/ WriteUser \/ UNCHANGED vars
  BY <1>0, <1>2 DEF WriteFails, WriteText, WriteUser, Write, vars
<1>3. CASE OpenFile \/ WriteUsers \/ CloseFile \/ Crash
  BY <1>0, <1>3 DEF OpenFile, WriteUsers, CloseFile, Crash
<1>4. CASE StopWaiting \/ AcceptFails
  BY <1>0, <1>4 DEF StopWaiting, AcceptFails, LeaveLoop
<1>5. CASE DatabaseInit
  <2>1. CASE FileExists(disk)
    <3>1. disk \in Seq(Records \cup {Torn})
      BY <2>1, TypeParts DEF Saving, FileExists
    <3>2. UsersOf(disk) \in Seq(Users) /\ BacklogOf(disk) \in Seq(1 .. MaxTexts)
      BY <3>1, LoadedForms
    <3> QED BY <1>0, <1>5, <3>2 DEF DatabaseInit, Unreadable
  <2>2. CASE ~FileExists(disk) BY <1>0, <1>5, <2>2 DEF DatabaseInit
  <2> QED BY <2>1, <2>2
<1>6. CASE AddMsg
  <2>1. taken + 1 \in 1 .. MaxTexts
    BY <1>6, TypeParts, ProcessAssumption DEF AddMsg, Control
  <2>2. Append(backlog_, taken + 1) \in Seq(1 .. MaxTexts) BY <1>0, <2>1
  <2> QED BY <1>0, <1>6, <2>2 DEF AddMsg, Race
<1>7. ASSUME NEW u \in Users, AddUser(u) PROVE Memory'
  <2>1. Append(users_, u) \in Seq(Users) BY <1>0
  <2> QED BY <1>0, <1>7, <2>1 DEF AddUser, Race
<1>8. CASE \E k \in Nat, part \in BOOLEAN : Flush(k, part) BY <1>0, <1>8 DEF Flush
<1> QED BY <1>1, <1>2, <1>3, <1>4, <1>5, <1>6, <1>7, <1>8, NextCases

\* Only save() touches the stream and the file.
LEMMA SaveFrame ==
  ASSUME [Next]_vars
  PROVE  \/ UNCHANGED <<saveVars, disk>>
         \/ OpenFile \/ WriteText \/ WriteUsers \/ WriteUser \/ CloseFile \/ WriteFails
         \/ \E k \in Nat, part \in BOOLEAN : Flush(k, part)
<1>1. CASE Start \/ BadSettings \/ GoodSettings \/ Bind \/ StartWaiting \/ Exit \/ Sigint
  BY <1>1 DEF Start, BadSettings, GoodSettings, Bind, StartWaiting, Exit, Sigint
<1>2. CASE StopWaiting \/ AcceptFails \/ DatabaseInit \/ Crash \/ UNCHANGED vars
  BY <1>2 DEF StopWaiting, AcceptFails, LeaveLoop, DatabaseInit, Crash, vars
<1>3. CASE AddMsg \/ \E u \in Users : AddUser(u)
  BY <1>3 DEF AddMsg, AddUser
<1> QED BY <1>1, <1>2, <1>3, NextCases

LEMMA NextSaving ==
  ASSUME ProcessTypeOK, StreamInv, [Next]_vars PROVE Saving'
<1> USE DEF Saving, saveVars
<1>0. Saving BY TypeParts
<1>1. CASE UNCHANGED <<saveVars, disk>> BY <1>0, <1>1
<1>2. CASE OpenFile
  <2>1. <<>> \in Seq(Records) /\ Len(<<>>) = 0 /\ <<>> \in Seq(Records \cup {Torn})
    OBVIOUS
  <2>2. Len(backlog_) \in Nat BY TypeParts DEF Memory
  <2>3. CASE UNCHANGED <<disk, stream, flushed, next, limit>> BY <1>0, <2>3
  <2>4. CASE ~UNCHANGED <<disk, stream, flushed, next, limit>>
    <3>1. /\ disk' = <<>> /\ stream' = <<>> /\ flushed' = Len(<<>>)
          /\ next' = 1 /\ limit' = Len(backlog_)
      BY <1>2, <2>4 DEF OpenFile, Truncated
    <3> QED BY <2>1, <2>2, <3>1
  <2> QED BY <2>3, <2>4
<1>3. CASE WriteText \/ WriteUser
  <2>1. PICK r \in Records : Write(r)
    <3>1. CASE WriteText
      <4>1. next \in 1 .. Len(backlog_) BY <1>0, <3>1, Iterators DEF WriteText, Write
      <4>2. backlog_[next] \in 1 .. MaxTexts
        BY <4>1, TypeParts, ProcessAssumption DEF Memory
      <4> QED BY <3>1, <4>2, RecordsOfMemory DEF WriteText
    <3>2. CASE WriteUser
      <4>1. next \in 1 .. Len(users_) BY <1>0, <3>2, Iterators DEF WriteUser, Write
      <4>2. users_[next] \in Users BY <4>1, TypeParts DEF Memory
      <4> QED BY <3>2, <4>2, RecordsOfMemory DEF WriteUser
    <3> QED BY <1>3, <3>1, <3>2
  <2>2. Append(stream, r) \in Seq(Records) /\ Len(Append(stream, r)) = Len(stream) + 1
    BY <1>0
  <2> QED BY <1>0, <2>1, <2>2 DEF Write
<1>4. CASE WriteUsers
  <2>1. Len(users_) \in Nat BY TypeParts DEF Memory
  <2> QED BY <1>0, <1>4, <2>1 DEF WriteUsers, LoopOver
<1>5. ASSUME NEW k \in Nat, NEW part \in BOOLEAN, Flush(k, part) PROVE Saving'
  <2>1. k \in 0 .. Len(stream) /\ flushed' = k /\ disk' = InFile(k, part)
    BY <1>0, <1>5 DEF Flush
  <2>2. InFile(k, part) \in Seq(Records \cup {Torn}) BY <2>1, InFileType
  <2> QED BY <1>0, <1>5, <2>1, <2>2 DEF Flush
<1>6. CASE CloseFile
  <2>1. stream \in Seq(Records \cup {Torn}) /\ Len(stream) \in Nat BY <1>0
  <2> QED BY <1>0, <1>6, <2>1 DEF CloseFile
<1>7. CASE WriteFails BY <1>0, <1>7 DEF WriteFails
<1> QED BY <1>1, <1>2, <1>3, <1>4, <1>5, <1>6, <1>7, SaveFrame

LEMMA NextHistory ==
  ASSUME ProcessTypeOK, [Next]_vars PROVE History'
<1> USE DEF History, histVars
<1>0. History /\ StillSaved \subseteq Records BY TypeParts, StillSavedType
<1>1. CASE Start \/ BadSettings \/ GoodSettings \/ Bind \/ StartWaiting \/ Exit \/ Sigint
  BY <1>0, <1>1 DEF Start, BadSettings, GoodSettings, Bind, StartWaiting, Exit, Sigint
<1>2. CASE WriteFails \/ WriteText \/ WriteUser \/ DatabaseInit \/ OpenFile \/ WriteUsers
           \/ UNCHANGED vars
  BY <1>0, <1>2 DEF WriteFails, WriteText, WriteUser, Write, DatabaseInit, OpenFile,
     WriteUsers, vars
<1>3. CASE StopWaiting \/ AcceptFails
  <2>1. LeaveLoop BY <1>3 DEF StopWaiting, AcceptFails
  <2> DEFINE bs == [i \in DOMAIN backlog_ |-> Text(backlog_[i])]
             us == [i \in DOMAIN users_ |-> User(users_[i])]
  <2>2. Memory BY TypeParts
  <2>3. \A i \in DOMAIN backlog_ : backlog_[i] \in 1 .. MaxTexts
    BY <2>2, ProcessAssumption DEF Memory
  <2>4. bs \in Seq(Records)
    <3>1. \A i \in DOMAIN backlog_ : Text(backlog_[i]) \in Records
      BY <2>3, RecordsOfMemory
    <3>2. DOMAIN backlog_ = 1 .. Len(backlog_) /\ Len(backlog_) \in Nat BY <2>2 DEF Memory
    <3> QED BY <3>1, <3>2
  <2>5. us \in Seq(Records)
    <3>1. \A i \in DOMAIN users_ : User(users_[i]) \in Records
      BY <2>2, RecordsOfMemory DEF Memory
    <3>2. DOMAIN users_ = 1 .. Len(users_) /\ Len(users_) \in Nat BY <2>2 DEF Memory
    <3> QED BY <3>1, <3>2
  <2>6. atStop' = [texts |-> bs, users |-> us] BY <2>1 DEF LeaveLoop
  <2>7. durable' = durable BY <2>1 DEF LeaveLoop
  <2> HIDE DEF bs, us
  <2> QED BY <1>0, <2>4, <2>5, <2>6, <2>7
<1>4. CASE CloseFile
  <2>1. stream \in Seq(Records \cup {Torn}) BY TypeParts DEF Saving
  <2>2. InDatabase(stream) \subseteq Records BY <2>1, DatabaseType
  <2> QED BY <1>0, <1>4, <2>2 DEF CloseFile
<1>5. CASE AddMsg \/ Crash BY <1>0, <1>5 DEF AddMsg, Crash, Race
<1>6. CASE \E u \in Users : AddUser(u) BY <1>0, <1>6 DEF AddUser, Race
<1>7. CASE \E k \in Nat, part \in BOOLEAN : Flush(k, part) BY <1>0, <1>7 DEF Flush
<1> QED BY <1>1, <1>2, <1>3, <1>4, <1>5, <1>6, <1>7, NextCases

LEMMA NextType ==
  ASSUME ProcessTypeOK, StreamInv, [Next]_vars
  PROVE  ProcessTypeOK'
<1>1. Flags' /\ Control' BY TypeParts, NextFlags, NextControl
<1>2. Memory' /\ Saving' /\ History' BY NextMemory, NextSaving, NextHistory
<1> QED BY <1>1, <1>2 DEF ProcessTypeOK, Flags, Control, Memory, Saving, History

(***************************************************************************)
(* The order of the texts, in memory and in the file.                      *)
(***************************************************************************)
LEMMA BacklogFrame ==
  ASSUME [Next]_vars
  PROVE  \/ UNCHANGED <<backlog_, taken>>
         \/ backlog_' = <<>> /\ taken' \in {taken, taken + 1}
         \/ backlog_' = Append(backlog_, taken + 1) /\ taken' = taken + 1
         \/ FileExists(disk) /\ backlog_' = BacklogOf(disk) /\ taken' = taken
<1> USE DEF dbVars, saveVars, histVars, Ends
<1>1. CASE Start \/ BadSettings \/ GoodSettings \/ Bind \/ StartWaiting \/ Exit \/ Sigint
  BY <1>1 DEF Start, BadSettings, GoodSettings, Bind, StartWaiting, Exit, Sigint
<1>2. CASE WriteFails \/ WriteText \/ WriteUser \/ WriteUsers \/ OpenFile \/ CloseFile
           \/ Crash \/ UNCHANGED vars
  BY <1>2 DEF WriteFails, WriteText, WriteUser, Write, WriteUsers, OpenFile, CloseFile,
     Crash, vars
<1>3. CASE StopWaiting \/ AcceptFails
  BY <1>3 DEF StopWaiting, AcceptFails, LeaveLoop
<1>4. CASE DatabaseInit BY <1>4 DEF DatabaseInit, Unreadable
<1>5. CASE AddMsg BY <1>5 DEF AddMsg, Race
<1>6. CASE \E u \in Users : AddUser(u) BY <1>6 DEF AddUser, Race
<1>7. CASE \E k \in Nat, part \in BOOLEAN : Flush(k, part) BY <1>7 DEF Flush
<1> QED BY <1>1, <1>2, <1>3, <1>4, <1>5, <1>6, <1>7, NextCases

LEMMA NextBacklog ==
  ASSUME ProcessTypeOK, FileInv, BacklogInv, [Next]_vars
  PROVE  BacklogInv'
<1> USE DEF BacklogInv, Rising
<1>0. backlog_ \in Seq(1 .. MaxTexts) /\ taken \in Nat
  <2>1. Control BY TypeParts
  <2>2. taken \in Nat BY <2>1, ProcessAssumption DEF Control
  <2> QED BY <2>2, Lengths
<1>1. CASE UNCHANGED <<backlog_, taken>> BY <1>1
<1>2. CASE backlog_' = <<>> BY <1>2
<1>3. CASE backlog_' = Append(backlog_, taken + 1) /\ taken' = taken + 1
  <2>1. /\ DOMAIN backlog_ = 1 .. Len(backlog_) /\ DOMAIN backlog_' = 1 .. Len(backlog_) + 1
        /\ backlog_'[Len(backlog_) + 1] = taken + 1
        /\ \A i \in 1 .. Len(backlog_) : backlog_'[i] = backlog_[i] /\ backlog_[i] \in Nat
        /\ Len(backlog_) \in Nat
    BY <1>0, <1>3, ProcessAssumption
  <2>2. \A i \in 1 .. Len(backlog_) + 1 : i = Len(backlog_) + 1 \/ i \in 1 .. Len(backlog_)
    BY <2>1
  <2>3. \A i \in DOMAIN backlog_' : backlog_'[i] <= taken' BY <1>0, <1>3, <2>1, <2>2
  <2>4. ASSUME NEW i \in DOMAIN backlog_', NEW j \in DOMAIN backlog_', i < j
        PROVE  backlog_'[i] < backlog_'[j]
    <3>1. i \in 1 .. Len(backlog_) BY <2>1, <2>4
    <3>2. backlog_[i] < taken + 1 BY <1>0, <2>1, <3>1
    <3> QED BY <2>1, <2>2, <2>4, <3>1, <3>2
  <2> QED BY <2>3, <2>4
<1>4. CASE FileExists(disk) /\ backlog_' = BacklogOf(disk) /\ taken' = taken
  <2>1. disk \in Seq(Records \cup {Torn}) /\ InOrder(disk)
    BY <1>4 DEF FileExists, ProcessTypeOK, FileInv
  <2> QED BY <1>4, <2>1, LoadsInOrder
<1> QED BY <1>1, <1>2, <1>3, <1>4, BacklogFrame

LEMMA StreamInOrder ==
  ASSUME ProcessTypeOK, StreamInv, BacklogInv, at \in {"texts", "users"}
  PROVE  InOrder(stream)
<1>1. PICK t \in 0 .. Len(backlog_) :
        /\ t <= Len(stream)
        /\ \A i \in 1 .. t : stream[i] = Text(backlog_[i])
        /\ \A i \in 1 .. Len(stream) - t : stream[t + i] = User(users_[i])
  <2>1. TextsWritten \in 0 .. Len(backlog_) /\ UsersWritten \in Nat
    <3>1. at = "texts" => TextsToSave = limit /\ TextsWritten = next - 1 /\ UsersWritten = 0
      BY DEF TextsToSave, TextsWritten, UsersWritten
    <3>2. at = "users" => TextsWritten = TextsToSave /\ UsersWritten = next - 1
      BY DEF TextsWritten, UsersWritten
    <3>3. TextsToSave \in 0 .. Len(backlog_) BY DEF StreamInv
    <3>4. next \in 1 .. limit + 1 /\ limit \in Nat /\ Len(backlog_) \in Nat BY Lengths
    <3>5. CASE at = "texts" BY <3>1, <3>3, <3>4, <3>5
    <3>6. CASE at = "users" BY <3>2, <3>3, <3>4, <3>6
    <3> QED BY <3>5, <3>6
  <2>2. Len(stream) - TextsWritten = UsersWritten BY <2>1 DEF StreamInv
  <2>3. TextsWritten <= Len(stream) BY <2>1 DEF StreamInv
  <2> QED BY <2>1, <2>2, <2>3 DEF StreamInv
<1>2. ASSUME NEW i \in DOMAIN stream, stream[i].kind = "text"
      PROVE  i \in DOMAIN backlog_ /\ stream[i].n = backlog_[i]
  <2>1. i \in 1 .. Len(stream) /\ backlog_ \in Seq(1 .. MaxTexts) BY Lengths
  <2>2. CASE i \in 1 .. t
    <3>1. Len(backlog_) \in Nat /\ DOMAIN backlog_ = 1 .. Len(backlog_) BY <2>1
    <3>2. i \in DOMAIN backlog_ BY <2>2, <3>1
    <3>3. stream[i] = Text(backlog_[i]) BY <1>1, <2>2
    <3> QED BY <3>2, <3>3 DEF Text
  <2>3. CASE i - t \in 1 .. Len(stream) - t
    <3>1. stream[t + (i - t)] = User(users_[i - t]) BY <1>1, <2>3
    <3>2. t + (i - t) = i BY <2>1
    <3> QED BY <1>2, <3>1, <3>2 DEF User
  <2> QED BY <2>1, <2>2, <2>3
<1> QED BY <1>2 DEF InOrder, BacklogInv, Rising

LEMMA NextFile ==
  ASSUME ProcessTypeOK, FileInv, BacklogInv, StreamInv, [Next]_vars
  PROVE  FileInv'
<1>0. taken \in Nat /\ taken' \in {taken, taken + 1}
  <2>1. Control BY TypeParts
  <2>2. taken \in Nat BY <2>1, ProcessAssumption DEF Control
  <2> QED BY <2>2, BacklogFrame
<1>1. CASE UNCHANGED disk
  <2> SUFFICES ASSUME disk # NoFile PROVE FileInv'
    BY <1>1 DEF FileInv
  <2>1. \A i \in DOMAIN disk : disk[i].kind = "text" => disk[i].n <= taken'
    <3> SUFFICES ASSUME NEW i \in DOMAIN disk, disk[i].kind = "text"
                 PROVE  disk[i].n <= taken'
      OBVIOUS
    <3>1. disk[i] \in Records \cup {Torn} BY DEF ProcessTypeOK
    <3>2. disk[i].n \in 1 .. MaxTexts BY <3>1, RecordForms
    <3>3. disk[i].n <= taken BY DEF FileInv, InOrder
    <3> QED BY <1>0, <3>2, <3>3, ProcessAssumption
  <2> QED BY <1>1, <2>1 DEF FileInv, InOrder
<1>2. CASE disk' = <<>>
  BY <1>2 DEF FileInv, InOrder
<1>3. ASSUME at \in {"texts", "users"}, taken' = taken,
             NEW f \in Seq(Records \cup {Torn}), disk' = f,
             NEW k \in Nat, k <= Len(stream), Len(f) = k \/ Len(f) = k + 1,
             \A i \in 1 .. k : f[i] = stream[i], Len(f) = k + 1 => f[k + 1] = Torn
      PROVE  FileInv'
  <2>1. /\ DOMAIN f = 1 .. Len(f) /\ stream \in Seq(Records)
        /\ Len(stream) \in Nat /\ DOMAIN stream = 1 .. Len(stream) /\ k \in Nat
    BY Lengths
  <2>2. \A i \in 1 .. k : f[i] # Torn
    <3>0. 1 .. k \subseteq DOMAIN stream
      <4>1. k <= Len(stream) BY <1>3
      <4> QED BY <2>1, <4>1
    <3>1. \A i \in DOMAIN stream : stream[i] \in Records BY Lengths
    <3>2. Torn \notin Records BY DEF Torn, Records, Text, User, Other
    <3> QED BY <1>3, <3>0, <3>1, <3>2
  <2>3. \A i \in DOMAIN f : i \in 1 .. k \/ (i = Len(f) /\ f[i] = Torn)
    <3> SUFFICES ASSUME NEW i \in 1 .. Len(f), i \notin 1 .. k
                 PROVE  i = Len(f) /\ f[i] = Torn
      BY <2>1
    <3>1. Len(f) = k + 1 /\ i = k + 1 BY <1>3, <2>1
    <3> QED BY <1>3, <3>1
  <2>4. \A i \in DOMAIN f : f[i].kind = "text" => i \in DOMAIN stream /\ f[i] = stream[i]
    <3>1. Torn.kind # "text" BY DEF Torn
    <3>2. \A i \in 1 .. k : i \in DOMAIN stream /\ f[i] = stream[i] BY <1>3, <2>1
    <3> QED BY <2>3, <3>1, <3>2
  <2>5. InOrder(f) BY <1>3, <2>4, StreamInOrder DEF InOrder
  <2>6. \A i \in DOMAIN f : f[i] = Torn => i = Len(f) BY <2>2, <2>3
  <2> QED BY <1>3, <2>5, <2>6 DEF FileInv, InOrder
<1>4. ASSUME NEW k \in Nat, NEW part \in BOOLEAN, Flush(k, part) PROVE FileInv'
  <2>1. /\ k \in 0 .. Len(stream) /\ k <= Len(stream) /\ disk' = InFile(k, part)
        /\ taken' = taken /\ at \in {"texts", "users"}
    BY <1>4 DEF Flush, histVars, ProcessTypeOK
  <2> DEFINE f == InFile(k, part)
  <2>2. /\ f \in Seq(Records \cup {Torn}) /\ (Len(f) = k \/ Len(f) = k + 1)
        /\ \A i \in 1 .. k : f[i] = stream[i]
        /\ Len(f) = k + 1 => f[k + 1] = Torn
    BY <2>1, InFileType
  <2>3. disk' = f BY <2>1
  <2> HIDE DEF f
  <2> QED BY <1>3, <2>1, <2>2, <2>3
<1>5. CASE CloseFile
  <2>1. taken' = taken /\ at \in {"texts", "users"} /\ disk' \in {disk, stream}
    BY <1>5 DEF CloseFile
  <2>2. stream \in Seq(Records) /\ Len(stream) \in Nat /\ Len(stream) <= Len(stream)
    BY Lengths
  <2>3. stream \in Seq(Records \cup {Torn}) BY <2>2
  <2>4. PICK f \in Seq(Records \cup {Torn}) : f = stream BY <2>3
  <2>5. CASE disk' = stream
    <3>1. disk' = f /\ Len(f) = Len(stream) /\ \A i \in 1 .. Len(stream) : f[i] = stream[i]
      BY <2>4, <2>5
    <3>2. Len(f) # Len(stream) + 1 BY <2>2, <3>1
    <3> QED BY <1>3, <2>1, <2>2, <3>1, <3>2
  <2> QED BY <1>1, <2>1, <2>5
<1>6. CASE OpenFile
  <2>1. disk' \in {disk, <<>>} BY <1>6 DEF OpenFile, Truncated
  <2> QED BY <1>1, <1>2, <2>1
<1>7. CASE WriteText \/ WriteUsers \/ WriteUser \/ WriteFails
  BY <1>1, <1>7 DEF WriteText, WriteUser, Write, WriteUsers, WriteFails
<1> QED BY <1>1, <1>4, <1>5, <1>6, <1>7, SaveFrame

(***************************************************************************)
(* What save() has written and what it has still to write.                 *)
(***************************************************************************)
\* The forms of StreamInv in the two loops of save().
InTexts ==
  /\ limit <= Len(backlog_) /\ Len(stream) = next - 1
  /\ \A i \in 1 .. next - 1 : stream[i] = Text(backlog_[i])
  /\ \E part \in BOOLEAN : disk = InFile(flushed, part)

TextsDone == Len(stream) + 1 - next

InUsers ==
  /\ TextsDone \in 0 .. Len(backlog_) /\ limit <= Len(users_)
  /\ \A i \in 1 .. TextsDone : stream[i] = Text(backlog_[i])
  /\ \A i \in 1 .. next - 1 : stream[TextsDone + i] = User(users_[i])
  /\ \E part \in BOOLEAN : disk = InFile(flushed, part)

InLoops == (at = "texts" => InTexts) /\ (at = "users" => InUsers)

LEMMA StreamForms == ProcessTypeOK => (StreamInv <=> InLoops)
<1> SUFFICES ASSUME ProcessTypeOK PROVE StreamInv <=> InLoops
  OBVIOUS
<1> USE DEF InLoops
<1>1. /\ Len(stream) \in Nat /\ next \in Nat \ {0} /\ next <= limit + 1 /\ limit \in Nat
      /\ Len(users_) \in Nat /\ Len(backlog_) \in Nat
  BY Lengths
<1>2. CASE at = "texts"
  <2>1. /\ TextsToSave = limit /\ UsersToSave = Len(users_)
        /\ TextsWritten = next - 1 /\ UsersWritten = 0
    BY <1>2 DEF TextsToSave, UsersToSave, TextsWritten, UsersWritten
  <2>2. StreamInv => InTexts BY <1>1, <1>2, <2>1 DEF StreamInv, InTexts
  <2>3. InTexts => StreamInv BY <1>1, <1>2, <2>1 DEF StreamInv, InTexts
  <2> QED BY <1>2, <2>2, <2>3
<1>3. CASE at = "users"
  <2>1. /\ TextsToSave = TextsDone /\ UsersToSave = limit
        /\ TextsWritten = TextsDone /\ UsersWritten = next - 1
    BY <1>3 DEF TextsToSave, UsersToSave, TextsWritten, UsersWritten, TextsDone
  <2>2. Len(stream) = TextsDone + (next - 1) BY <1>1 DEF TextsDone
  <2>3. StreamInv => InUsers BY <1>1, <1>3, <2>1 DEF StreamInv, InUsers
  <2>4. InUsers => StreamInv BY <1>1, <1>3, <2>1, <2>2 DEF StreamInv, InUsers
  <2> QED BY <1>3, <2>3, <2>4
<1> QED BY <1>2, <1>3 DEF StreamInv

LEMMA StreamFormsNext == ProcessTypeOK' => (StreamInv' <=> InLoops')
BY StreamForms, PTL

\* The steps that can be taken in save(): those of save() and those of the
\* client threads, which add to memory.
Grows ==
  /\ UNCHANGED <<at, saveVars, disk>>
  /\ \/ UNCHANGED dbVars
     \/ UNCHANGED users_ /\ backlog_' = Append(backlog_, taken + 1)
     \/ UNCHANGED backlog_ /\ \E u \in Users : users_' = Append(users_, u)

LEMMA SavingSteps ==
  ASSUME [Next]_vars, at' \in {"texts", "users"}
  PROVE  \/ Grows
         \/ OpenFile \/ WriteText \/ WriteUsers \/ WriteUser
         \/ WriteFails
         \/ \E k \in Nat, part \in BOOLEAN : Flush(k, part)
<1> USE DEF Grows, dbVars, saveVars, Ends
<1>1. CASE Start \/ BadSettings \/ GoodSettings \/ Bind \/ StartWaiting \/ Exit
           \/ DatabaseInit \/ StopWaiting \/ AcceptFails \/ CloseFile \/ Crash
  BY <1>1 DEF Start, BadSettings, GoodSettings, Bind, StartWaiting, Exit, DatabaseInit,
     Unreadable, StopWaiting, AcceptFails, LeaveLoop, CloseFile, Crash
<1>2. CASE Sigint \/ UNCHANGED vars BY <1>2 DEF Sigint, vars
<1>3. CASE AddMsg BY <1>3 DEF AddMsg, Race
<1>4. CASE \E u \in Users : AddUser(u) BY <1>4 DEF AddUser, Race
<1> QED BY <1>1, <1>2, <1>3, <1>4, NextCases

\* Memory only grows at its end.
Prefixed(s, t) == Len(s) <= Len(t) /\ \A i \in 1 .. Len(s) : s[i] = t[i]

LEMMA AppendPrefixed ==
  ASSUME NEW T, NEW s \in Seq(T), NEW x \in T
  PROVE  Prefixed(s, Append(s, x))
BY DEF Prefixed

LEMMA GrowsPrefixed ==
  ASSUME ProcessTypeOK, ProcessTypeOK', Grows
  PROVE  Prefixed(backlog_, backlog_') /\ Prefixed(users_, users_')
<1>1. backlog_ \in Seq(1 .. MaxTexts) /\ users_ \in Seq(Users) BY Lengths
<1>2. Prefixed(backlog_, backlog_) /\ Prefixed(users_, users_) BY <1>1 DEF Prefixed
<1>3. Prefixed(backlog_, Append(backlog_, taken + 1)) BY <1>1 DEF Prefixed
<1>4. ASSUME NEW u \in Users PROVE Prefixed(users_, Append(users_, u))
  BY <1>1, AppendPrefixed
<1> QED BY <1>2, <1>3, <1>4 DEF Grows, dbVars

\* What is in the file of the stream stays the same when the stream grows.
LEMMA InFileStays ==
  ASSUME ProcessTypeOK, UNCHANGED <<flushed, disk>>, NEW part \in BOOLEAN,
         disk = InFile(flushed, part),
         \/ stream' = stream
         \/ \E r \in Records : stream' = Append(stream, r)
  PROVE  disk' = InFile(flushed, part)'
<1>1. SubSeq(stream', 1, flushed) = SubSeq(stream, 1, flushed)
  <2>1. stream \in Seq(Records) /\ flushed \in Nat /\ flushed <= Len(stream)
    BY Lengths
  <2>2. CASE stream' = stream BY <2>2
  <2>3. ASSUME NEW r \in Records, stream' = Append(stream, r)
        PROVE  SubSeq(stream', 1, flushed) = SubSeq(stream, 1, flushed)
    BY <2>1, <2>3, PrefixAppend
  <2> QED BY <2>2, <2>3
<1>2. InFile(flushed, part)' = SubSeq(stream', 1, flushed') \o (IF part THEN <<Torn>> ELSE <<>>)
  BY DEF InFile
<1>3. InFile(flushed, part) = SubSeq(stream, 1, flushed) \o (IF part THEN <<Torn>> ELSE <<>>)
  BY DEF InFile
<1> QED BY <1>1, <1>2, <1>3

LEMMA MemoryRecords ==
  ASSUME ProcessTypeOK
  PROVE  /\ \A i \in 1 .. Len(backlog_) : Text(backlog_[i]) \in Records
         /\ \A i \in 1 .. Len(users_) : User(users_[i]) \in Records
<1>1. Memory BY TypeParts
<1>2. ASSUME NEW i \in 1 .. Len(backlog_) PROVE Text(backlog_[i]) \in Records
  <2>1. backlog_[i] \in 1 .. MaxTexts BY <1>1, ProcessAssumption DEF Memory
  <2> QED BY <2>1, RecordsOfMemory
<1>3. ASSUME NEW i \in 1 .. Len(users_) PROVE User(users_[i]) \in Records
  <2>1. users_[i] \in Users BY <1>1 DEF Memory
  <2> QED BY <2>1, RecordsOfMemory
<1> QED BY <1>2, <1>3

LEMMA NextStream ==
  ASSUME ProcessTypeOK, ProcessTypeOK', StreamInv, [Next]_vars
  PROVE  StreamInv'
<1> SUFFICES ASSUME at' \in {"texts", "users"} PROVE InLoops'
  BY StreamFormsNext DEF InLoops
<1>0. /\ InLoops
      /\ stream \in Seq(Records) /\ flushed \in 0 .. Len(stream)
      /\ next \in 1 .. limit + 1 /\ limit \in Nat
      /\ Len(stream) \in Nat /\ Len(users_) \in Nat /\ Len(backlog_) \in Nat
  <2>1. InLoops BY StreamForms
  <2> QED BY <2>1, Lengths
<1>1. CASE Grows
  <2>1. UNCHANGED <<at, stream, flushed, next, limit, failed, disk>>
    BY <1>1 DEF Grows, saveVars
  <2>2. Prefixed(backlog_, backlog_') /\ Prefixed(users_, users_')
    BY <1>1, GrowsPrefixed
  <2>3. Len(users_') \in Nat /\ Len(backlog_') \in Nat BY LengthsNext
  <2>4. ASSUME NEW part \in BOOLEAN, disk = InFile(flushed, part)
        PROVE  disk' = InFile(flushed, part)'
    BY <2>1, <2>4, InFileStays
  <2>5. CASE at = "texts"
    <3>1. InTexts BY <1>0, <2>5 DEF InLoops
    <3>2. \E part \in BOOLEAN : disk' = InFile(flushed, part)' BY <2>4, <3>1 DEF InTexts
    <3>3. limit <= Len(backlog_') BY <1>0, <2>2, <2>3, <3>1 DEF InTexts, Prefixed
    <3>4. \A i \in 1 .. next - 1 : stream[i] = Text(backlog_'[i])
      BY <1>0, <2>2, <3>1 DEF InTexts, Prefixed
    <3> QED BY <2>1, <2>5, <3>1, <3>2, <3>3, <3>4 DEF InLoops, InTexts
  <2>6. CASE at = "users"
    <3>1. InUsers BY <1>0, <2>6 DEF InLoops
    <3>2. \E part \in BOOLEAN : disk' = InFile(flushed, part)' BY <2>4, <3>1 DEF InUsers
    <3>3. limit <= Len(users_') /\ TextsDone \in 0 .. Len(backlog_')
      BY <1>0, <2>2, <2>3, <3>1 DEF InUsers, Prefixed, TextsDone
    <3>4. \A i \in 1 .. TextsDone : stream[i] = Text(backlog_'[i])
      BY <1>0, <2>2, <3>1 DEF InUsers, Prefixed, TextsDone
    <3>5. \A i \in 1 .. next - 1 : stream[TextsDone + i] = User(users_'[i])
      <4>1. 1 .. next - 1 \subseteq 1 .. Len(users_) BY <1>0, <3>1 DEF InUsers
      <4>2. \A i \in 1 .. Len(users_) : users_[i] = users_'[i] BY <2>2 DEF Prefixed
      <4> QED BY <3>1, <4>1, <4>2 DEF InUsers
    <3>6. TextsDone' = TextsDone BY <2>1 DEF TextsDone
    <3> QED BY <2>1, <2>6, <3>2, <3>3, <3>4, <3>5, <3>6 DEF InLoops, InUsers
  <2> QED BY <2>1, <2>5, <2>6
<1>2. CASE OpenFile
  <2>1. /\ at' = "texts" /\ disk' = <<>> /\ stream' = <<>> /\ flushed' = Len(<<>>)
        /\ next' = 1 /\ limit' = Len(backlog_) /\ backlog_' = backlog_
    BY <1>2 DEF OpenFile, Truncated, dbVars
  <2>2. SubSeq(stream', 1, flushed') \o <<>> = <<>> BY <2>1
  <2>3. InFile(flushed, FALSE)' = SubSeq(stream', 1, flushed') \o <<>> BY DEF InFile
  <2>4. disk' = InFile(flushed, FALSE)' BY <2>1, <2>2, <2>3
  <2>5. \E part \in BOOLEAN : disk' = InFile(flushed, part)' BY <2>4
  <2>6. Len(stream') = 0 BY <2>1
  <2> QED BY <1>0, <2>1, <2>5, <2>6 DEF InLoops, InTexts
<1>3. CASE WriteText
  <2> DEFINE r == Text(backlog_[next])
  <2>1. InTexts /\ at = "texts" BY <1>0, <1>3 DEF WriteText, InLoops
  <2>2. /\ next <= limit /\ stream' = Append(stream, r) /\ next' = next + 1
        /\ UNCHANGED <<at, flushed, limit, disk, backlog_>>
    BY <1>3 DEF WriteText, Write, dbVars
  <2>3. r \in Records
    <3>1. next \in 1 .. Len(backlog_) BY <1>0, <2>1, <2>2 DEF InTexts
    <3> QED BY <3>1, MemoryRecords DEF r
  <2> HIDE DEF r
  <2>4. PICK part \in BOOLEAN : disk = InFile(flushed, part) BY <2>1 DEF InTexts
  <2>5. disk' = InFile(flushed, part)' BY <2>2, <2>3, <2>4, InFileStays
  <2>6. /\ Len(stream') = Len(stream) + 1 /\ stream'[next] = r
        /\ \A i \in 1 .. next - 1 : stream'[i] = stream[i]
    BY <1>0, <2>1, <2>2, <2>3 DEF InTexts
  <2>7. \A i \in 1 .. next' - 1 : stream'[i] = Text(backlog_'[i])
    BY <1>0, <2>1, <2>2, <2>6 DEF InTexts, r
  <2> QED BY <1>0, <2>1, <2>2, <2>5, <2>6, <2>7 DEF InLoops, InTexts
<1>4. CASE WriteUsers
  <2>1. InTexts /\ at = "texts" BY <1>0, <1>4 DEF WriteUsers, InLoops
  <2>2. /\ next > limit /\ at' = "users" /\ next' = 1 /\ limit' = Len(users_)
        /\ UNCHANGED <<backlog_, users_, stream, flushed, disk>>
    BY <1>4 DEF WriteUsers, LoopOver, dbVars
  <2>3. PICK part \in BOOLEAN : disk = InFile(flushed, part) BY <2>1 DEF InTexts
  <2>4. disk' = InFile(flushed, part)' BY <2>2, <2>3, InFileStays
  <2>5. TextsDone' = next - 1 BY <1>0, <2>1, <2>2 DEF TextsDone, InTexts
  <2>6. next - 1 \in 0 .. Len(backlog_) BY <1>0, <2>1, <2>2 DEF InTexts
  <2> QED BY <1>0, <2>1, <2>2, <2>4, <2>5, <2>6 DEF InLoops, InTexts, InUsers
<1>5. CASE WriteUser
  <2> DEFINE r == User(users_[next])
  <2>1. InUsers /\ at = "users" BY <1>0, <1>5 DEF WriteUser, InLoops
  <2>2. /\ next <= limit /\ stream' = Append(stream, r) /\ next' = next + 1
        /\ UNCHANGED <<at, flushed, limit, disk, backlog_, users_>>
    BY <1>5 DEF WriteUser, Write, dbVars
  <2>3. r \in Records
    <3>1. next \in 1 .. Len(users_) BY <1>0, <2>1, <2>2 DEF InUsers
    <3> QED BY <3>1, MemoryRecords DEF r
  <2> HIDE DEF r
  <2>4. PICK part \in BOOLEAN : disk = InFile(flushed, part) BY <2>1 DEF InUsers
  <2>5. disk' = InFile(flushed, part)' BY <2>2, <2>3, <2>4, InFileStays
  <2>6. /\ Len(stream') = Len(stream) + 1 /\ stream'[Len(stream) + 1] = r
        /\ \A i \in 1 .. Len(stream) : stream'[i] = stream[i]
    BY <1>0, <2>2, <2>3
  <2>7. /\ TextsDone' = TextsDone /\ TextsDone \in 0 .. Len(stream)
        /\ TextsDone + next = Len(stream) + 1
    BY <1>0, <2>1, <2>2, <2>6 DEF TextsDone, InUsers
  <2>8. \A i \in 1 .. TextsDone : stream'[i] = Text(backlog_[i])
    BY <1>0, <2>1, <2>6, <2>7 DEF InUsers
  <2>9. \A i \in 1 .. next : stream'[TextsDone + i] = User(users_[i])
    <3> SUFFICES ASSUME NEW i \in 1 .. next PROVE stream'[TextsDone + i] = User(users_[i])
      OBVIOUS
    <3>1. CASE i = next BY <2>6, <2>7, <3>1 DEF r
    <3>2. CASE i \in 1 .. next - 1
      <4>1. TextsDone + i \in 1 .. Len(stream) BY <1>0, <2>7, <3>2
      <4> QED BY <2>1, <2>6, <3>2, <4>1 DEF InUsers
    <3> QED BY <1>0, <3>1, <3>2
  <2>10. \A i \in 1 .. next' - 1 : stream'[TextsDone + i] = User(users_[i])
    <3>1. next' - 1 = next BY <1>0, <2>2
    <3> QED BY <2>9, <3>1
  <2> QED BY <1>0, <2>1, <2>2, <2>5, <2>7, <2>8, <2>10 DEF InLoops, InUsers
<1>6. CASE WriteFails
  <2>1. UNCHANGED <<at, backlog_, users_, stream, flushed, next, limit, disk>>
    BY <1>6 DEF WriteFails, dbVars
  <2>2. ASSUME NEW part \in BOOLEAN, disk = InFile(flushed, part)
        PROVE  disk' = InFile(flushed, part)'
    BY <2>1, <2>2, InFileStays
  <2>3. CASE at = "texts"
    <3>1. InTexts BY <1>0, <2>3 DEF InLoops
    <3>2. \E part \in BOOLEAN : disk' = InFile(flushed, part)' BY <2>2, <3>1 DEF InTexts
    <3> QED BY <2>1, <2>3, <3>1, <3>2 DEF InLoops, InTexts
  <2>4. CASE at = "users"
    <3>1. InUsers BY <1>0, <2>4 DEF InLoops
    <3>2. \E part \in BOOLEAN : disk' = InFile(flushed, part)' BY <2>2, <3>1 DEF InUsers
    <3>3. TextsDone' = TextsDone BY <2>1 DEF TextsDone
    <3> QED BY <2>1, <2>4, <3>1, <3>2, <3>3 DEF InLoops, InUsers
  <2> QED BY <2>1, <2>3, <2>4
<1>7. ASSUME NEW k \in Nat, NEW part \in BOOLEAN, Flush(k, part) PROVE InLoops'
  <2>1. /\ UNCHANGED <<at, backlog_, users_, stream, next, limit>>
        /\ disk' = InFile(k, part) /\ flushed' = k
    BY <1>7 DEF Flush, dbVars
  <2>2. InFile(flushed, part)' = InFile(k, part) BY <2>1 DEF InFile
  <2>3. \E p \in BOOLEAN : disk' = InFile(flushed, p)' BY <2>1, <2>2
  <2>4. CASE at = "texts"
    <3>1. InTexts BY <1>0, <2>4 DEF InLoops
    <3> QED BY <2>1, <2>3, <2>4, <3>1 DEF InLoops, InTexts
  <2>5. CASE at = "users"
    <3>1. InUsers BY <1>0, <2>5 DEF InLoops
    <3>2. TextsDone' = TextsDone BY <2>1 DEF TextsDone
    <3> QED BY <2>1, <2>3, <2>5, <3>1, <3>2 DEF InLoops, InUsers
  <2> QED BY <2>1, <2>4, <2>5
<1> QED BY <1>1, <1>2, <1>3, <1>4, <1>5, <1>6, <1>7, SavingSteps

(***************************************************************************)
(* What is kept: memory from load() to the end of save(), and the file.    *)
(***************************************************************************)
Loaded == {"bind", "made", "loop", "open", "texts", "users"}

LEMMA SaveParts ==
  ASSUME ProcessTypeOK, StreamInv
  PROVE  TextsToSave \in 0 .. Len(backlog_) /\ UsersToSave \in 0 .. Len(users_)
<1>1. Len(backlog_) \in Nat /\ Len(users_) \in Nat BY Lengths
<1>2. CASE at \in {"texts", "users"} BY <1>2 DEF StreamInv
<1>3. CASE at \notin {"texts", "users"}
  <2>1. TextsToSave = Len(backlog_) /\ UsersToSave = Len(users_)
    BY <1>3 DEF TextsToSave, UsersToSave
  <2> QED BY <1>1, <2>1
<1> QED BY <1>2, <1>3

\* While the database is in memory it loses nothing of what save() will write,
\* and nothing becomes durable.
LEMMA KeptInMemory ==
  ASSUME ProcessTypeOK, ProcessTypeOK', StreamInv, [Next]_vars,
         at \in Loaded, at' \in Loaded
  PROVE  /\ Prefixed(backlog_, backlog_') /\ Prefixed(users_, users_')
         /\ TextsToSave <= TextsToSave' /\ UsersToSave <= UsersToSave'
         /\ durable' = durable
<1>0. /\ backlog_ \in Seq(1 .. MaxTexts) /\ users_ \in Seq(Users)
      /\ Len(backlog_) \in Nat /\ Len(users_) \in Nat
      /\ next \in 1 .. limit + 1 /\ limit \in Nat /\ Len(stream) \in Nat
      /\ stream \in Seq(Records)
  BY Lengths
<1>1. Prefixed(backlog_, backlog_) /\ Prefixed(users_, users_) BY <1>0 DEF Prefixed
<1>2. TextsToSave \in Int /\ UsersToSave \in Int BY SaveParts
<1>3. CASE UNCHANGED <<at, backlog_, users_, stream, next, limit, durable>>
  <2>1. TextsToSave' = TextsToSave /\ UsersToSave' = UsersToSave
    BY <1>3 DEF TextsToSave, UsersToSave
  <2> QED BY <1>1, <1>2, <1>3, <2>1
<1>4. CASE Bind \/ StartWaiting \/ StopWaiting \/ AcceptFails
  <2>1. /\ at \in {"bind", "made", "loop"} /\ at' \in {"made", "loop", "open"}
        /\ UNCHANGED <<backlog_, users_, durable>>
    BY <1>4 DEF Bind, Ends, StartWaiting, StopWaiting, AcceptFails, LeaveLoop, Loaded,
       dbVars, histVars
  <2>2. /\ TextsToSave = Len(backlog_) /\ UsersToSave = Len(users_)
        /\ TextsToSave' = Len(backlog_') /\ UsersToSave' = Len(users_')
    BY <2>1 DEF TextsToSave, UsersToSave
  <2> QED BY <1>0, <1>1, <2>1, <2>2
<1>5. CASE OpenFile
  <2>1. /\ at = "open" /\ at' = "texts" /\ limit' = Len(backlog_)
        /\ UNCHANGED <<backlog_, users_, durable>>
    BY <1>5 DEF OpenFile, Loaded, dbVars, histVars
  <2>2. /\ TextsToSave = Len(backlog_) /\ UsersToSave = Len(users_)
        /\ TextsToSave' = limit' /\ UsersToSave' = Len(users_')
    BY <2>1 DEF TextsToSave, UsersToSave
  <2> QED BY <1>0, <1>1, <2>1, <2>2
<1>6. CASE WriteText \/ WriteUser
  <2>1. PICK r \in Records : Write(r) /\ at \in {"texts", "users"}
    <3>1. CASE WriteText
      <4>1. next \in 1 .. Len(backlog_) BY <1>0, <3>1, Iterators DEF WriteText, Write
      <4> QED BY <3>1, <4>1, MemoryRecords DEF WriteText
    <3>2. CASE WriteUser
      <4>1. next \in 1 .. Len(users_) BY <1>0, <3>2, Iterators DEF WriteUser, Write
      <4> QED BY <3>2, <4>1, MemoryRecords DEF WriteUser
    <3> QED BY <1>6, <3>1, <3>2
  <2>2. /\ stream' = Append(stream, r) /\ next' = next + 1
        /\ UNCHANGED <<at, backlog_, users_, limit, durable>>
    BY <2>1 DEF Write, dbVars, histVars
  <2>3. Len(stream') + 1 - next' = Len(stream) + 1 - next BY <1>0, <2>2
  <2>4. TextsToSave' = TextsToSave
    <3>1. CASE at = "texts" BY <2>2, <3>1 DEF TextsToSave
    <3>2. CASE at = "users" BY <2>2, <2>3, <3>2 DEF TextsToSave
    <3> QED BY <2>1, <3>1, <3>2
  <2>5. UsersToSave' = UsersToSave BY <2>2 DEF UsersToSave
  <2> QED BY <1>1, <1>2, <2>2, <2>4, <2>5
<1>7. CASE WriteUsers
  <2>1. /\ at = "texts" /\ at' = "users" /\ next > limit /\ next' = 1 /\ limit' = Len(users_)
        /\ UNCHANGED <<backlog_, users_, stream, durable>>
    BY <1>7 DEF WriteUsers, LoopOver, dbVars, histVars
  <2>2. Len(stream) = next - 1 BY <2>1, Iterators
  <2>3. /\ TextsToSave = limit /\ UsersToSave = Len(users_)
        /\ TextsToSave' = Len(stream') + 1 - next' /\ UsersToSave' = limit'
    BY <2>1 DEF TextsToSave, UsersToSave
  <2> QED BY <1>0, <1>1, <2>1, <2>2, <2>3
<1>8. CASE AddMsg \/ \E u \in Users : AddUser(u)
  <2>1. /\ UNCHANGED <<at, stream, next, limit, durable>>
        /\ \/ UNCHANGED users_ /\ backlog_' = Append(backlog_, taken + 1)
           \/ UNCHANGED backlog_ /\ \E u \in Users : users_' = Append(users_, u)
    BY <1>8 DEF AddMsg, AddUser, Race, Ends, Loaded, saveVars
  <2>2. Prefixed(backlog_, Append(backlog_, taken + 1)) BY <1>0 DEF Prefixed
  <2>3. ASSUME NEW u \in Users PROVE Prefixed(users_, Append(users_, u))
    BY <1>0, AppendPrefixed
  <2>4. Prefixed(backlog_, backlog_') /\ Prefixed(users_, users_')
    BY <1>1, <2>1, <2>2, <2>3
  <2>5. Len(backlog_) <= Len(backlog_') /\ Len(users_) <= Len(users_')
    BY <2>4 DEF Prefixed
  <2>6. TextsToSave <= TextsToSave'
    <3>1. CASE at \in {"texts", "users"}
      <4>1. TextsToSave' = TextsToSave BY <2>1, <3>1 DEF TextsToSave
      <4> QED BY <1>2, <4>1
    <3>2. CASE at \notin {"texts", "users"}
      <4>1. TextsToSave = Len(backlog_) /\ TextsToSave' = Len(backlog_')
        BY <2>1, <3>2 DEF TextsToSave
      <4> QED BY <2>5, <4>1
    <3> QED BY <3>1, <3>2
  <2>7. UsersToSave <= UsersToSave'
    <3>1. CASE at = "users"
      <4>1. UsersToSave' = UsersToSave BY <2>1, <3>1 DEF UsersToSave
      <4> QED BY <1>2, <4>1
    <3>2. CASE at # "users"
      <4>1. UsersToSave = Len(users_) /\ UsersToSave' = Len(users_')
        BY <2>1, <3>2 DEF UsersToSave
      <4> QED BY <2>5, <4>1
    <3> QED BY <3>1, <3>2
  <2> QED BY <2>1, <2>4, <2>6, <2>7
<1>9. CASE WriteFails \/ Sigint \/ \E k \in Nat, part \in BOOLEAN : Flush(k, part)
  <2>1. UNCHANGED <<at, backlog_, users_, stream, next, limit, durable>>
    BY <1>9 DEF WriteFails, Sigint, Flush, dbVars, saveVars, histVars
  <2> QED BY <1>3, <2>1
<1>10. CASE Start \/ BadSettings \/ GoodSettings \/ DatabaseInit \/ CloseFile \/ Exit \/ Crash
  BY <1>10 DEF Start, BadSettings, GoodSettings, DatabaseInit, CloseFile, Exit, Crash,
     Ends, Loaded
<1>11. CASE UNCHANGED vars
  BY <1>3, <1>11 DEF vars, dbVars, saveVars, histVars
<1> QED BY <1>4, <1>5, <1>6, <1>7, <1>8, <1>9, <1>10, <1>11, NextCases

LEMMA EntersLoaded ==
  ASSUME [Next]_vars, at \notin Loaded, at' \in Loaded
  PROVE  DatabaseInit /\ at = "load" /\ at' = "bind"
<1> USE DEF Loaded, Ends
<1>1. CASE Start \/ BadSettings \/ GoodSettings \/ DatabaseInit \/ Bind \/ StartWaiting \/ Exit
  BY <1>1 DEF Start, BadSettings, GoodSettings, DatabaseInit, Unreadable, Bind,
     StartWaiting, Exit
<1>2. CASE StopWaiting \/ AcceptFails \/ Sigint \/ Crash \/ UNCHANGED vars
  BY <1>2 DEF StopWaiting, AcceptFails, LeaveLoop, Sigint, Crash, vars
<1>3. CASE OpenFile \/ WriteText \/ WriteUsers \/ WriteUser \/ CloseFile \/ WriteFails
  BY <1>3 DEF OpenFile, WriteText, WriteUser, Write, WriteUsers, CloseFile, WriteFails
<1>4. CASE AddMsg \/ \E u \in Users : AddUser(u)
  BY <1>4 DEF AddMsg, AddUser, Race, Serving
<1>5. CASE \E k \in Nat, part \in BOOLEAN : Flush(k, part) BY <1>5 DEF Flush
<1> QED BY <1>1, <1>2, <1>3, <1>4, <1>5, NextCases

LEMMA NextDurable ==
  ASSUME ProcessTypeOK, ProcessTypeOK', FileInv, StreamInv, DurableInv, DurableKept,
         [Next]_vars
  PROVE  DurableInv'
<1> SUFFICES ASSUME at' \in Loaded
             PROVE  durable' \subseteq {Text(backlog_'[i]) : i \in 1 .. TextsToSave'}
                                       \cup {User(users_'[i]) : i \in 1 .. UsersToSave'}
  BY DEF DurableInv, Loaded
<1>1. CASE at \in Loaded
  <2>1. /\ \A i \in 1 .. Len(backlog_) : backlog_[i] = backlog_'[i]
        /\ \A i \in 1 .. Len(users_) : users_[i] = users_'[i]
        /\ TextsToSave <= TextsToSave' /\ UsersToSave <= UsersToSave'
        /\ durable' = durable
    BY <1>1, KeptInMemory DEF Prefixed
  <2>2. TextsToSave \in 0 .. Len(backlog_) /\ UsersToSave \in 0 .. Len(users_)
    BY SaveParts
  <2>3. Len(backlog_) \in Nat /\ Len(users_) \in Nat BY Lengths
  <2>4. TextsToSave' \in Int /\ UsersToSave' \in Int BY LengthsNext
  <2>5. ASSUME NEW r \in durable
        PROVE  \/ \E i \in 1 .. TextsToSave' : r = Text(backlog_'[i])
               \/ \E i \in 1 .. UsersToSave' : r = User(users_'[i])
    <3>1. \/ \E i \in 1 .. TextsToSave : r = Text(backlog_[i])
          \/ \E i \in 1 .. UsersToSave : r = User(users_[i])
      BY <1>1 DEF DurableInv, Loaded
    <3>2. ASSUME NEW i \in 1 .. TextsToSave, r = Text(backlog_[i])
          PROVE  i \in 1 .. TextsToSave' /\ r = Text(backlog_'[i])
      BY <2>1, <2>2, <2>3, <2>4, <3>2
    <3>3. ASSUME NEW i \in 1 .. UsersToSave, r = User(users_[i])
          PROVE  i \in 1 .. UsersToSave' /\ r = User(users_'[i])
      BY <2>1, <2>2, <2>3, <2>4, <3>3
    <3> QED BY <3>1, <3>2, <3>3
  <2> QED BY <2>1, <2>5
<1>2. CASE at \notin Loaded
  <2>1. DatabaseInit /\ at = "load" /\ at' = "bind" BY <1>2, EntersLoaded
  <2>2. durable \subseteq InDatabase(disk) /\ durable' = durable
    BY <2>1 DEF DurableKept, DatabaseInit, histVars
  <2>3. CASE disk = NoFile BY <2>2, <2>3, NothingInNoFile
  <2>4. CASE disk # NoFile
    <3>1. users_' = UsersOf(disk) /\ backlog_' = BacklogOf(disk)
      BY <2>1, <2>4 DEF DatabaseInit, FileExists, Unreadable, Ends
    <3>2. disk \in Seq(Records \cup {Torn}) /\ OnlyLastTorn(disk)
      BY <2>4 DEF ProcessTypeOK, FileInv, OnlyLastTorn
    <3>3. TextsToSave' = Len(backlog_') /\ UsersToSave' = Len(users_')
      BY <2>1 DEF TextsToSave, UsersToSave
    <3> QED BY <2>2, <3>1, <3>2, <3>3, LoadsDatabase
  <2> QED BY <2>3, <2>4
<1> QED BY <1>1, <1>2

\* atStop is written once, when the loop is left.
LEMMA StopFrame ==
  ASSUME [Next]_vars
  PROVE  \/ at = "loop" /\ LeaveLoop
         \/ atStop' = atStop /\ (at' \in {"open", "texts", "users"} =>
                                   at \in {"open", "texts", "users"})
<1>1. CASE Start \/ BadSettings \/ GoodSettings \/ DatabaseInit \/ Bind \/ StartWaiting \/ Exit
  BY <1>1 DEF Start, BadSettings, GoodSettings, DatabaseInit, Unreadable, Bind,
     StartWaiting, Exit, Ends, histVars
<1>2. CASE StopWaiting \/ AcceptFails
  BY <1>2 DEF StopWaiting, AcceptFails, LeaveLoop
<1>3. CASE OpenFile \/ WriteText \/ WriteUsers \/ WriteUser \/ CloseFile \/ WriteFails
  BY <1>3 DEF OpenFile, WriteText, WriteUser, Write, WriteUsers, CloseFile, WriteFails,
     histVars
<1>4. CASE AddMsg \/ \E u \in Users : AddUser(u)
  BY <1>4 DEF AddMsg, AddUser, Race, Ends
<1>5. CASE Sigint \/ Crash \/ UNCHANGED vars
  BY <1>5 DEF Sigint, Crash, Ends, vars, histVars
<1>6. CASE \E k \in Nat, part \in BOOLEAN : Flush(k, part) BY <1>6 DEF Flush, histVars
<1> QED BY <1>1, <1>2, <1>3, <1>4, <1>5, <1>6, NextCases

StopHeld(texts, users) ==
  /\ Len(atStop.texts) <= texts /\ Len(atStop.users) <= users
  /\ \A i \in DOMAIN atStop.texts : atStop.texts[i] = Text(backlog_[i])
  /\ \A i \in DOMAIN atStop.users : atStop.users[i] = User(users_[i])

LEMMA NextStop ==
  ASSUME ProcessTypeOK, ProcessTypeOK', StreamInv, StopInv, [Next]_vars
  PROVE  StopInv'
<1> SUFFICES ASSUME at' \in {"open", "texts", "users"}
             PROVE  StopHeld(TextsToSave, UsersToSave)'
  BY DEF StopInv, StopHeld
<1>1. CASE at = "loop" /\ LeaveLoop
  <2>1. /\ at' = "open" /\ UNCHANGED <<backlog_, users_>>
        /\ atStop' = [texts |-> [i \in DOMAIN backlog_ |-> Text(backlog_[i])],
                      users |-> [i \in DOMAIN users_ |-> User(users_[i])]]
    BY <1>1 DEF LeaveLoop, dbVars
  <2>2. TextsToSave' = Len(backlog_) /\ UsersToSave' = Len(users_)
    BY <2>1 DEF TextsToSave, UsersToSave
  <2>3. /\ DOMAIN backlog_ = 1 .. Len(backlog_) /\ Len(backlog_) \in Nat
        /\ DOMAIN users_ = 1 .. Len(users_) /\ Len(users_) \in Nat
    BY Lengths
  <2> DEFINE bs == [i \in 1 .. Len(backlog_) |-> Text(backlog_[i])]
             us == [i \in 1 .. Len(users_) |-> User(users_[i])]
  <2>4. atStop'.texts = bs /\ atStop'.users = us BY <2>1, <2>3
  <2>5. Len(bs) = Len(backlog_) /\ Len(us) = Len(users_) BY <2>3
  <2>6. \A i \in DOMAIN bs : bs[i] = Text(backlog_[i]) OBVIOUS
  <2>7. \A i \in DOMAIN us : us[i] = User(users_[i]) OBVIOUS
  <2> HIDE DEF bs, us
  <2> QED BY <2>1, <2>2, <2>3, <2>4, <2>5, <2>6, <2>7 DEF StopHeld
<1>2. CASE atStop' = atStop /\ at \in {"open", "texts", "users"}
  <2>1. StopHeld(TextsToSave, UsersToSave) BY <1>2 DEF StopInv, StopHeld
  <2>2. /\ \A i \in 1 .. Len(backlog_) : backlog_[i] = backlog_'[i]
        /\ \A i \in 1 .. Len(users_) : users_[i] = users_'[i]
        /\ TextsToSave <= TextsToSave' /\ UsersToSave <= UsersToSave'
    BY <1>2, KeptInMemory DEF Prefixed, Loaded
  <2>3. /\ TextsToSave \in 0 .. Len(backlog_) /\ UsersToSave \in 0 .. Len(users_)
        /\ Len(backlog_) \in Nat /\ Len(users_) \in Nat
    BY SaveParts, Lengths
  <2>4. TextsToSave' \in Int /\ UsersToSave' \in Int BY LengthsNext
  <2> DEFINE ts == atStop.texts
             us == atStop.users
  <2>5. ts \in Seq(Records) /\ us \in Seq(Records) BY TypeParts DEF History
  <2>6. /\ Len(ts) <= TextsToSave /\ Len(us) <= UsersToSave
        /\ \A i \in DOMAIN ts : ts[i] = Text(backlog_[i])
        /\ \A i \in DOMAIN us : us[i] = User(users_[i])
    BY <2>1 DEF StopHeld
  <2> HIDE DEF ts, us
  <2>7. /\ DOMAIN ts = 1 .. Len(ts) /\ Len(ts) \in Nat
        /\ DOMAIN us = 1 .. Len(us) /\ Len(us) \in Nat
    BY <2>5
  <2>8. Len(ts) <= TextsToSave' /\ Len(us) <= UsersToSave'
    BY <2>2, <2>3, <2>4, <2>6, <2>7
  <2>9. \A i \in DOMAIN ts : ts[i] = Text(backlog_'[i])
    <3>1. DOMAIN ts \subseteq 1 .. Len(backlog_) BY <2>3, <2>6, <2>7
    <3> QED BY <2>2, <2>6, <3>1
  <2>10. \A i \in DOMAIN us : us[i] = User(users_'[i])
    <3>1. DOMAIN us \subseteq 1 .. Len(users_) BY <2>3, <2>6, <2>7
    <3> QED BY <2>2, <2>6, <3>1
  <2> QED BY <1>2, <2>8, <2>9, <2>10 DEF StopHeld, ts, us
<1> QED BY <1>1, <1>2, StopFrame

\* When the loops of save() are over, the stream is what had to be saved.
LEMMA AllWritten ==
  ASSUME ProcessTypeOK, StreamInv, CloseFile
  PROVE  /\ Len(stream) = TextsToSave + UsersToSave
         /\ TextsToSave \in Nat /\ UsersToSave \in Nat
         /\ \A i \in 1 .. TextsToSave : stream[i] = Text(backlog_[i])
         /\ \A i \in 1 .. UsersToSave : stream[TextsToSave + i] = User(users_[i])
<1>1. at = "users" /\ next > limit BY DEF CloseFile
<1>2. TextsWritten = TextsToSave /\ UsersWritten = next - 1 /\ UsersToSave = limit
  BY <1>1 DEF TextsWritten, UsersWritten, UsersToSave
<1>3. next - 1 = limit BY <1>1, Lengths
<1>4. TextsToSave \in Nat /\ UsersToSave \in Nat BY SaveParts, Lengths
<1> QED BY <1>1, <1>2, <1>3, <1>4 DEF StreamInv

LEMMA NextKept ==
  ASSUME ProcessTypeOK, StreamInv, DurableInv, DurableKept, [Next]_vars
  PROVE  DurableKept'
<1> SUFFICES ASSUME at' \notin {"texts", "users"} PROVE durable' \subseteq InDatabase(disk')
  BY DEF DurableKept, InDatabase, Range
<1> USE DEF StillSaved, Ends
<1>1. CASE Start \/ BadSettings \/ GoodSettings \/ DatabaseInit \/ Bind \/ StartWaiting \/ Exit
  BY <1>1 DEF Start, BadSettings, GoodSettings, DatabaseInit, Bind, StartWaiting, Exit,
     DurableKept, histVars
<1>2. CASE StopWaiting \/ AcceptFails \/ Sigint \/ UNCHANGED vars
  BY <1>2 DEF StopWaiting, AcceptFails, LeaveLoop, Sigint, vars, DurableKept, histVars
<1>3. CASE Crash BY <1>3 DEF Crash, DurableKept
<1>4. CASE AddMsg \/ \E u \in Users : AddUser(u)
  BY <1>4 DEF AddMsg, AddUser, Race, DurableKept
<1>5. CASE OpenFile BY <1>5 DEF OpenFile, DurableKept, histVars
<1>6. CASE WriteText \/ WriteUser \/ WriteUsers \/ WriteFails
           \/ \E k \in Nat, part \in BOOLEAN : Flush(k, part)
  BY <1>6 DEF WriteText, WriteUser, Write, WriteUsers, WriteFails, Flush
<1>7. CASE CloseFile
  <2>1. CASE failed
    <3>1. durable' = StillSaved /\ disk' = disk BY <1>7, <2>1 DEF CloseFile
    <3> QED BY <3>1
  <2>2. CASE ~failed
    <3>1. durable' = durable \cup InDatabase(stream) /\ disk' = stream
      BY <1>7, <2>2 DEF CloseFile
    <3>2. SUFFICES ASSUME NEW r \in durable PROVE r \in InDatabase(stream)
      BY <3>1
    <3>3. at = "users" BY <1>7 DEF CloseFile
    <3>4. DOMAIN stream = 1 .. Len(stream) /\ Len(stream) \in Nat BY Lengths
    <3>5. ASSUME NEW i \in 1 .. TextsToSave, r = Text(backlog_[i])
          PROVE  r \in InDatabase(stream)
      <4>1. i \in DOMAIN stream /\ stream[i] = r BY <1>7, <3>4, <3>5, AllWritten
      <4>2. r.kind = "text" BY <3>5 DEF Text
      <4> QED BY <4>1, <4>2 DEF InDatabase, Range
    <3>6. ASSUME NEW i \in 1 .. UsersToSave, r = User(users_[i])
          PROVE  r \in InDatabase(stream)
      <4>1. TextsToSave + i \in DOMAIN stream /\ stream[TextsToSave + i] = r
        BY <1>7, <3>4, <3>6, AllWritten
      <4>2. r.kind = "user" BY <3>6 DEF User
      <4> QED BY <4>1, <4>2 DEF InDatabase, Range
    <3> QED BY <3>3, <3>5, <3>6 DEF DurableInv
  <2> QED BY <2>1, <2>2
<1> QED BY <1>1, <1>2, <1>3, <1>4, <1>5, <1>6, <1>7, NextCases

LEMMA NextSaves ==
  ASSUME ProcessTypeOK, StreamInv, StopInv, StopSaves, [Next]_vars
  PROVE  StopSaves'
<1> SUFFICES ASSUME at' = "gone", ~failed'
             PROVE  /\ IsPrefix(atStop'.texts, disk')
                    /\ Range(atStop'.users) \subseteq Range(disk')
  BY DEF StopSaves, IsPrefix, Range
<1>1. CASE at = "gone" /\ UNCHANGED <<at, failed, atStop, disk>>
  BY <1>1 DEF StopSaves
<1>2. CASE CloseFile
  <2>1. disk' = stream /\ atStop' = atStop /\ at = "users" BY <1>2 DEF CloseFile
  <2> DEFINE ts == atStop.texts
             us == atStop.users
  <2>2. /\ ts \in Seq(Records) /\ us \in Seq(Records) BY TypeParts DEF History
  <2>3. /\ Len(ts) <= TextsToSave /\ Len(us) <= UsersToSave
        /\ \A i \in DOMAIN ts : ts[i] = Text(backlog_[i])
        /\ \A i \in DOMAIN us : us[i] = User(users_[i])
    BY <2>1 DEF StopInv
  <2>4. /\ Len(stream) = TextsToSave + UsersToSave
        /\ TextsToSave \in Nat /\ UsersToSave \in Nat
        /\ \A i \in 1 .. TextsToSave : stream[i] = Text(backlog_[i])
        /\ \A i \in 1 .. UsersToSave : stream[TextsToSave + i] = User(users_[i])
    BY <1>2, AllWritten
  <2>5. stream \in Seq(Records) /\ Len(stream) \in Nat /\ DOMAIN stream = 1 .. Len(stream)
    BY Lengths
  <2> HIDE DEF ts, us
  <2>6. /\ DOMAIN ts = 1 .. Len(ts) /\ Len(ts) \in Nat
        /\ DOMAIN us = 1 .. Len(us) /\ Len(us) \in Nat
    BY <2>2
  <2>7. Len(ts) <= Len(stream) /\ \A i \in 1 .. Len(ts) : ts[i] = stream[i]
    BY <2>3, <2>4, <2>6
  <2>8. SubSeq(ts, 1, Len(ts)) = SubSeq(stream, 1, Len(ts))
    <3>1. SubSeq(ts, 1, Len(ts)) \in Seq(Records) /\ SubSeq(stream, 1, Len(ts)) \in Seq(Records)
      BY <2>2, <2>5, <2>6, <2>7
    <3>2. Len(SubSeq(ts, 1, Len(ts))) = Len(ts) /\ Len(SubSeq(stream, 1, Len(ts))) = Len(ts)
      BY <2>2, <2>5, <2>6, <2>7
    <3>3. \A i \in 1 .. Len(ts) :
            SubSeq(ts, 1, Len(ts))[i] = ts[i] /\ SubSeq(stream, 1, Len(ts))[i] = stream[i]
      BY <2>2, <2>5, <2>6, <2>7
    <3> DEFINE a == SubSeq(ts, 1, Len(ts))
               b == SubSeq(stream, 1, Len(ts))
    <3>4. a \in Seq(Records) /\ b \in Seq(Records) /\ Len(a) = Len(b) BY <3>1, <3>2
    <3>5. \A i \in 1 .. Len(a) : a[i] = b[i] BY <2>7, <3>2, <3>3
    <3> HIDE DEF a, b
    <3>6. a = b BY <3>4, <3>5
    <3> QED BY <3>6 DEF a, b
  <2>9. ASSUME NEW r \in Range(us) PROVE r \in Range(stream)
    <3>1. PICK i \in DOMAIN us : r = us[i] BY DEF Range
    <3>2. TextsToSave + i \in DOMAIN stream /\ stream[TextsToSave + i] = r
      BY <2>3, <2>4, <2>5, <2>6, <3>1
    <3> QED BY <3>2 DEF Range
  <2> QED BY <2>1, <2>7, <2>8, <2>9 DEF IsPrefix, ts, us
<1>3. CASE OpenFile BY <1>3 DEF OpenFile
<1>4. CASE Start \/ BadSettings \/ GoodSettings \/ DatabaseInit \/ Bind \/ StartWaiting \/ Exit
           \/ Crash
  BY <1>4 DEF Start, BadSettings, GoodSettings, DatabaseInit, Unreadable, Bind,
     StartWaiting, Exit, Crash, Ends
<1>5. CASE StopWaiting \/ AcceptFails
  BY <1>5 DEF StopWaiting, AcceptFails, LeaveLoop
<1>6. CASE WriteText \/ WriteUser \/ WriteUsers \/ WriteFails
           \/ \E k \in Nat, part \in BOOLEAN : Flush(k, part)
  BY <1>6 DEF WriteText, WriteUser, Write, WriteUsers, WriteFails, Flush
<1>7. CASE AddMsg \/ \E u \in Users : AddUser(u)
  BY <1>7 DEF AddMsg, AddUser, Race, Serving, Ends
<1>8. CASE Sigint \/ UNCHANGED vars
  BY <1>1, <1>8 DEF Sigint, vars, saveVars, histVars
<1> QED BY <1>1, <1>2, <1>3, <1>4, <1>5, <1>6, <1>7, <1>8, NextCases

(***************************************************************************)
(* The invariant and what follows from it.                                 *)
(***************************************************************************)
\* The first file: its texts are numbered as they stand in it.
LEMMA FirstFile ==
  ASSUME Init, disk # NoFile
  PROVE  InOrder(disk) /\ OnlyLastTorn(disk)
<1> DEFINE ts == Added("text", disk)
           bs == BacklogOf(disk)
<1>1. disk \in Seq(Records) /\ \A i \in DOMAIN bs : bs[i] = i
  BY ProcessAssumption DEF Init
<1>2. disk \in Seq(Records \cup {Torn}) /\ Torn \notin Records
  <2>1. disk \in Seq(Records \cup {Torn}) BY <1>1
  <2>2. Torn \notin Records BY DEF Torn, Records, Text, User, Other
  <2> QED BY <2>1, <2>2
<1>3. OnlyLastTorn(disk)
  <2>1. \A i \in DOMAIN disk : disk[i] \in Records BY <1>1
  <2> QED BY <1>2, <2>1 DEF OnlyLastTorn
<1>4. PICK g : Stands(g, ts, "text", disk, Readable(disk))
  BY <1>2, AddedSelects DEF Selected, Kinds
<1>5. /\ bs \in Seq(1 .. MaxTexts) /\ Len(bs) = Len(ts)
      /\ \A i \in 1 .. Len(bs) : Text(bs[i]) = ts[i]
  BY <1>2, LoadedForms
<1>6. taken = Len(bs) /\ Len(bs) \in Nat /\ DOMAIN bs = 1 .. Len(bs)
  BY <1>5 DEF Init
<1> HIDE DEF ts, bs
<1>7. ASSUME NEW i \in DOMAIN disk, disk[i].kind = "text"
      PROVE  \E k \in 1 .. Len(bs) : g[k] = i /\ disk[i].n = k
  <2>1. i \in 1 .. Readable(disk) BY <1>2, <1>3, <1>7, ReadsAll DEF Kinds
  <2>2. PICK k \in 1 .. Len(ts) : g[k] = i BY <1>4, <1>7, <2>1 DEF Stands
  <2>3. ts[k] = disk[i] BY <1>4, <2>2 DEF Stands
  <2>4. k \in DOMAIN bs /\ bs[k] = k BY <1>1, <1>5, <1>6, <2>2 DEF bs
  <2>5. disk[i] = Text(k) BY <1>5, <1>6, <2>3, <2>4
  <2>6. disk[i].n = k BY <2>5 DEF Text
  <2> QED BY <1>5, <2>2, <2>6
<1>8. \A i \in DOMAIN disk : disk[i].kind = "text" => disk[i].n <= taken
  BY <1>6, <1>7
<1>9. ASSUME NEW i \in DOMAIN disk, NEW j \in DOMAIN disk, i < j,
             disk[i].kind = "text", disk[j].kind = "text"
      PROVE  disk[i].n < disk[j].n
  <2>1. PICK k \in 1 .. Len(bs) : g[k] = i /\ disk[i].n = k BY <1>7, <1>9
  <2>2. PICK l \in 1 .. Len(bs) : g[l] = j /\ disk[j].n = l BY <1>7, <1>9
  <2>3. k # l BY <1>9, <2>1, <2>2
  <2>4. ~ l < k
    <3>1. l < k => g[l] < g[k] BY <1>4, <1>5 DEF Stands
    <3>2. i \in Int /\ j \in Int BY <1>1
    <3> QED BY <1>9, <2>1, <2>2, <3>1, <3>2
  <2> QED BY <1>6, <2>1, <2>2, <2>3, <2>4
<1>10. InOrder(disk) BY <1>8, <1>9 DEF InOrder
<1> QED BY <1>3, <1>10

LEMMA InitInv == Init => ProcessInv
<1> SUFFICES ASSUME Init PROVE ProcessInv
  OBVIOUS
<1>1. ProcessTypeOK BY InitType
<1>2. FileInv BY FirstFile DEF FileInv, OnlyLastTorn
<1>3. BacklogInv BY DEF Init, BacklogInv, Rising
<1>4. at = "down" /\ durable = InDatabase(disk) BY DEF Init
<1> QED BY <1>1, <1>2, <1>3, <1>4 DEF ProcessInv, StreamInv, DurableInv, StopInv,
       DurableKept, StopSaves

LEMMA NextInv == ProcessInv /\ [Next]_vars => ProcessInv'
<1> SUFFICES ASSUME ProcessInv, [Next]_vars PROVE ProcessInv'
  OBVIOUS
<1>1. /\ ProcessTypeOK /\ FileInv /\ BacklogInv /\ StreamInv /\ DurableInv /\ StopInv
      /\ DurableKept /\ StopSaves
  BY DEF ProcessInv
<1>2. ProcessTypeOK' BY <1>1, NextType
<1>3. FileInv' BY <1>1, NextFile
<1>4. BacklogInv' BY <1>1, NextBacklog
<1>5. StreamInv' BY <1>1, <1>2, NextStream
<1>6. DurableInv' BY <1>1, <1>2, NextDurable
<1>7. StopInv' BY <1>1, <1>2, NextStop
<1>8. DurableKept' BY <1>1, NextKept
<1>9. StopSaves' BY <1>1, NextSaves
<1> QED BY <1>2, <1>3, <1>4, <1>5, <1>6, <1>7, <1>8, <1>9 DEF ProcessInv

\* Memory, stream and file stay related as ProcessInv says, in every step of the
\* main thread, of save() and of the client threads.
THEOREM ProcessInvariant == Spec => []ProcessInv
BY InitInv, NextInv, PTL DEF Spec

LEMMA InvKeepsOrder == ProcessInv => OrderKept
<1> SUFFICES ASSUME ProcessInv PROVE OrderKept
  OBVIOUS
<1>1. Rising(backlog_) BY DEF ProcessInv, BacklogInv
<1>2. ASSUME disk # NoFile PROVE Rising(BacklogOf(disk))
  <2>1. disk \in Seq(Records \cup {Torn}) /\ InOrder(disk)
    BY <1>2 DEF ProcessInv, ProcessTypeOK, FileInv
  <2> QED BY <2>1, LoadsInOrder
<1> QED BY <1>1, <1>2 DEF OrderKept

\* Every variable of the server process and of save() keeps its type: the
\* iterators never leave the vectors they run over, whatever client threads add
\* meanwhile, and the file is a sequence of records, torn ones among them.
THEOREM ProcessTypeCorrect == Spec => []ProcessTypeOK
<1>1. ProcessInv => ProcessTypeOK BY DEF ProcessInv
<1> QED BY <1>1, ProcessInvariant, PTL

\* Database::load and Database::save keep the texts in the order they were
\* taken, and none twice, over any number of restarts, crashes and failures.
THEOREM OrderIsKept == Spec => []OrderKept
BY InvKeepsOrder, ProcessInvariant, PTL

\* A Database::save that meets no fault writes all that was in memory when the
\* main loop was left, however many texts and users are added meanwhile.
THEOREM SavesAtStop == Spec => []StopSaves
<1>1. ProcessInv => StopSaves BY DEF ProcessInv
<1> QED BY <1>1, ProcessInvariant, PTL

\* What was saved is in the file whenever save() is not writing it, after any
\* number of runs; only a save() that failed or died may lose it.
THEOREM SavedIsKept == Spec => []DurableKept
<1>1. ProcessInv => DurableKept BY DEF ProcessInv
<1> QED BY <1>1, ProcessInvariant, PTL
=============================================================================
