-------------------------- MODULE LineInputProofs --------------------------
(***************************************************************************)
(* Lines fit into messages, what is sent is what was edited, and the       *)
(* window shows it, for every set of characters and every bound.           *)
(***************************************************************************)
EXTENDS LineInput, SequenceLemmas, TLAPS

\* text_ is a string, size_ its length, what getLine returned or getInput sent
\* is no longer, and the input window has its type.
EditInv ==
  /\ text_ \in Seq(Characters) /\ size_ = Len(text_) /\ size_ \in 0..MaxLine
  /\ msg \in Seq(Characters) /\ Len(msg) <= MaxLine
  /\ input_ \in WindowType
  /\ sent \in Seq(Seq(Characters))
  /\ \A i \in DOMAIN sent : Len(sent[i]) \in 1..MaxLine

LEMMA PrefixOf ==
  ASSUME NEW S, NEW s \in Seq(S), NEW n \in Nat, n <= Len(s)
  PROVE  SubSeq(s, 1, n) \in Seq(S) /\ Len(SubSeq(s, 1, n)) = n
OBVIOUS

LEMMA FrontOf ==
  ASSUME NEW S, NEW s \in Seq(S), Len(s) # 0
  PROVE  Front(s) \in Seq(S) /\ Len(Front(s)) = Len(s) - 1
<1> DEFINE n == Len(s) - 1
<1>1. n \in Nat /\ n <= Len(s)
  OBVIOUS
<1> HIDE DEF n
<1>2. SubSeq(s, 1, n) \in Seq(S) /\ Len(SubSeq(s, 1, n)) = n
  BY <1>1, PrefixOf
<1>3. Front(s) = SubSeq(s, 1, n)
  BY Zenon DEF Front, n
<1> QED BY <1>2, <1>3, Zenon DEF n

\* waddch() and wmove() keep the cursor within the window.
LEMMA ErasedOK == Erased \in WindowType
BY LineAssumption DEF Erased, WindowType, LastCell

LEMMA PutOK ==
  ASSUME NEW w \in WindowType, NEW c \in Characters \cup {Border, Blank, "^"}
  PROVE  Put(w, c) \in WindowType
BY LineAssumption DEF Put, WindowType, LastCell

LEMMA MoveLeftOK ==
  ASSUME NEW w \in WindowType
  PROVE  MoveLeft(w) \in WindowType
<1>1. CASE w.cursor % Width = 0
  BY <1>1 DEF MoveLeft
<1>2. CASE w.cursor % Width # 0
  <2>1. w.cursor # 0
    BY <1>2, LineAssumption
  <2>2. w.cursor - 1 \in 0..LastCell
    BY <2>1, LineAssumption DEF WindowType, LastCell
  <2> QED BY <1>2, <2>2 DEF MoveLeft, WindowType
<1> QED BY <1>1, <1>2

LEMMA EchoOK ==
  ASSUME NEW w \in WindowType, NEW k \in Characters
  PROVE  Echo(w, k) \in WindowType
<1>1. Put(w, k) \in WindowType /\ Put(w, "^") \in WindowType
  BY PutOK
<1>2. Put(Put(w, "^"), k) \in WindowType
  BY <1>1, PutOK
<1> QED BY <1>1, <1>2 DEF Echo

LEMMA RubOutOK ==
  ASSUME NEW w \in WindowType
  PROVE  RubOut(w) \in WindowType
<1>1. Put(MoveLeft(w), Blank) \in WindowType
  BY MoveLeftOK, PutOK
<1> QED BY <1>1, MoveLeftOK DEF RubOut

LEMMA InitEdit == Init => EditInv
BY LineAssumption, ErasedOK DEF Init, EditInv

LEMMA NextEdit == EditInv /\ [Next]_vars => EditInv'
<1> SUFFICES ASSUME EditInv, [Next]_vars PROVE EditInv'
  OBVIOUS
<1> USE LineAssumption
<1>1. ASSUME NEW k \in Keys, Type(k) PROVE EditInv'
  BY <1>1 DEF Type, line_, EditInv
<1>2. CASE GetInput
  BY <1>2 DEF GetInput, line_, EditInv
<1>3. CASE NoKey
  BY <1>3 DEF NoKey, line_, EditInv
<1>4. CASE Enter
  BY <1>4, ErasedOK DEF Enter, Cleared, EditInv
<1>5. CASE Erase
  <2>1. CASE size_ <= 0
    <3>1. UNCHANGED <<text_, size_, input_, msg, sent>>
      BY <1>5, <2>1 DEF Erase, line_
    <3> QED BY <3>1 DEF EditInv
  <2>2. CASE ~(size_ <= 0)
    <3>1. Front(text_) \in Seq(Characters) /\ Len(Front(text_)) = Len(text_) - 1
      BY <2>2, FrontOf DEF EditInv
    <3>2. /\ text_' = Front(text_) /\ size_' = size_ - 1
          /\ input_' = RubOut(input_) /\ msg' = msg /\ sent' = sent
      BY <1>5, <2>2 DEF Erase, Fewer
    <3>3. input_' \in WindowType
      BY <3>2, RubOutOK DEF EditInv
    <3> QED BY <2>2, <3>1, <3>2, <3>3 DEF EditInv
  <2> QED BY <2>1, <2>2
<1>6. ASSUME NEW k \in Characters, Character(k) PROVE EditInv'
  <2>1. CASE Full(size_)
    <3>1. UNCHANGED <<text_, size_, input_, msg, sent>>
      BY <1>6, <2>1 DEF Character, line_
    <3> QED BY <3>1 DEF EditInv
  <2>2. CASE ~Full(size_)
    <3>1. Append(text_, k) \in Seq(Characters) /\ Len(Append(text_, k)) = Len(text_) + 1
      BY DEF EditInv
    <3>2. /\ text_' = Append(text_, k) /\ size_' = size_ + 1
          /\ input_' = Echo(input_, k) /\ msg' = msg /\ sent' = sent
      BY <1>6, <2>2 DEF Character
    <3>3. size_ < MaxLine
      BY <2>2 DEF Full, EditInv
    <3>4. input_' \in WindowType
      BY <3>2, EchoOK DEF EditInv
    <3> QED BY <3>1, <3>2, <3>3, <3>4 DEF EditInv
  <2> QED BY <2>1, <2>2
<1>7. CASE Obey
  BY <1>7 DEF Obey, line_, EditInv
<1>8. CASE SendText
  <2>1. Len(msg) \in 1..MaxLine
    BY <1>8 DEF SendText, line_, EditInv
  <2>2. sent' \in Seq(Seq(Characters))
    BY <1>8 DEF SendText, line_, EditInv
  <2>3. ASSUME NEW i \in DOMAIN sent' PROVE Len(sent'[i]) \in 1..MaxLine
    BY <1>8, <2>1 DEF SendText, line_, EditInv
  <2> QED BY <1>8, <2>2, <2>3 DEF SendText, line_, EditInv
<1>9. CASE NothingToSend
  BY <1>9 DEF NothingToSend, line_, EditInv
<1>10. CASE UNCHANGED vars
  BY <1>10 DEF vars, line_, EditInv
<1> QED
  BY <1>1, <1>2, <1>3, <1>4, <1>5, <1>6, <1>7, <1>8, <1>9, <1>10 DEF Next, GetLine

\* Whatever is typed and however it is spread over calls, pop_back() is never
\* called on an empty string, every text sent fits into its message and the
\* echo stays in its window.
THEOREM TextsFit == Spec => []LinesFit
<1>1. EditInv => LinesFit
  BY DEF EditInv, LinesFit
<1> QED BY InitEdit, NextEdit, <1>1, PTL DEF Spec

(***************************************************************************)
(* What the keys mean: the meaning of some keys and one more is the        *)
(* meaning of those keys, edited.                                          *)
(***************************************************************************)
Meant ==
  [texts : Seq(Seq(Characters)), line : Seq(Characters), inRow : BOOLEAN]

LEMMA EditOK ==
  ASSUME NEW line \in Seq(Characters), NEW k \in Keys, k # Newline
  PROVE  Edit(line, k) \in Seq(Characters)
<1>1. CASE k = Backspace
  BY <1>1, FrontOf DEF Edit
<1>2. CASE k # Backspace
  <2>1. k \in Characters
    BY <1>2 DEF Keys
  <2> QED BY <1>2, <2>1 DEF Edit
<1> QED BY <1>1, <1>2

LEMMA PressOK ==
  ASSUME NEW s \in Meant, NEW k \in Keys
  PROVE  Press(s, k) \in Meant
<1>1. CASE k = Newline
  BY <1>1 DEF Press, Meant
<1>2. CASE k # Newline
  <2>1. Edit(s.line, k) \in Seq(Characters)
    BY <1>2, EditOK DEF Meant
  <2> QED BY <1>2, <2>1 DEF Press, Meant
<1> QED BY <1>1, <1>2

LEMMA NothingOK == Nothing \in Meant
BY DEF Nothing, Meant

IsUpto(f, ks) ==
  f = [i \in 0..Len(ks) |-> IF i = 0 THEN Nothing ELSE Press(f[i - 1], ks[i])]

UptoFor(ks) == CHOOSE f : IsUpto(f, ks)

LEMMA MeaningUpto ==
  ASSUME NEW ks
  PROVE  Meaning(ks) = UptoFor(ks)[Len(ks)]
BY DEF Meaning, UptoFor, IsUpto

LEMMA UptoType ==
  ASSUME NEW ks \in Seq(Keys)
  PROVE  /\ UptoFor(ks)[0] = Nothing
         /\ \A i \in 1..Len(ks) : UptoFor(ks)[i] = Press(UptoFor(ks)[i - 1], ks[i])
<1> DEFINE n == Len(ks)
           step == [i \in 1..n |-> [v \in Meant |-> Press(v, ks[i])]]
<1>0. n \in Nat
  OBVIOUS
<1>1. step \in [1..n -> [Meant -> Meant]]
  <2>1. ASSUME NEW i \in 1..n, NEW v \in Meant PROVE Press(v, ks[i]) \in Meant
    <3>1. ks[i] \in Keys
      OBVIOUS
    <3> QED BY <3>1, PressOK
  <2> HIDE DEF n
  <2> QED BY <2>1
<1>2. PICK f \in [0..n -> Meant] : Recursion(f, n, Nothing, step)
  <2> HIDE DEF step, n
  <2> QED BY <1>0, <1>1, NothingOK, RecursiveFunction
<1>3. IsUpto(f, ks)
  <2>1. ASSUME NEW i \in 1..n PROVE step[i][f[i - 1]] = Press(f[i - 1], ks[i])
    <3>1. i - 1 \in 0..n
      BY <1>0
    <3> HIDE DEF n
    <3>2. f[i - 1] \in Meant
      BY <1>2, <3>1
    <3> QED BY <3>2
  <2> HIDE DEF step
  <2>2. f[0] = Nothing /\ \A i \in 1..n : f[i] = step[i][f[i - 1]]
    BY <1>2 DEF Recursion
  <2>3. ASSUME NEW i \in 0..n
        PROVE  f[i] = IF i = 0 THEN Nothing ELSE Press(f[i - 1], ks[i])
    <3>1. i = 0 \/ i \in 1..n
      BY <1>0
    <3> HIDE DEF n
    <3> QED BY <2>1, <2>2, <3>1
  <2> QED BY <1>2, <2>3 DEF IsUpto
<1>4. IsUpto(UptoFor(ks), ks)
  BY <1>3 DEF UptoFor
<1>5. UptoFor(ks)[0] = Nothing
  BY <1>0, <1>4 DEF IsUpto
<1>6. ASSUME NEW i \in 1..Len(ks)
      PROVE  UptoFor(ks)[i] = Press(UptoFor(ks)[i - 1], ks[i])
  <2>1. i \in 0..Len(ks) /\ i # 0
    OBVIOUS
  <2> QED BY <1>4, <2>1 DEF IsUpto
<1> QED BY <1>5, <1>6

LEMMA MeaningOfNone == Meaning(<<>>) = Nothing
<1>1. <<>> \in Seq(Keys) /\ Len(<<>>) = 0
  OBVIOUS
<1> QED BY <1>1, UptoType, MeaningUpto

LEMMA MeaningOfNext ==
  ASSUME NEW ks \in Seq(Keys), NEW k \in Keys
  PROVE  Meaning(Append(ks, k)) = Press(Meaning(ks), k)
<1> DEFINE all == Append(ks, k)
           n == Len(ks)
           u == UptoFor(ks)
           v == UptoFor(all)
<1>1. /\ all \in Seq(Keys) /\ n \in Nat /\ Len(all) = n + 1 /\ all[n + 1] = k
      /\ \A i \in 1..n : all[i] = ks[i]
  OBVIOUS
<1>2. u[0] = Nothing /\ \A i \in 1..n : u[i] = Press(u[i - 1], ks[i])
  BY UptoType
<1>3. v[0] = Nothing /\ \A i \in 1..(n + 1) : v[i] = Press(v[i - 1], all[i])
  <2> HIDE DEF all, n, v
  <2>1. v[0] = Nothing /\ \A i \in 1..Len(all) : v[i] = Press(v[i - 1], all[i])
    BY <1>1, UptoType DEF v
  <2> QED BY <1>1, <2>1
<1>4. Alike(u, v, n)
  <2> HIDE DEF all, n, u, v
  <2>1. ASSUME NEW i \in 1..n, u[i - 1] = v[i - 1] PROVE u[i] = v[i]
    <3>1. u[i] = Press(u[i - 1], ks[i])
      BY <1>2
    <3>2. v[i] = Press(v[i - 1], all[i]) /\ all[i] = ks[i]
      BY <1>1, <1>3
    <3> QED BY <2>1, <3>1, <3>2
  <2> QED BY <1>2, <1>3, <2>1 DEF Alike
<1>5. u[n] = v[n]
  <2> HIDE DEF all, n, u, v
  <2> QED BY <1>1, <1>4, SameRecursion
<1>6. v[n + 1] = Press(v[n], k)
  <2> HIDE DEF all, n, u, v
  <2>1. n + 1 \in 1..(n + 1) /\ (n + 1) - 1 = n
    BY <1>1
  <2> QED BY <1>1, <1>3, <2>1
<1>7. Meaning(ks) = u[n] /\ Meaning(all) = v[n + 1]
  <2> HIDE DEF all
  <2> QED BY <1>1, MeaningUpto
<1> QED BY <1>5, <1>6, <1>7

LEMMA MeaningOK ==
  ASSUME NEW ks \in Seq(Keys)
  PROVE  Meaning(ks) \in Meant
<1> DEFINE u == UptoFor(ks)
           S == {i \in Nat : i <= Len(ks) => u[i] \in Meant}
<1>1. u[0] = Nothing /\ \A i \in 1..Len(ks) : u[i] = Press(u[i - 1], ks[i])
  BY UptoType
<1> HIDE DEF u
<1>2. 0 \in S
  BY <1>1, NothingOK
<1>3. ASSUME NEW i \in Nat, i \in S PROVE i + 1 \in S
  <2> SUFFICES ASSUME i + 1 <= Len(ks) PROVE u[i + 1] \in Meant
    OBVIOUS
  <2>1. i + 1 \in 1..Len(ks) /\ (i + 1) - 1 = i /\ u[i] \in Meant
    BY <1>3
  <2>2. ks[i + 1] \in Keys /\ u[i + 1] = Press(u[i], ks[i + 1])
    BY <1>1, <2>1
  <2> QED BY <2>1, <2>2, PressOK
<1>4. Len(ks) \in S
  <2> HIDE DEF S
  <2> QED BY <1>2, <1>3, NatSetInduction
<1> QED BY <1>4, MeaningUpto DEF u

(***************************************************************************)
(* What is sent and what is seen.                                          *)
(***************************************************************************)
\* The keys that wait are the last ones typed.
KeysInv ==
  /\ keys \in Seq(Keys) /\ typed \in Seq(Keys) /\ Len(keys) <= Len(typed)
  /\ \A i \in 1..Len(keys) : keys[i] = typed[Len(typed) - Len(keys) + i]

Now == Meaning(Taken)

\* What getInput got from getLine counts among the texts already, although it
\* is sent by a later step only.
Settled == IF at = "input" /\ IsText(msg) THEN Append(sent, msg) ELSE sent

\* The row shows a line: the characters, the cursor behind them, blanks.
Shows(w, text, size) ==
  /\ w.cursor = size + 1
  /\ \A p \in 0..LastCell :
       w.cells[p] = IF p \in 1..size THEN text[p] ELSE Erased.cells[p]

\* The strengthening of SentAsEdited and EchoMatches.  A line whose row shows it
\* is short enough for a backspace not to meet the start of a row.
MeantInv ==
  /\ EditInv /\ KeysInv
  /\ text_ = Now.line /\ Settled = Now.texts
  /\ Now.inRow => size_ <= Width - 2 /\ Shows(input_, text_, size_)

LEMMA TakenOK ==
  ASSUME KeysInv
  PROVE  Taken \in Seq(Keys)
<1> DEFINE n == Len(typed) - Len(keys)
<1>1. n \in Nat /\ n <= Len(typed) /\ typed \in Seq(Keys)
  BY DEF KeysInv
<1> HIDE DEF n
<1>2. SubSeq(typed, 1, n) \in Seq(Keys)
  BY <1>1, PrefixOf
<1> QED BY <1>2 DEF Taken, n

\* A key that is typed waits; what was taken stays.
LEMMA TypeKeepsTaken ==
  ASSUME KeysInv, NEW k \in Keys, Type(k)
  PROVE  KeysInv' /\ Now' = Now
<1> DEFINE n == Len(typed) - Len(keys)
<1>1. n \in Nat /\ n <= Len(typed) /\ typed \in Seq(Keys) /\ keys \in Seq(Keys)
  BY DEF KeysInv
<1>2. keys' = Append(keys, k) /\ typed' = Append(typed, k)
  BY DEF Type
<1>3. /\ keys' \in Seq(Keys) /\ Len(keys') = Len(keys) + 1
      /\ typed' \in Seq(Keys) /\ Len(typed') = Len(typed) + 1
      /\ \A i \in 1..Len(keys) : keys'[i] = keys[i]
      /\ \A i \in 1..Len(typed) : typed'[i] = typed[i]
      /\ keys'[Len(keys) + 1] = k /\ typed'[Len(typed) + 1] = k
  BY <1>1, <1>2
<1>4. Len(typed') - Len(keys') = n
  BY <1>1, <1>3
<1>8. ASSUME NEW i \in 1..Len(keys')
      PROVE  keys'[i] = typed'[Len(typed') - Len(keys') + i]
  <2> DEFINE j == n + i
  <2>1. CASE i \in 1..Len(keys)
    <3>1. keys[i] = typed[j]
      BY <2>1 DEF KeysInv
    <3>2. j \in 1..Len(typed)
      BY <1>1, <2>1
    <3> HIDE DEF j, n
    <3>3. keys'[i] = keys[i] /\ typed'[j] = typed[j]
      BY <1>3, <2>1, <3>2
    <3> QED BY <1>4, <3>1, <3>3 DEF j
  <2>2. CASE i = Len(keys) + 1
    <3>1. j = Len(typed) + 1
      BY <1>1, <2>2
    <3> HIDE DEF j, n
    <3> QED BY <1>3, <1>4, <2>2, <3>1 DEF j
  <2>3. i \in 1..Len(keys) \/ i = Len(keys) + 1
    BY <1>1, <1>3
  <2> QED BY <2>1, <2>2, <2>3
<1>9. KeysInv'
  <2>1. Len(keys') <= Len(typed')
    BY <1>1, <1>3
  <2> QED BY <1>3, <1>8, <2>1 DEF KeysInv
<1>5. Taken' = SubSeq(typed', 1, n)
  BY <1>4 DEF Taken
<1>6. SubSeq(Append(typed, k), 1, n) = SubSeq(typed, 1, n)
  <2> HIDE DEF n
  <2> QED BY <1>1, PrefixAppend
<1>7. Taken' = Taken
  BY <1>2, <1>5, <1>6 DEF Taken
<1> QED BY <1>9, <1>7 DEF Now

\* wgetch() takes the next key.
LEMMA ReadsTakes ==
  ASSUME KeysInv, NEW k \in Keys, Reads(k), typed' = typed
  PROVE  KeysInv' /\ Now' = Press(Now, k)
<1> DEFINE n == Len(typed) - Len(keys)
<1>1. n \in Nat /\ n <= Len(typed) /\ typed \in Seq(Keys) /\ keys \in Seq(Keys)
  BY DEF KeysInv
<1>2. keys # <<>> /\ keys' = Tail(keys) /\ keys[1] = k
  BY <1>1 DEF Reads
<1>3. /\ Len(keys) \in Nat /\ Len(keys) >= 1 /\ keys' \in Seq(Keys)
      /\ Len(keys') = Len(keys) - 1
      /\ \A i \in 1..Len(keys') : keys'[i] = keys[i + 1]
  BY <1>1, <1>2
<1>4. n + 1 \in 1..Len(typed) /\ typed[n + 1] = k
  BY <1>1, <1>2, <1>3 DEF KeysInv
<1>5. KeysInv'
  <2>1. ASSUME NEW i \in 1..Len(keys')
        PROVE  keys'[i] = typed'[Len(typed') - Len(keys') + i]
    <3>1. i + 1 \in 1..Len(keys)
      BY <1>3
    <3>2. keys[i + 1] = typed[Len(typed) - Len(keys) + (i + 1)]
      BY <3>1 DEF KeysInv
    <3>3. Len(typed') - Len(keys') + i = Len(typed) - Len(keys) + (i + 1)
      BY <1>1, <1>3
    <3> QED BY <1>3, <3>2, <3>3
  <2> QED BY <1>1, <1>3, <2>1 DEF KeysInv
<1>6. Len(typed') - Len(keys') = n + 1
  BY <1>1, <1>3
<1>7. Taken' = SubSeq(typed, 1, n + 1)
  BY <1>6 DEF Taken
<1>8. SubSeq(typed, 1, n + 1) = Append(SubSeq(typed, 1, n), typed[n + 1])
  <2> HIDE DEF n
  <2> QED BY <1>1, <1>4
<1>9. Taken' = Append(Taken, k)
  BY <1>4, <1>7, <1>8 DEF Taken
<1> QED BY <1>5, <1>9, TakenOK, MeaningOfNext DEF Now

LEMMA SameKeys ==
  ASSUME KeysInv, keys' = keys, typed' = typed
  PROVE  KeysInv' /\ Now' = Now
<1>1. Taken' = Taken
  BY DEF Taken
<1> QED BY <1>1 DEF KeysInv, Now

LEMMA ErasedShows ==
  ASSUME NEW text
  PROVE  Shows(Erased, text, 0)
BY LineAssumption DEF Shows, Erased, LastCell

\* A character that takes one cell goes behind the line.
LEMMA EchoShows ==
  ASSUME NEW w \in WindowType, NEW text \in Seq(Characters),
         NEW size \in Nat, size = Len(text), size + 1 <= Width - 2,
         NEW k \in Characters, k \notin Wide, Shows(w, text, size)
  PROVE  Shows(Echo(w, k), Append(text, k), size + 1)
<1> DEFINE w2 == Echo(w, k)
           t2 == Append(text, k)
<1>1. w2 = Put(w, k)
  BY DEF Echo
<1>2. w.cursor = size + 1 /\ w.cursor # LastCell /\ w.cursor \in 0..LastCell
  BY LineAssumption DEF Shows, LastCell
<1>3. w2.cursor = size + 2
  BY <1>1, <1>2 DEF Put
<1>4. ASSUME NEW p \in 0..LastCell
      PROVE  w2.cells[p] = IF p = size + 1 THEN k ELSE w.cells[p]
  <2>1. w2.cells = [w.cells EXCEPT ![size + 1] = k]
    BY <1>1, <1>2 DEF Put
  <2>2. w.cells \in [0..LastCell -> Characters \cup {Border, Blank, "^"}]
    BY DEF WindowType
  <2> HIDE DEF w2
  <2> QED BY <2>1, <2>2
<1>5. ASSUME NEW p \in 1..(size + 1)
      PROVE  t2[p] = IF p = size + 1 THEN k ELSE text[p]
  OBVIOUS
<1>6. ASSUME NEW p \in 0..LastCell
      PROVE  w2.cells[p] = IF p \in 1..(size + 1) THEN t2[p] ELSE Erased.cells[p]
  <2>1. w.cells[p] = IF p \in 1..size THEN text[p] ELSE Erased.cells[p]
    BY DEF Shows
  <2> HIDE DEF w2, t2
  <2>2. CASE p = size + 1
    BY <1>4, <1>5, <2>2
  <2>3. CASE p \in 1..size
    BY <1>4, <1>5, <2>1, <2>3
  <2>4. CASE p \notin 1..(size + 1)
    BY <1>4, <2>1, <2>4
  <2>5. p = size + 1 \/ p \in 1..size \/ p \notin 1..(size + 1)
    OBVIOUS
  <2> QED BY <2>2, <2>3, <2>4, <2>5
<1> HIDE DEF w2, t2
<1>7. Shows(w2, t2, size + 1)
  BY <1>3, <1>6 DEF Shows
<1> QED BY <1>7 DEF w2, t2

LEMMA SmallMod ==
  ASSUME NEW w \in Nat, NEW i \in 1..(w - 1)
  PROVE  i % w = i
OBVIOUS

\* A backspace within the row blanks the last character and stands on it.
LEMMA RubOutShows ==
  ASSUME NEW w \in WindowType, NEW text \in Seq(Characters),
         NEW size \in Nat, size = Len(text), size >= 1, size <= Width - 2,
         NEW t2 \in Seq(Characters), \A p \in 1..(size - 1) : t2[p] = text[p],
         Shows(w, text, size)
  PROVE  Shows(RubOut(w), t2, size - 1)
<1> DEFINE a == MoveLeft(w)
           b == Put(a, Blank)
           r == MoveLeft(b)
<1>0. Width \in Nat /\ Width >= 3 /\ LastCell = 2 * Width - 1
  BY LineAssumption DEF LastCell
<1>1. w.cursor = size + 1
  BY DEF Shows
<1>2. ASSUME NEW i \in 1..(Width - 1) PROVE i % Width = i /\ i % Width # 0
  <2>1. i % Width = i
    BY <1>0, SmallMod
  <2> QED BY <2>1
<1>3. a = [w EXCEPT !.cursor = size]
  BY <1>0, <1>1, <1>2 DEF MoveLeft, WindowType
<1>4. a.cursor = size /\ a.cells = w.cells
  BY <1>3 DEF WindowType
<1>5. b.cursor = size + 1 /\ b.cells = [w.cells EXCEPT ![size] = Blank]
  BY <1>0, <1>4 DEF Put
<1>6. r = [b EXCEPT !.cursor = size]
  <2>1. b.cursor \in 1..(Width - 1)
    BY <1>0, <1>5
  <2> HIDE DEF a, b
  <2> QED BY <1>2, <1>5, <2>1 DEF MoveLeft
<1>7. r.cursor = size /\ r.cells = [w.cells EXCEPT ![size] = Blank]
  <2>1. b = [cells |-> b.cells, cursor |-> b.cursor]
    BY DEF Put
  <2> HIDE DEF a, b, r
  <2> QED BY <1>5, <1>6, <2>1
<1>8. RubOut(w) = r
  BY DEF RubOut
<1>9. Erased.cells[size] = Blank
  BY <1>0 DEF Erased
<1>10. ASSUME NEW p \in 0..LastCell
       PROVE  r.cells[p] = IF p \in 1..(size - 1) THEN t2[p] ELSE Erased.cells[p]
  <2>1. w.cells[p] = IF p \in 1..size THEN text[p] ELSE Erased.cells[p]
    BY DEF Shows
  <2>2. r.cells[p] = IF p = size THEN Blank ELSE w.cells[p]
    <3> HIDE DEF r
    <3> QED BY <1>0, <1>7 DEF WindowType
  <2> HIDE DEF a, b, r
  <2>3. CASE p = size
    BY <1>9, <2>2, <2>3
  <2>4. CASE p \in 1..(size - 1)
    BY <2>1, <2>2, <2>4
  <2>5. CASE p \notin 1..size
    BY <2>1, <2>2, <2>5
  <2>6. p = size \/ p \in 1..(size - 1) \/ p \notin 1..size
    OBVIOUS
  <2> QED BY <2>3, <2>4, <2>5, <2>6
<1> HIDE DEF r
<1>11. r.cursor = (size - 1) + 1
  BY <1>7
<1>12. Shows(r, t2, size - 1)
  BY <1>10, <1>11 DEF Shows
<1> QED BY <1>8, <1>12

LEMMA InitMeant == Init => MeantInv
<1> SUFFICES ASSUME Init PROVE MeantInv
  OBVIOUS
<1>1. EditInv
  BY InitEdit
<1>2. keys = <<>> /\ typed = <<>> /\ sent = <<>> /\ text_ = <<>> /\ at = "main"
      /\ size_ = 0 /\ input_ = Erased
  BY DEF Init
<1>3. KeysInv
  BY <1>2 DEF KeysInv
<1>4. Taken = <<>>
  BY <1>2 DEF Taken
<1>5. Now = Nothing
  BY <1>4, MeaningOfNone DEF Now
<1>6. text_ = Now.line /\ Settled = Now.texts
  BY <1>2, <1>5 DEF Nothing, Settled
<1>7. size_ <= Width - 2 /\ Shows(input_, text_, size_)
  BY <1>2, ErasedShows, LineAssumption
<1> QED BY <1>1, <1>3, <1>6, <1>7 DEF MeantInv

\* Steps that read no key and leave the line alone.
LEMMA LineStays ==
  ASSUME MeantInv, EditInv', KeysInv', Now' = Now, UNCHANGED line_, Settled' = Settled
  PROVE  MeantInv'
<1>1. text_' = text_ /\ size_' = size_ /\ input_' = input_
  BY DEF line_
<1>2. Now'.inRow => size_' <= Width - 2 /\ Shows(input_, text_, size_)'
  BY <1>1 DEF MeantInv, Shows
<1>3. text_' = Now'.line /\ Settled' = Now'.texts
  BY <1>1 DEF MeantInv
<1> QED BY <1>2, <1>3 DEF MeantInv

LEMMA NextMeant == MeantInv /\ [Next]_vars => MeantInv'
<1> SUFFICES ASSUME MeantInv, [Next]_vars PROVE MeantInv'
  OBVIOUS
<1>0. EditInv /\ KeysInv /\ EditInv'
  BY NextEdit DEF MeantInv
<1>1. ASSUME NEW k \in Keys, Type(k) PROVE MeantInv'
  <2>1. KeysInv' /\ Now' = Now
    BY <1>0, <1>1, TypeKeepsTaken
  <2>2. UNCHANGED line_ /\ Settled' = Settled
    BY <1>1 DEF Type, Settled
  <2> QED BY <1>0, <2>1, <2>2, LineStays
<1>2. CASE GetInput
  <2>1. KeysInv' /\ Now' = Now
    BY <1>0, <1>2, SameKeys DEF GetInput
  <2>2. UNCHANGED line_ /\ Settled' = Settled
    BY <1>2 DEF GetInput, Settled
  <2> QED BY <1>0, <2>1, <2>2, LineStays
<1>3. CASE NoKey
  <2>1. KeysInv' /\ Now' = Now
    BY <1>0, <1>3, SameKeys DEF NoKey
  <2>2. UNCHANGED line_ /\ Settled' = Settled
    BY <1>3 DEF NoKey, Settled, IsText
  <2> QED BY <1>0, <2>1, <2>2, LineStays
<1>4. CASE Enter
  <2>1. Reads(Newline) /\ typed' = typed /\ Newline \in Keys
    BY <1>4 DEF Enter, Keys
  <2>2. KeysInv' /\ Now' = Press(Now, Newline)
    BY <1>0, <2>1, ReadsTakes
  <2>3. /\ at = "line" /\ at' = "input" /\ msg' = text_ /\ sent' = sent
        /\ text_' = <<>> /\ size_' = 0 /\ input_' = Erased
    BY <1>4 DEF Enter, Reads, Cleared
  <2>4. Settled = sent /\ Settled' = IF IsText(text_) THEN Append(sent, text_) ELSE sent
    BY <2>3 DEF Settled, IsText
  <2>5. Now'.texts = Settled' /\ Now'.line = text_'
    BY <2>2, <2>3, <2>4 DEF Press, MeantInv
  <2>6. size_' <= Width - 2 /\ Shows(input_', text_', size_')
    BY <2>3, ErasedShows, LineAssumption
  <2> QED BY <1>0, <2>2, <2>5, <2>6 DEF MeantInv, Shows
<1>5. CASE Erase
  <2>1. Reads(Backspace) /\ typed' = typed /\ Backspace \in Keys
    BY <1>5 DEF Erase, Keys
  <2>2. KeysInv' /\ Now' = Press(Now, Backspace)
    BY <1>0, <2>1, ReadsTakes
  <2>3. at' = at /\ msg' = msg /\ sent' = sent
    BY <1>5 DEF Erase
  <2>4. Backspace # Newline /\ Backspace \notin Wide
    BY LineAssumption DEF Backspace, Newline
  <2>5. /\ Now'.texts = Now.texts /\ Now'.line = Edit(text_, Backspace)
        /\ Now'.inRow => Now.inRow
    BY <2>2, <2>4 DEF Press, MeantInv
  <2>6. Settled' = Now'.texts
    BY <2>3, <2>5 DEF Settled, MeantInv
  <2>7. text_ \in Seq(Characters) /\ size_ = Len(text_) /\ size_ \in Nat
        /\ input_ \in WindowType
    BY <1>0, LineAssumption DEF EditInv
  <2>8. CASE size_ <= 0
    <3>1. UNCHANGED line_
      BY <1>5, <2>8 DEF Erase
    <3>2. Now'.line = text_
      BY <2>5, <2>7, <2>8 DEF Edit
    <3>3. Settled' = Settled
      BY <2>3 DEF Settled
    <3>4. text_' = text_ /\ size_' = size_ /\ input_' = input_
      BY <3>1 DEF line_
    <3>5. Now'.inRow => size_' <= Width - 2 /\ Shows(input_, text_, size_)'
      BY <2>5, <3>4 DEF MeantInv, Shows
    <3> QED BY <1>0, <2>2, <2>6, <3>2, <3>4, <3>5 DEF MeantInv
  <2>9. CASE ~(size_ <= 0)
    <3>1. /\ text_' = Front(text_) /\ size_' = size_ - 1
          /\ input_' = RubOut(input_)
      BY <1>5, <2>9 DEF Erase, Fewer
    <3>2. Now'.line = text_'
      <4>1. text_ # <<>>
        BY <2>7, <2>9
      <4> QED BY <2>5, <3>1, <4>1 DEF Edit
    <3>3. ASSUME Now'.inRow
          PROVE  size_' <= Width - 2 /\ Shows(input_', text_', size_')
      <4>1. size_ <= Width - 2 /\ Shows(input_, text_, size_)
        BY <2>5, <3>3 DEF MeantInv
      <4>2. Front(text_) \in Seq(Characters)
        BY <2>7, <2>9, FrontOf
      <4>3. \A p \in 1..(size_ - 1) : Front(text_)[p] = text_[p]
        BY <2>7, <2>9 DEF Front
      <4>4. size_ >= 1
        BY <2>7, <2>9
      <4>5. Shows(RubOut(input_), Front(text_), size_ - 1)
        BY <2>7, <4>1, <4>2, <4>3, <4>4, RubOutShows
      <4>6. size_ - 1 <= Width - 2
        BY <2>7, <4>1, LineAssumption
      <4> QED BY <3>1, <4>5, <4>6
    <3> QED BY <1>0, <2>2, <2>6, <3>2, <3>3 DEF MeantInv, Shows
  <2> QED BY <2>8, <2>9
<1>6. ASSUME NEW k \in Characters, Character(k) PROVE MeantInv'
  <2>1. Reads(k) /\ typed' = typed /\ k \in Keys
    BY <1>6 DEF Character, Keys
  <2>2. KeysInv' /\ Now' = Press(Now, k)
    BY <1>0, <2>1, ReadsTakes
  <2>3. at' = at /\ msg' = msg /\ sent' = sent
    BY <1>6 DEF Character
  <2>4. k # Newline /\ k # Backspace
    BY LineAssumption
  <2>5. /\ Now'.texts = Now.texts /\ Now'.line = Edit(text_, k)
        /\ Now'.inRow => /\ Now.inRow /\ k \notin Wide
                         /\ Len(Edit(text_, k)) <= Width - 2
    BY <2>2, <2>4 DEF Press, MeantInv
  <2>6. Settled' = Now'.texts
    BY <2>3, <2>5 DEF Settled, MeantInv
  <2>7. text_ \in Seq(Characters) /\ size_ = Len(text_) /\ size_ \in Nat
        /\ size_ <= MaxLine /\ input_ \in WindowType
    BY <1>0, LineAssumption DEF EditInv
  <2>8. CASE Full(size_)
    <3>1. UNCHANGED line_
      BY <1>6, <2>8 DEF Character
    <3>2. Now'.line = text_
      <4>1. ~(Len(text_) < MaxLine)
        BY <2>7, <2>8, LineAssumption DEF Full
      <4> QED BY <2>4, <2>5, <4>1 DEF Edit
    <3>3. text_' = text_ /\ size_' = size_ /\ input_' = input_
      BY <3>1 DEF line_
    <3>4. Now'.inRow => size_' <= Width - 2 /\ Shows(input_, text_, size_)'
      BY <2>5, <3>3 DEF MeantInv, Shows
    <3> QED BY <1>0, <2>2, <2>6, <3>2, <3>3, <3>4 DEF MeantInv
  <2>9. CASE ~Full(size_)
    <3>1. /\ text_' = Append(text_, k) /\ size_' = size_ + 1
          /\ input_' = Echo(input_, k)
      BY <1>6, <2>9 DEF Character
    <3>2. Edit(text_, k) = Append(text_, k)
      <4>1. Len(text_) < MaxLine
        BY <2>7, <2>9, LineAssumption DEF Full
      <4> QED BY <2>4, <4>1 DEF Edit
    <3>3. ASSUME Now'.inRow
          PROVE  size_' <= Width - 2 /\ Shows(input_', text_', size_')
      <4>1. Shows(input_, text_, size_) /\ k \notin Wide
        BY <2>5, <3>3 DEF MeantInv
      <4>2. size_ + 1 <= Width - 2
        <5>1. Len(Append(text_, k)) = size_ + 1
          BY <2>7
        <5> QED BY <2>5, <3>2, <3>3, <5>1
      <4>3. Shows(Echo(input_, k), Append(text_, k), size_ + 1)
        BY <2>7, <4>1, <4>2, EchoShows
      <4> QED BY <3>1, <4>2, <4>3
    <3> QED BY <1>0, <2>2, <2>5, <2>6, <3>1, <3>2, <3>3 DEF MeantInv, Shows
  <2> QED BY <2>8, <2>9
<1>7. CASE Obey
  <2>1. KeysInv' /\ Now' = Now
    BY <1>0, <1>7, SameKeys DEF Obey
  <2>2. UNCHANGED line_ /\ Settled' = Settled
    BY <1>7 DEF Obey, Settled, IsText
  <2> QED BY <1>0, <2>1, <2>2, LineStays
<1>8. CASE SendText
  <2>1. KeysInv' /\ Now' = Now
    BY <1>0, <1>8, SameKeys DEF SendText
  <2>2. UNCHANGED line_ /\ Settled' = Settled
    BY <1>8 DEF SendText, Settled, IsText
  <2> QED BY <1>0, <2>1, <2>2, LineStays
<1>9. CASE NothingToSend
  <2>1. KeysInv' /\ Now' = Now
    BY <1>0, <1>9, SameKeys DEF NothingToSend
  <2>2. UNCHANGED line_ /\ Settled' = Settled
    BY <1>9 DEF NothingToSend, Settled, IsText
  <2> QED BY <1>0, <2>1, <2>2, LineStays
<1>10. CASE UNCHANGED vars
  <2>1. KeysInv' /\ Now' = Now
    BY <1>0, <1>10, SameKeys DEF vars
  <2>2. UNCHANGED line_ /\ Settled' = Settled
    BY <1>10 DEF vars, Settled
  <2> QED BY <1>0, <2>1, <2>2, LineStays
<1> QED
  BY <1>1, <1>2, <1>3, <1>4, <1>5, <1>6, <1>7, <1>8, <1>9, <1>10 DEF Next, GetLine

\* The server is sent exactly the texts the user entered, as edited and in
\* order, however the keys are spread over calls of getLine.
THEOREM LinesAreSent == Spec => []SentAsEdited
<1>1. MeantInv => SentAsEdited
  BY DEF MeantInv, SentAsEdited, Settled, Now
<1> QED BY InitMeant, NextMeant, <1>1, PTL DEF Spec

\* While a line has fitted into its row, the row shows it and nothing else.
THEOREM RowShowsLine == Spec => []EchoMatches
<1>1. MeantInv => EchoMatches
  BY DEF MeantInv, EchoMatches, Shows, Now
<1> QED BY InitMeant, NextMeant, <1>1, PTL DEF Spec
=============================================================================
