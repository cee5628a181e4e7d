--------------------------- MODULE SequenceLemmas ---------------------------
(***************************************************************************)
(* Facts about natural numbers, recursive functions and sequences that the *)
(* proofs of the components share.  A property of numbers is given here as *)
(* a set, so that a fact can be cited for any property.                    *)
(***************************************************************************)
EXTENDS Integers, Sequences, TLAPS, WellFoundedInduction

\* Induction: a set with 0 and the successors of its elements has every number.
LEMMA NatSetInduction ==
  ASSUME NEW S, 0 \in S, \A n \in Nat : n \in S => n + 1 \in S
  PROVE  Nat \subseteq S
<1> DEFINE Missing == Nat \ S
<1>1. IsWellFoundedOn(OpToRel(<, Nat), Nat) BY NatLessThanWellFounded
<1> SUFFICES ASSUME Missing # {} PROVE FALSE OBVIOUS
<1>2. PICK x \in Missing : \A y \in Missing : ~(<<y, x>> \in OpToRel(<, Nat))
  <2>1. Missing \subseteq Nat OBVIOUS
  <2> HIDE DEF Missing
  <2> QED BY <1>1, <2>1, WFMin
<1>3. x # 0 /\ x - 1 \in Nat OBVIOUS
<1>4. <<x - 1, x>> \in OpToRel(<, Nat) BY <1>3 DEF OpToRel
<1>5. x - 1 \in S BY <1>2, <1>3, <1>4
<1> QED BY <1>3, <1>5

Recursion(f, n, b, step) ==
  f[0] = b /\ \A i \in 1 .. n : f[i] = step[i][f[i-1]]

\* A recursive definition over 0 .. n has a solution: start with b, then apply
\* step to the position and the value before it.
LEMMA RecursiveFunction ==
  ASSUME NEW n \in Nat, NEW V, NEW b \in V,
         NEW step \in [1 .. n -> [V -> V]]
  PROVE  \E f \in [0 .. n -> V] : Recursion(f, n, b, step)
<1> USE DEF Recursion
<1> DEFINE Solves(f, m) == Recursion(f, m, b, step)
           S == {m \in Nat : m <= n => \E f \in [0 .. m -> V] : Solves(f, m)}
<1>1. 0 \in S
  <2>1. Solves([i \in 0 .. 0 |-> b], 0) OBVIOUS
  <2>2. [i \in 0 .. 0 |-> b] \in [0 .. 0 -> V] OBVIOUS
  <2> QED BY <2>1, <2>2
<1>2. ASSUME NEW m \in Nat, m \in S PROVE m + 1 \in S
  <2> SUFFICES ASSUME m + 1 <= n PROVE \E f \in [0 .. m+1 -> V] : Solves(f, m+1)
    OBVIOUS
  <2>1. PICK f \in [0 .. m -> V] : Solves(f, m) BY <1>2
  <2>2. step[m+1][f[m]] \in V OBVIOUS
  <2> DEFINE g == [i \in 0 .. m+1 |-> IF i = m + 1 THEN step[m+1][f[m]] ELSE f[i]]
  <2>3. g \in [0 .. m+1 -> V] BY <2>2
  <2>4. g[0] = b BY <2>1
  <2>5. ASSUME NEW i \in 1 .. m+1 PROVE g[i] = step[i][g[i-1]]
    <3>1. CASE i = m + 1
      <4>1. g[i] = step[m+1][f[m]] /\ g[i-1] = f[m] BY <3>1
      <4> HIDE DEF g
      <4> QED BY <3>1, <4>1
    <3>2. CASE i \in 1 .. m
      <4>1. g[i] = f[i] /\ g[i-1] = f[i-1] BY <3>2
      <4>2. f[i] = step[i][f[i-1]] BY <2>1, <3>2
      <4> HIDE DEF g
      <4> QED BY <4>1, <4>2
    <3> QED BY <3>1, <3>2
  <2>6. Solves(g, m + 1) BY <2>4, <2>5
  <2> QED BY <2>3, <2>6
<1>3. n \in S
  <2> HIDE DEF S
  <2> QED BY <1>1, <1>2, NatSetInduction
<1> QED BY <1>3

Alike(f, h, n) ==
  f[0] = h[0] /\ \A i \in 1 .. n : f[i-1] = h[i-1] => f[i] = h[i]

\* Two recursive definitions that start and go on alike agree.
LEMMA SameRecursion ==
  ASSUME NEW n \in Nat, NEW f, NEW h, Alike(f, h, n)
  PROVE  \A i \in 0 .. n : f[i] = h[i]
<1> USE DEF Alike
<1> DEFINE S == {i \in Nat : i <= n => f[i] = h[i]}
<1>1. 0 \in S OBVIOUS
<1>2. ASSUME NEW i \in Nat, i \in S PROVE i + 1 \in S
  <2> SUFFICES ASSUME i + 1 <= n PROVE f[i+1] = h[i+1] OBVIOUS
  <2>1. i + 1 \in 1 .. n /\ (i + 1) - 1 = i /\ f[i] = h[i] BY <1>2
  <2> QED BY <2>1
<1>3. Nat \subseteq S
  <2> HIDE DEF S
  <2> QED BY <1>1, <1>2, NatSetInduction
<1> QED BY <1>3

\* What lies between two positions of a sequence grows with the sequence.
LEMMA SubSeqAppend ==
  ASSUME NEW T, NEW s \in Seq(T), NEW e \in T, NEW k \in Nat, k <= Len(s)
  PROVE  SubSeq(Append(s, e), k + 1, Len(s) + 1)
           = Append(SubSeq(s, k + 1, Len(s)), e)
<1> DEFINE l == SubSeq(Append(s, e), k + 1, Len(s) + 1)
           m == SubSeq(s, k + 1, Len(s))
           r == Append(m, e)
<1>1. Append(s, e) \in Seq(T) /\ Len(Append(s, e)) = Len(s) + 1 OBVIOUS
<1>2. /\ l \in Seq(T) /\ Len(l) = Len(s) + 1 - k
      /\ \A i \in 1 .. Len(l) : l[i] = Append(s, e)[k + i]
  BY <1>1
<1>3. /\ m \in Seq(T) /\ Len(m) = Len(s) - k
      /\ \A i \in 1 .. Len(m) : m[i] = s[k + i]
  OBVIOUS
<1>4. r \in Seq(T) /\ Len(r) = Len(m) + 1 BY <1>3
<1>5. ASSUME NEW i \in 1 .. Len(l) PROVE l[i] = r[i]
  BY <1>2, <1>3
<1>6. l = r
  <2>1. Len(l) = Len(r) BY <1>2, <1>3, <1>4
  <2> HIDE DEF l, r, m
  <2> QED BY <1>2, <1>4, <1>5, <2>1
<1> QED BY <1>6

LEMMA EmptySubSeq ==
  ASSUME NEW T, NEW s \in Seq(T)
  PROVE  SubSeq(s, Len(s) + 1, Len(s)) = <<>>
OBVIOUS

LEMMA WholeSubSeq ==
  ASSUME NEW T, NEW s \in Seq(T)
  PROVE  SubSeq(s, 1, Len(s)) = s
OBVIOUS

LEMMA PrefixAppend ==
  ASSUME NEW T, NEW s \in Seq(T), NEW e \in T, NEW k \in Nat, k <= Len(s)
  PROVE  SubSeq(Append(s, e), 1, k) = SubSeq(s, 1, k)
OBVIOUS

\* Moving the head of one sequence to the end of another.
LEMMA MoveHead ==
  ASSUME NEW T, NEW s \in Seq(T), NEW t \in Seq(T), t # <<>>
  PROVE  Append(s, Head(t)) \o Tail(t) = s \o t
OBVIOUS

LEMMA ConcatAppend ==
  ASSUME NEW T, NEW s \in Seq(T), NEW t \in Seq(T), NEW e \in T
  PROVE  s \o Append(t, e) = Append(s \o t, e)
OBVIOUS

LEMMA ConcatThree ==
  ASSUME NEW T, NEW s \in Seq(T), NEW t \in Seq(T), NEW u \in Seq(T)
  PROVE  s \o (t \o u) = (s \o t) \o u
OBVIOUS

LEMMA ConcatEmpty ==
  ASSUME NEW T, NEW s \in Seq(T)
  PROVE  s \o <<>> = s /\ <<>> \o s = s
OBVIOUS

\* If g, x and r together are what follows position k of a sequence, x follows
\* g there.
LEMMA NextInLog ==
  ASSUME NEW T, NEW l \in Seq(T), NEW k \in Nat, k <= Len(l),
         NEW g \in Seq(T), NEW x \in T, NEW r \in Seq(T),
         g \o (<<x>> \o r) = SubSeq(l, k + 1, Len(l))
  PROVE  k + Len(g) < Len(l) /\ l[k + Len(g) + 1] = x
<1> DEFINE w == g \o (<<x>> \o r)
<1>1. Len(<<x>> \o r) = Len(r) + 1 /\ (<<x>> \o r)[1] = x /\ <<x>> \o r \in Seq(T)
  OBVIOUS
<1>2. Len(w) = Len(g) + Len(r) + 1 /\ w[Len(g) + 1] = x
  BY <1>1
<1>3. Len(w) = Len(l) - k /\ \A i \in 1 .. Len(w) : w[i] = l[k + i]
  <2> DEFINE v == SubSeq(l, k + 1, Len(l))
  <2>1. Len(v) = Len(l) - k /\ \A i \in 1 .. Len(v) : v[i] = l[k + i] OBVIOUS
  <2>2. w = v OBVIOUS
  <2> HIDE DEF v, w
  <2> QED BY <2>1, <2>2
<1>4. Len(g) + 1 \in 1 .. Len(w)
  <2> HIDE DEF w
  <2> QED BY <1>2
<1>5. w[Len(g) + 1] = l[k + (Len(g) + 1)] BY <1>3, <1>4
<1>6. k + (Len(g) + 1) = k + Len(g) + 1 OBVIOUS
<1> HIDE DEF w
<1> QED BY <1>2, <1>3, <1>4, <1>5, <1>6

\* A sequence is empty or a shorter one with an element behind it.
LEMMA FrontAndLast ==
  ASSUME NEW T, NEW s \in Seq(T), s # <<>>
  PROVE  /\ SubSeq(s, 1, Len(s) - 1) \in Seq(T)
         /\ Len(SubSeq(s, 1, Len(s) - 1)) = Len(s) - 1
         /\ s[Len(s)] \in T
         /\ s = Append(SubSeq(s, 1, Len(s) - 1), s[Len(s)])
<1>1. Len(s) - 1 \in Nat OBVIOUS
<1>2. /\ SubSeq(s, 1, Len(s) - 1) \in Seq(T)
      /\ Len(SubSeq(s, 1, Len(s) - 1)) = Len(s) - 1
  BY <1>1
<1>3. s[Len(s)] \in T OBVIOUS
<1>4. s = Append(SubSeq(s, 1, Len(s) - 1), s[Len(s)]) BY <1>1, <1>2, <1>3
<1> QED BY <1>2, <1>3, <1>4
=============================================================================
