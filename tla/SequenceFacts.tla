---------------------------- MODULE SequenceFacts -----------------------------
(***************************************************************************)
(* Facts about sequences that the proofs of several components use: cuts   *)
(* of a sequence, and FlattenSeq of the community modules.  The library's  *)
(* induction theorems take an operator as a parameter; Induction is for    *)
(* sets, the way NatLessThanWellFounded gives it.                          *)
(***************************************************************************)
EXTENDS SequencesExt, SequenceTheorems, WellFoundedInduction, TLAPS

LEMMA Induction ==
  ASSUME NEW S, 0 \in S, \A n \in Nat : n \in S => n + 1 \in S
  PROVE  Nat \subseteq S
<1> SUFFICES ASSUME Nat \ S # {} PROVE FALSE
  OBVIOUS
<1> DEFINE less == OpToRel(<, Nat)
<1>1. PICK x \in Nat \ S : \A y \in Nat \ S : ~(<<y, x>> \in less)
  <2>1. Nat \ S \subseteq Nat
    OBVIOUS
  <2>2. QED BY <2>1, NatLessThanWellFounded, WFMin
<1>2. x # 0 /\ x - 1 \in Nat /\ x - 1 < x
  OBVIOUS
<1>3. <<x - 1, x>> \in less
  BY <1>2 DEF OpToRel
<1>4. x - 1 \in S
  BY <1>1, <1>2, <1>3
<1>5. x - 1 + 1 = x
  OBVIOUS
<1>6. QED BY <1>2, <1>4, <1>5

LEMMA Least ==
  ASSUME NEW I, I \subseteq Nat, I # {}
  PROVE  \E x \in I : \A y \in I : x <= y
<1> DEFINE less == OpToRel(<, Nat)
<1>1. PICK x \in I : \A y \in I : ~(<<y, x>> \in less)
  BY NatLessThanWellFounded, WFMin
<1>2. ASSUME NEW y \in I PROVE x <= y
  <2>1. ~(<<y, x>> \in less)
    BY <1>1
  <2>2. x \in Nat /\ y \in Nat
    OBVIOUS
  <2>3. ~(y < x)
    BY <2>1, <2>2 DEF OpToRel
  <2>4. QED BY <2>2, <2>3
<1>3. QED BY <1>1, <1>2

(* A set of numbers up to n that has, with a number, all before it, ends     *)
(* somewhere.                                                                *)
LEMMA Initial ==
  ASSUME NEW n \in Nat, NEW I, I \subseteq 1..n, \A i \in I : \A j \in 1..i : j \in I
  PROVE  \E m \in 0..n : I = 1..m
<1> DEFINE J == {i \in Nat : i + 1 \notin I}
<1>1. J \subseteq Nat /\ n \in J
  OBVIOUS
<1>2. PICK m \in J : \A y \in J : m <= y
  BY <1>1, Least
<1>3. m \in 0..n
  BY <1>1, <1>2
<1>4. ASSUME NEW i \in I PROVE i \in 1..m
  <2>1. i \in Nat /\ i >= 1 /\ m \in Nat
    BY <1>3
  <2>2. CASE i > m
    <3>1. m + 1 \in 1..i
      BY <2>1, <2>2
    <3>2. QED BY <3>1, <1>2
  <2>3. QED BY <2>1, <2>2
<1>5. ASSUME NEW i \in 1..m PROVE i \in I
  <2>1. i - 1 \in Nat /\ ~(m <= i - 1) /\ i - 1 + 1 = i
    BY <1>3
  <2>2. i - 1 \notin J
    BY <1>2, <2>1
  <2>3. QED BY <2>1, <2>2
<1>6. QED BY <1>3, <1>4, <1>5

-----------------------------------------------------------------------------
(* A sequence cut in two. *)
LEMMA Cut ==
  ASSUME NEW S, NEW s \in Seq(S), NEW n \in Nat, n <= Len(s)
  PROVE  /\ SubSeq(s, 1, n) \in Seq(S) /\ Len(SubSeq(s, 1, n)) = n
         /\ \A i \in 1..n : SubSeq(s, 1, n)[i] = s[i]
         /\ SubSeq(s, n + 1, Len(s)) \in Seq(S) /\ Len(SubSeq(s, n + 1, Len(s))) = Len(s) - n
         /\ \A i \in 1..Len(s) - n : SubSeq(s, n + 1, Len(s))[i] = s[n + i]
         /\ SubSeq(s, 1, n) \o SubSeq(s, n + 1, Len(s)) = s
<1>1. Len(s) \in Nat /\ \A i \in 1..Len(s) : s[i] \in S
  BY LenProperties, ElementOfSeq
<1>2. /\ SubSeq(s, 1, n) \in Seq(S) /\ Len(SubSeq(s, 1, n)) = n
      /\ \A i \in 1..n : SubSeq(s, 1, n)[i] = s[i]
  <2>1. \A i \in 1..n : s[i] \in S
    BY <1>1
  <2>2. 1 \in Int /\ n \in Int
    OBVIOUS
  <2> DEFINE t == SubSeq(s, 1, n)
  <2>3. /\ t \in Seq(S) /\ Len(t) = IF 1 <= n THEN n - 1 + 1 ELSE 0
        /\ \A i \in 1..n - 1 + 1 : t[i] = s[1 + i - 1]
    BY <2>1, <2>2, SubSeqProperties
  <2> HIDE DEF t
  <2>4. Len(t) = n /\ n - 1 + 1 = n
    BY <2>3
  <2>5. \A i \in 1..n : t[i] = s[i]
    <3> TAKE i \in 1..n
    <3>1. 1 + i - 1 = i
      OBVIOUS
    <3>2. QED BY <2>3, <2>4, <3>1
  <2>6. QED BY <2>3, <2>4, <2>5 DEF t
<1>3. /\ SubSeq(s, n + 1, Len(s)) \in Seq(S) /\ Len(SubSeq(s, n + 1, Len(s))) = Len(s) - n
      /\ \A i \in 1..Len(s) - n : SubSeq(s, n + 1, Len(s))[i] = s[n + i]
  <2>1. \A i \in n + 1..Len(s) : s[i] \in S
    BY <1>1
  <2>2. n + 1 \in Int /\ Len(s) \in Int
    BY <1>1
  <2> DEFINE t == SubSeq(s, n + 1, Len(s))
  <2>3. /\ t \in Seq(S) /\ Len(t) = IF n + 1 <= Len(s) THEN Len(s) - (n + 1) + 1 ELSE 0
        /\ \A i \in 1..Len(s) - (n + 1) + 1 : t[i] = s[n + 1 + i - 1]
    BY <2>1, <2>2, SubSeqProperties
  <2> HIDE DEF t
  <2>4. Len(t) = Len(s) - n /\ Len(s) - (n + 1) + 1 = Len(s) - n
    BY <1>1, <2>3
  <2>5. \A i \in 1..Len(s) - n : t[i] = s[n + i]
    <3> TAKE i \in 1..Len(s) - n
    <3>1. n + 1 + i - 1 = n + i
      OBVIOUS
    <3>2. QED BY <2>3, <2>4, <3>1
  <2>6. QED BY <2>3, <2>4, <2>5 DEF t
<1> DEFINE a == SubSeq(s, 1, n)
           b == SubSeq(s, n + 1, Len(s))
<1>4. a \in Seq(S) /\ b \in Seq(S) /\ Len(a) = n /\ Len(b) = Len(s) - n
      /\ (\A i \in 1..n : a[i] = s[i]) /\ \A i \in 1..Len(s) - n : b[i] = s[n + i]
  BY <1>2, <1>3
<1> HIDE DEF a, b
<1>5. /\ a \o b \in Seq(S) /\ Len(a \o b) = n + (Len(s) - n)
      /\ \A i \in 1..n + (Len(s) - n) : (a \o b)[i] = IF i <= n THEN a[i] ELSE b[i - n]
  BY <1>4, ConcatProperties
<1>6. Len(a \o b) = Len(s)
  BY <1>1, <1>5
<1>7. ASSUME NEW i \in 1..Len(s) PROVE (a \o b)[i] = s[i]
  <2>1. i \in 1..n + (Len(s) - n)
    BY <1>1
  <2>2. CASE i <= n
    <3>1. i \in 1..n
      BY <2>2
    <3>2. QED BY <1>4, <1>5, <2>1, <2>2, <3>1
  <2>3. CASE ~(i <= n)
    <3>1. i - n \in 1..Len(s) - n /\ n + (i - n) = i
      BY <1>1, <2>3
    <3>2. (a \o b)[i] = b[i - n]
      BY <1>5, <2>1, <2>3
    <3>3. b[i - n] = s[n + (i - n)]
      BY <1>4, <3>1
    <3>4. QED BY <3>1, <3>2, <3>3
  <2>4. QED BY <2>2, <2>3
<1>8. a \o b = s
  BY <1>5, <1>6, <1>7, SeqEqual
<1>9. QED BY <1>2, <1>3, <1>8 DEF a, b

(* What is left behind the first k elements. *)
LEMMA DropConcat ==
  ASSUME NEW S, NEW s \in Seq(S), NEW t \in Seq(S), NEW k \in Nat, k <= Len(s)
  PROVE  SubSeq(s \o t, k + 1, Len(s \o t)) = SubSeq(s, k + 1, Len(s)) \o t
<1> DEFINE m == Len(s)
           n == Len(t)
           j == s \o t
           a == SubSeq(j, k + 1, Len(j))
           b == SubSeq(s, k + 1, Len(s))
<1>1. m \in Nat /\ n \in Nat /\ k <= m
  BY LenProperties
<1>2. j \in Seq(S) /\ Len(j) = m + n /\ \A i \in 1..m + n : j[i] = IF i <= m THEN s[i] ELSE t[i - m]
  BY ConcatProperties
<1>3. b \in Seq(S) /\ Len(b) = m - k /\ \A i \in 1..m - k : b[i] = s[k + i]
  BY Cut
<1>4. a \in Seq(S) /\ Len(a) = m + n - k /\ \A i \in 1..m + n - k : a[i] = j[k + i]
  <2>1. k <= Len(j)
    BY <1>1, <1>2
  <2> HIDE DEF j
  <2>2. a \in Seq(S) /\ Len(a) = Len(j) - k /\ \A i \in 1..Len(j) - k : a[i] = j[k + i]
    BY <1>2, <2>1, Cut
  <2>3. QED BY <1>2, <2>2
<1> HIDE DEF m, n, j, a, b
<1>5. /\ b \o t \in Seq(S) /\ Len(b \o t) = (m - k) + n
      /\ \A i \in 1..(m - k) + n : (b \o t)[i] = IF i <= m - k THEN b[i] ELSE t[i - (m - k)]
  <2>1. Len(b) = m - k /\ Len(t) = n
    BY <1>3 DEF n
  <2>2. /\ b \o t \in Seq(S) /\ Len(b \o t) = Len(b) + Len(t)
        /\ \A i \in 1..Len(b) + Len(t) : (b \o t)[i] = IF i <= Len(b) THEN b[i] ELSE t[i - Len(b)]
    BY <1>3, ConcatProperties
  <2>3. QED BY <2>1, <2>2
<1>6. Len(a) = Len(b \o t)
  BY <1>1, <1>4, <1>5
<1>7. ASSUME NEW i \in 1..Len(a) PROVE a[i] = (b \o t)[i]
  <2>1. i \in 1..m + n - k /\ i \in 1..(m - k) + n /\ k + i \in 1..m + n /\ i \in Nat
    BY <1>1, <1>4
  <2>2. a[i] = j[k + i]
    BY <1>4, <2>1
  <2>3. CASE i <= m - k
    <3>1. i \in 1..m - k /\ k + i <= m
      BY <1>1, <2>1, <2>3
    <3>2. j[k + i] = s[k + i]
      BY <1>2, <2>1, <3>1
    <3>3. (b \o t)[i] = b[i]
      BY <1>5, <2>1, <2>3
    <3>4. QED BY <1>3, <2>2, <3>1, <3>2, <3>3
  <2>4. CASE ~(i <= m - k)
    <3>1. ~(k + i <= m) /\ k + i - m = i - (m - k)
      BY <1>1, <2>1, <2>4
    <3>2. j[k + i] = t[k + i - m]
      <4>1. j[k + i] = IF k + i <= m THEN s[k + i] ELSE t[k + i - m]
        BY <1>1, <1>2, <2>1
      <4>2. QED BY <3>1, <4>1
    <3>3. (b \o t)[i] = t[i - (m - k)]
      BY <1>5, <2>1, <2>4
    <3>4. QED BY <2>2, <3>1, <3>2, <3>3
  <2>5. QED BY <2>3, <2>4
<1>8. a = b \o t
  BY <1>4, <1>5, <1>6, <1>7, SeqEqual
<1>9. QED BY <1>8 DEF a, b, j

LEMMA ConcatFirst ==
  ASSUME NEW S, NEW s \in Seq(S), NEW t \in Seq(S), NEW i \in 1..Len(s)
  PROVE  (s \o t)[i] = s[i]
<1>1. /\ Len(s) \in Nat /\ Len(t) \in Nat
      /\ \A j \in 1..Len(s) + Len(t) : (s \o t)[j] = IF j <= Len(s) THEN s[j] ELSE t[j - Len(s)]
  BY ConcatProperties, LenProperties
<1>2. i \in 1..Len(s) + Len(t) /\ i <= Len(s)
  BY <1>1
<1>3. QED BY <1>1, <1>2

(* Two ways to begin the same sequence agree as far as both go.  (Provers    *)
(* find the instances of Drop by the name of what it says.)                  *)
Drops(S, p, w, a, z, k) ==
  /\ SubSeq(p, k + 1, Len(p)) \o w = SubSeq(a, k + 1, Len(a)) \o z
  /\ \A i \in 1..k : p[i] = a[i]

LEMMA Drop ==
  ASSUME NEW S, NEW p \in Seq(S), NEW w \in Seq(S), NEW a \in Seq(S), NEW z \in Seq(S),
         p \o w = a \o z, NEW k \in Nat, k <= Len(p), k <= Len(a)
  PROVE  Drops(S, p, w, a, z, k)
<1> DEFINE X == p \o w
           Y == a \o z
<1>1. SubSeq(X, k + 1, Len(X)) = SubSeq(p, k + 1, Len(p)) \o w
  BY DropConcat
<1>2. SubSeq(Y, k + 1, Len(Y)) = SubSeq(a, k + 1, Len(a)) \o z
  BY DropConcat
<1>3. X = Y
  OBVIOUS
<1>4. \A i \in 1..k : X[i] = p[i]
  <2> TAKE i \in 1..k
  <2>1. i \in 1..Len(p)
    BY LenProperties
  <2>2. QED BY <2>1, ConcatFirst
<1>5. \A i \in 1..k : Y[i] = a[i]
  <2> TAKE i \in 1..k
  <2>1. i \in 1..Len(a)
    BY LenProperties
  <2>2. QED BY <2>1, ConcatFirst
<1> HIDE DEF X, Y
<1>6. /\ SubSeq(p, k + 1, Len(p)) \o w = SubSeq(a, k + 1, Len(a)) \o z
      /\ \A i \in 1..k : p[i] = a[i]
  BY <1>1, <1>2, <1>3, <1>4, <1>5
<1>7. QED BY <1>6 DEF Drops

(* The whole of a is read from p. *)
Advances(S, p, w, a, z) ==
  /\ SubSeq(p, Len(a) + 1, Len(p)) \o w = z
  /\ \A i \in 1..Len(a) : p[i] = a[i]

LEMMA Advance ==
  ASSUME NEW S, NEW p \in Seq(S), NEW w \in Seq(S), NEW a \in Seq(S), NEW z \in Seq(S),
         p \o w = a \o z, Len(a) <= Len(p)
  PROVE  Advances(S, p, w, a, z)
<1>1. Len(a) \in Nat /\ Len(a) <= Len(a)
  BY LenProperties
<1>2. /\ SubSeq(p, Len(a) + 1, Len(p)) \o w = SubSeq(a, Len(a) + 1, Len(a)) \o z
      /\ \A i \in 1..Len(a) : p[i] = a[i]
  <2>1. Drops(S, p, w, a, z, Len(a))
    BY <1>1, Drop
  <2>2. QED BY <2>1 DEF Drops
<1>3. SubSeq(a, Len(a) + 1, Len(a)) = <<>>
  <2>1. Len(a) + 1 \in Int /\ Len(a) \in Int /\ Len(a) < Len(a) + 1
    BY <1>1
  <2>2. QED BY <2>1, SubSeqEmpty
<1>4. <<>> \o z = z
  BY ConcatEmptySeq
<1>5. QED BY <1>2, <1>3, <1>4 DEF Advances

(* One element. *)
AdvancesOne(S, p, w, u, z) ==
  p[1] = u /\ Tail(p) \in Seq(S) /\ Tail(p) \o w = z

LEMMA AdvanceOne ==
  ASSUME NEW S, NEW p \in Seq(S), NEW w \in Seq(S), NEW u \in S, NEW z \in Seq(S),
         p \o w = <<u>> \o z, p # <<>>
  PROVE  AdvancesOne(S, p, w, u, z)
<1> DEFINE a == <<u>>
<1>1. a \in Seq(S) /\ Len(a) = 1 /\ a[1] = u /\ p \o w = a \o z
  OBVIOUS
<1>2. Len(p) \in Nat /\ 1 <= Len(p)
  BY EmptySeq, LenProperties
<1> HIDE DEF a
<1>3. Advances(S, p, w, a, z)
  <2>1. Len(a) <= Len(p)
    BY <1>1, <1>2
  <2>2. QED BY <1>1, <2>1, Advance
<1>4. SubSeq(p, 2, Len(p)) \o w = z /\ p[1] = u
  BY <1>1, <1>3 DEF Advances
<1>5. Tail(p) = SubSeq(p, 2, Len(p)) /\ Tail(p) \in Seq(S)
  BY TailIsSubSeq, HeadTailProperties
<1>6. QED BY <1>4, <1>5 DEF AdvancesOne

LEMMA AppendConcat ==
  ASSUME NEW S, NEW s \in Seq(S), NEW t \in Seq(S), NEW x \in S
  PROVE  /\ s \o t \in Seq(S) /\ Append(t, x) \in Seq(S)
         /\ s \o Append(t, x) = Append(s \o t, x)
<1>1. s \o t \in Seq(S) /\ <<x>> \in Seq(S)
  BY ConcatProperties
<1>2. Append(t, x) = t \o <<x>> /\ Append(s \o t, x) = (s \o t) \o <<x>>
  BY <1>1, AppendIsConcat
<1>3. (s \o t) \o <<x>> = s \o (t \o <<x>>)
  BY <1>1, ConcatAssociative
<1>4. t \o <<x>> \in Seq(S)
  BY <1>1, ConcatProperties
<1>5. QED BY <1>1, <1>2, <1>3, <1>4

-----------------------------------------------------------------------------
(* FlattenSeq: the function it is defined by exists, and there is one.       *)
Flattens(f, seqs, n) ==
  f = [i \in 1..n |-> IF i = 1 THEN seqs[i] ELSE f[i - 1] \o seqs[i]]

LEMMA FlattensExists == ASSUME NEW seqs, NEW n \in Nat PROVE \E f : Flattens(f, seqs, n)
<1> DEFINE S == {k \in Nat : \E f : Flattens(f, seqs, k)}
<1>1. 0 \in S
  <2> DEFINE f == [i \in 1..0 |-> seqs]
  <2>1. Flattens(f, seqs, 0)
    BY DEF Flattens
  <2>2. QED BY <2>1
<1>2. ASSUME NEW k \in Nat, k \in S PROVE k + 1 \in S
  <2>1. PICK f : Flattens(f, seqs, k)
    BY <1>2
  <2> DEFINE g == [i \in 1..k + 1 |-> IF i = 1 THEN seqs[i] ELSE f[i - 1] \o seqs[i]]
  <2>2. \A i \in 1..k : g[i] = f[i]
    <3> TAKE i \in 1..k
    <3>1. i \in 1..k + 1
      OBVIOUS
    <3>2. g[i] = IF i = 1 THEN seqs[i] ELSE f[i - 1] \o seqs[i]
      BY <3>1
    <3>3. f[i] = IF i = 1 THEN seqs[i] ELSE f[i - 1] \o seqs[i]
      BY <2>1 DEF Flattens
    <3>4. QED BY <3>2, <3>3
  <2> DEFINE h == [i \in 1..k + 1 |-> IF i = 1 THEN seqs[i] ELSE g[i - 1] \o seqs[i]]
  <2>3. \A i \in 1..k + 1 : g[i] = h[i]
    <3> TAKE i \in 1..k + 1
    <3>1. CASE i = 1
      BY <3>1
    <3>2. CASE i # 1
      <4>1. i - 1 \in 1..k
        BY <3>2
      <4>2. g[i - 1] = f[i - 1]
        BY <2>2, <4>1
      <4>3. g[i] = f[i - 1] \o seqs[i] /\ h[i] = g[i - 1] \o seqs[i]
        BY <3>2
      <4>4. QED BY <4>2, <4>3
    <3>3. QED BY <3>1, <3>2
  <2>4. g = h
    BY <2>3
  <2>5. Flattens(g, seqs, k + 1)
    BY <2>4 DEF Flattens
  <2>6. QED BY <2>5
<1> HIDE DEF S
<1>3. Nat \subseteq S
  BY <1>1, <1>2, Induction
<1>4. QED BY <1>3 DEF S

LEMMA FlattensAt ==
  ASSUME NEW f, NEW seqs, NEW n, Flattens(f, seqs, n), NEW i \in 1..n
  PROVE  f[i] = IF i = 1 THEN seqs[i] ELSE f[i - 1] \o seqs[i]
<1> DEFINE g == [j \in 1..n |-> IF j = 1 THEN seqs[j] ELSE f[j - 1] \o seqs[j]]
<1>1. f = g
  BY DEF Flattens
<1>2. g[i] = IF i = 1 THEN seqs[i] ELSE f[i - 1] \o seqs[i]
  OBVIOUS
<1> HIDE DEF g
<1>3. QED BY <1>1, <1>2

(* Sequences that agree up to m are flattened alike up to m. *)
LEMMA FlattensAgree ==
  ASSUME NEW f, NEW g, NEW s, NEW t, NEW m \in Nat, NEW n \in Nat,
         Flattens(f, s, m), Flattens(g, t, n), m <= n, \A i \in 1..m : s[i] = t[i]
  PROVE  \A i \in 1..m : f[i] = g[i]
<1> DEFINE S == {j \in Nat : j \in 1..m => f[j] = g[j]}
<1>1. 0 \in S
  OBVIOUS
<1>2. ASSUME NEW j \in Nat, j \in S PROVE j + 1 \in S
  <2> SUFFICES ASSUME j + 1 \in 1..m PROVE f[j + 1] = g[j + 1]
    OBVIOUS
  <2>1. j + 1 \in 1..m /\ j + 1 \in 1..n
    OBVIOUS
  <2>2. f[j + 1] = IF j + 1 = 1 THEN s[j + 1] ELSE f[j + 1 - 1] \o s[j + 1]
    BY <2>1, FlattensAt
  <2>3. g[j + 1] = IF j + 1 = 1 THEN t[j + 1] ELSE g[j + 1 - 1] \o t[j + 1]
    BY <2>1, FlattensAt
  <2>4. s[j + 1] = t[j + 1]
    OBVIOUS
  <2>5. CASE j = 0
    BY <2>2, <2>3, <2>4, <2>5
  <2>6. CASE j # 0
    <3>1. j \in 1..m /\ j + 1 - 1 = j
      BY <2>6
    <3>2. f[j] = g[j]
      BY <1>2, <3>1
    <3>3. QED BY <2>2, <2>3, <2>4, <2>6, <3>1, <3>2
  <2>7. QED BY <2>5, <2>6
<1> HIDE DEF S
<1>3. Nat \subseteq S
  BY <1>1, <1>2, Induction
<1>4. QED BY <1>3 DEF S

LEMMA FlattenIs ==
  ASSUME NEW seqs, Len(seqs) \in Nat \ {0}, NEW f, Flattens(f, seqs, Len(seqs))
  PROVE  FlattenSeq(seqs) = f[Len(seqs)]
<1> DEFINE n == Len(seqs)
           g == CHOOSE h : h = [i \in 1..Len(seqs) |-> IF i = 1 THEN seqs[i] ELSE h[i - 1] \o seqs[i]]
<1>1. FlattenSeq(seqs) = g[n]
  BY Zenon DEF FlattenSeq
<1>2. Flattens(g, seqs, n)
  <2>1. \E h : h = [i \in 1..Len(seqs) |-> IF i = 1 THEN seqs[i] ELSE h[i - 1] \o seqs[i]]
    BY Zenon DEF Flattens
  <2>2. g = [i \in 1..Len(seqs) |-> IF i = 1 THEN seqs[i] ELSE g[i - 1] \o seqs[i]]
    BY Zenon, <2>1
  <2> HIDE DEF g
  <2>3. QED BY <2>2, Zenon DEF Flattens
<1>3. \A i \in 1..n : f[i] = g[i]
  <2> HIDE DEF g
  <2>1. n \in Nat /\ n <= n /\ (\A i \in 1..n : seqs[i] = seqs[i]) /\ Flattens(g, seqs, n)
    BY <1>2
  <2> HIDE DEF n
  <2>2. Flattens(f, seqs, n)
    BY DEF n
  <2>3. QED BY <2>1, <2>2, FlattensAgree
<1>4. n \in 1..n
  OBVIOUS
<1> HIDE DEF n, g
<1>5. QED BY <1>1, <1>3, <1>4 DEF n

(* What FlattenSeq returns, by the number of sequences. *)
LEMMA FlattenEmpty == FlattenSeq(<<>>) = <<>>
BY DEF FlattenSeq

LEMMA FlattenType ==
  ASSUME NEW S, NEW seqs \in Seq(Seq(S))
  PROVE  FlattenSeq(seqs) \in Seq(S)
<1>1. Len(seqs) \in Nat
  BY LenProperties
<1>2. CASE seqs = <<>>
  BY <1>2, FlattenEmpty, EmptySeq
<1>3. CASE seqs # <<>>
  <2>1. Len(seqs) \in Nat \ {0}
    BY <1>3, EmptySeq
  <2>2. PICK f : Flattens(f, seqs, Len(seqs))
    BY <1>1, FlattensExists
  <2>3. FlattenSeq(seqs) = f[Len(seqs)]
    BY <2>1, <2>2, FlattenIs
  <2> DEFINE K == {k \in Nat : k \in 1..Len(seqs) => f[k] \in Seq(S)}
  <2>4. 0 \in K
    OBVIOUS
  <2>5. ASSUME NEW k \in Nat, k \in K PROVE k + 1 \in K
    <3> SUFFICES ASSUME k + 1 \in 1..Len(seqs) PROVE f[k + 1] \in Seq(S)
      OBVIOUS
    <3>1. seqs[k + 1] \in Seq(S)
      BY ElementOfSeq
    <3>2. f[k + 1] = IF k + 1 = 1 THEN seqs[k + 1] ELSE f[k + 1 - 1] \o seqs[k + 1]
      BY <2>2, FlattensAt
    <3>3. CASE k = 0
      BY <3>1, <3>2, <3>3
    <3>4. CASE k # 0
      <4>1. k \in 1..Len(seqs) /\ k + 1 - 1 = k /\ k + 1 # 1
        BY <1>1, <3>4
      <4>2. f[k] \in Seq(S)
        BY <2>5, <4>1
      <4>3. f[k] \o seqs[k + 1] \in Seq(S)
        BY <3>1, <4>2, ConcatProperties
      <4>4. QED BY <3>2, <4>1, <4>3
    <3>5. QED BY <3>3, <3>4
  <2> HIDE DEF K
  <2>6. Nat \subseteq K
    BY <2>4, <2>5, Induction
  <2>7. Len(seqs) \in K /\ Len(seqs) \in 1..Len(seqs)
    BY <2>1, <2>6
  <2>8. QED BY <2>3, <2>7 DEF K
<1>4. QED BY <1>2, <1>3

LEMMA FlattenAppend ==
  ASSUME NEW S, NEW seqs \in Seq(Seq(S)), NEW s \in Seq(S)
  PROVE  FlattenSeq(Append(seqs, s)) = FlattenSeq(seqs) \o s
<1> DEFINE n == Len(seqs)
           t == Append(seqs, s)
<1>1. n \in Nat
  BY LenProperties
<1>2. t \in Seq(Seq(S)) /\ Len(t) = n + 1 /\ t[n + 1] = s /\ \A i \in 1..n : t[i] = seqs[i]
  BY <1>1
<1>3. PICK g : Flattens(g, t, n + 1)
  BY <1>1, FlattensExists
<1> HIDE DEF t
<1>4. FlattenSeq(t) = g[n + 1]
  BY <1>1, <1>2, <1>3, FlattenIs
<1>5. g[n + 1] = IF n + 1 = 1 THEN t[n + 1] ELSE g[n + 1 - 1] \o t[n + 1]
  BY <1>1, <1>3, FlattensAt
<1>6. CASE n = 0
  <2>1. seqs = <<>>
    BY <1>6, EmptySeq
  <2>2. FlattenSeq(seqs) \o s = s
    BY <2>1, FlattenEmpty, ConcatEmptySeq
  <2>3. QED BY <1>2, <1>4, <1>5, <1>6, <2>2 DEF t
<1>7. CASE n # 0
  <2>1. PICK f : Flattens(f, seqs, n)
    BY <1>1, FlattensExists
  <2>2. FlattenSeq(seqs) = f[n]
    BY <1>1, <1>7, <2>1, FlattenIs
  <2>3. n \in Nat /\ n + 1 \in Nat /\ n <= n /\ n <= n + 1 /\ n \in 1..n /\ n + 1 - 1 = n
    BY <1>1, <1>7
  <2> HIDE DEF n
  <2>4. \A i \in 1..n : seqs[i] = t[i]
    BY <1>2
  <2>5. \A i \in 1..n : f[i] = g[i]
    BY <1>3, <2>1, <2>3, <2>4, FlattensAgree
  <2>6. g[n + 1] = g[n] \o t[n + 1] /\ g[n] = f[n]
    <3>1. n + 1 # 1 /\ n + 1 - 1 = n
      BY <1>7, <2>3
    <3>2. g[n + 1] = g[n + 1 - 1] \o t[n + 1]
      BY <1>5, <3>1, Zenon
    <3>3. g[n + 1 - 1] = g[n]
      BY <3>1, Zenon
    <3>4. g[n] = f[n]
      BY <2>3, <2>5
    <3>5. QED BY <3>2, <3>3, <3>4, Zenon
  <2>7. FlattenSeq(t) = FlattenSeq(seqs) \o s
    BY <1>2, <1>4, <2>2, <2>6
  <2>8. QED BY <2>7 DEF t
<1>8. QED BY <1>6, <1>7

LEMMA FlattenOne == ASSUME NEW S, NEW s \in Seq(S) PROVE FlattenSeq(<<s>>) = s
<1>1. <<>> \in Seq(Seq(S)) /\ Append(<<>>, s) = <<s>> /\ <<>> \o s = s
  BY ConcatEmptySeq
<1>2. FlattenSeq(Append(<<>>, s)) = FlattenSeq(<<>>) \o s
  BY <1>1, FlattenAppend
<1>3. QED BY <1>1, <1>2, FlattenEmpty

LEMMA FlattenConcat ==
  ASSUME NEW S, NEW s \in Seq(Seq(S)), NEW t \in Seq(Seq(S))
  PROVE  FlattenSeq(s \o t) = FlattenSeq(s) \o FlattenSeq(t)
<1>0. FlattenSeq(s) \in Seq(S)
  BY FlattenType
<1>a. \A a, b, c \in Seq(S) : (a \o b) \o c = a \o (b \o c)
  BY ConcatAssociative, SMTT(60)
<1> DEFINE K == {k \in Nat : \A u \in Seq(Seq(S)) : Len(u) = k => FlattenSeq(s \o u) = FlattenSeq(s) \o FlattenSeq(u)}
<1>1. 0 \in K
  <2> SUFFICES ASSUME NEW u \in Seq(Seq(S)), Len(u) = 0
               PROVE  FlattenSeq(s \o u) = FlattenSeq(s) \o FlattenSeq(u)
    OBVIOUS
  <2>1. u = <<>>
    BY EmptySeq
  <2>2. s \o u = s /\ FlattenSeq(s) \o <<>> = FlattenSeq(s)
    BY <1>0, <2>1, ConcatEmptySeq
  <2>3. QED BY <2>1, <2>2, FlattenEmpty
<1>2. ASSUME NEW k \in Nat, k \in K PROVE k + 1 \in K
  <2> SUFFICES ASSUME NEW u \in Seq(Seq(S)), Len(u) = k + 1
               PROVE  FlattenSeq(s \o u) = FlattenSeq(s) \o FlattenSeq(u)
    OBVIOUS
  <2> DEFINE v == SubSeq(u, 1, k)
             x == u[k + 1]
  <2>1. v \in Seq(Seq(S)) /\ Len(v) = k /\ \A i \in 1..k : v[i] = u[i]
    BY Cut
  <2>2. x \in Seq(S)
    BY ElementOfSeq
  <2> HIDE DEF v, x
  <2>3. u = Append(v, x)
    <3>1. /\ Append(v, x) \in Seq(Seq(S)) /\ Len(Append(v, x)) = k + 1
          /\ \A i \in 1..k + 1 : Append(v, x)[i] = IF i <= k THEN v[i] ELSE x
      BY <2>1, <2>2
    <3>2. ASSUME NEW i \in 1..k + 1 PROVE Append(v, x)[i] = u[i]
      <4>1. CASE i <= k
        <5>1. i \in 1..k
          BY <4>1
        <5>2. QED BY <2>1, <3>1, <4>1, <5>1
      <4>2. CASE ~(i <= k)
        <5>1. i = k + 1
          BY <4>2
        <5>2. QED BY <3>1, <4>2, <5>1 DEF x
      <4>3. QED BY <4>1, <4>2, Zenon
    <3>3. QED BY <3>1, <3>2, SeqEqual
  <2>4. FlattenSeq(s \o v) = FlattenSeq(s) \o FlattenSeq(v) /\ FlattenSeq(v) \in Seq(S)
    BY <1>2, <2>1, FlattenType
  <2>5. s \o u = Append(s \o v, x) /\ s \o v \in Seq(Seq(S))
    <3> DEFINE T == Seq(S)
    <3>1. s \in Seq(T) /\ v \in Seq(T) /\ x \in T
      BY <2>1, <2>2
    <3> HIDE DEF T
    <3>2. s \o Append(v, x) = Append(s \o v, x) /\ s \o v \in Seq(T)
      BY <3>1, AppendConcat
    <3>3. QED BY <2>3, <3>2 DEF T
  <2>6. FlattenSeq(s \o u) = FlattenSeq(s \o v) \o x
    BY <2>2, <2>5, FlattenAppend
  <2>7. FlattenSeq(u) = FlattenSeq(v) \o x
    BY <2>1, <2>2, <2>3, FlattenAppend
  <2>8. (FlattenSeq(s) \o FlattenSeq(v)) \o x = FlattenSeq(s) \o (FlattenSeq(v) \o x)
    <3> DEFINE a == FlattenSeq(s)
               b == FlattenSeq(v)
    <3>1. a \in Seq(S) /\ b \in Seq(S) /\ x \in Seq(S)
      BY <1>0, <2>2, <2>4
    <3> HIDE DEF a, b
    <3>2. (a \o b) \o x = a \o (b \o x)
      BY <1>a, <3>1
    <3>3. QED BY <3>2, Zenon DEF a, b
  <2>9. QED BY <2>4, <2>6, <2>7, <2>8
<1> HIDE DEF K
<1>3. Nat \subseteq K
  BY <1>1, <1>2, Induction
<1>4. Len(t) \in K
  BY <1>3, LenProperties
<1>5. QED BY <1>4 DEF K

(* The first and the last sequence of a part. *)
LEMMA FlattenFirst ==
  ASSUME NEW S, NEW seqs \in Seq(Seq(S)), NEW m \in 1..Len(seqs)
  PROVE  /\ seqs[m] \in Seq(S)
         /\ FlattenSeq(SubSeq(seqs, m + 1, Len(seqs))) \in Seq(S)
         /\ FlattenSeq(SubSeq(seqs, m, Len(seqs))) = seqs[m] \o FlattenSeq(SubSeq(seqs, m + 1, Len(seqs)))
<1> DEFINE T == Seq(S)
           n == Len(seqs)
<1>1. seqs \in Seq(T) /\ n \in Nat /\ m \in 1..n /\ n \in m..n
  BY LenProperties
<1>2. seqs[m] \in Seq(S)
  BY ElementOfSeq
<1>3. /\ SubSeq(seqs, m, n) = <<seqs[m]>> \o SubSeq(seqs, m + 1, n)
      /\ SubSeq(seqs, m + 1, n) \in Seq(T) /\ <<seqs[m]>> \in Seq(T)
  <2> HIDE DEF T
  <2>1. m \in Nat /\ m <= Len(seqs) /\ seqs[m] \in T
    BY <1>1, ElementOfSeq
  <2>2. SubSeq(seqs, m + 1, Len(seqs)) \in Seq(T)
    BY <1>1, <2>1, Cut
  <2>3. <<seqs[m]>> \in Seq(T)
    BY <2>1
  <2>4. SubSeq(seqs, m, n) = <<seqs[m]>> \o SubSeq(seqs, m + 1, n)
    BY <1>1, SubSeqRecursiveFirst
  <2>5. QED BY <2>2, <2>3, <2>4
<1>4. FlattenSeq(<<seqs[m]>> \o SubSeq(seqs, m + 1, n)) = FlattenSeq(<<seqs[m]>>) \o FlattenSeq(SubSeq(seqs, m + 1, n))
  BY <1>3, FlattenConcat
<1>5. FlattenSeq(<<seqs[m]>>) = seqs[m]
  BY <1>2, FlattenOne
<1>6. FlattenSeq(SubSeq(seqs, m + 1, n)) \in Seq(S)
  BY <1>3, FlattenType
<1>7. QED BY <1>2, <1>3, <1>4, <1>5, <1>6

LEMMA FlattenLast ==
  ASSUME NEW S, NEW seqs \in Seq(Seq(S)), NEW m \in 1..Len(seqs)
  PROVE  /\ FlattenSeq(SubSeq(seqs, 1, m - 1)) \in Seq(S)
         /\ FlattenSeq(SubSeq(seqs, 1, m)) = FlattenSeq(SubSeq(seqs, 1, m - 1)) \o seqs[m]
<1> DEFINE T == Seq(S)
<1>1. seqs \in Seq(T) /\ m - 1 \in Nat /\ m - 1 <= Len(seqs) /\ 1 \in 1..Len(seqs) /\ m \in 1..Len(seqs)
  BY LenProperties
<1>2. seqs[m] \in Seq(S)
  BY ElementOfSeq
<1>3. SubSeq(seqs, 1, m) = SubSeq(seqs, 1, m - 1) \o <<seqs[m]>> /\ SubSeq(seqs, 1, m - 1) \in Seq(T) /\ seqs[m] \in T
  <2> HIDE DEF T
  <2>1. SubSeq(seqs, 1, m - 1) \in Seq(T)
    BY <1>1, Cut
  <2>2. SubSeq(seqs, 1, m) = SubSeq(seqs, 1, m - 1) \o <<seqs[m]>>
    BY <1>1, SubSeqRecursiveSecond
  <2>3. QED BY <1>1, <2>1, <2>2, ElementOfSeq
<1>4. SubSeq(seqs, 1, m) = Append(SubSeq(seqs, 1, m - 1), seqs[m])
  <2> HIDE DEF T
  <2>1. QED BY <1>3, AppendIsConcat
<1>5. FlattenSeq(Append(SubSeq(seqs, 1, m - 1), seqs[m])) = FlattenSeq(SubSeq(seqs, 1, m - 1)) \o seqs[m]
  BY <1>2, <1>3, FlattenAppend
<1>6. FlattenSeq(SubSeq(seqs, 1, m - 1)) \in Seq(S)
  BY <1>3, FlattenType
<1>7. QED BY <1>4, <1>5, <1>6

(* What a concatenation is, element by element. *)
Joined(S, s, t, j) ==
  /\ j \in Seq(S) /\ Len(j) = Len(s) + Len(t) /\ Len(s) \in Nat /\ Len(t) \in Nat
  /\ (\A i \in 1..Len(s) : j[i] = s[i]) /\ (\A i \in 1..Len(t) : j[Len(s) + i] = t[i])

LEMMA Joins ==
  ASSUME NEW S, NEW s \in Seq(S), NEW t \in Seq(S)
  PROVE  Joined(S, s, t, s \o t)
<1> DEFINE j == s \o t
           m == Len(s)
           n == Len(t)
<1>1. /\ j \in Seq(S) /\ Len(j) = m + n
      /\ \A i \in 1..m + n : j[i] = IF i <= m THEN s[i] ELSE t[i - m]
  BY ConcatProperties
<1>2. m \in Nat /\ n \in Nat
  BY LenProperties
<1> HIDE DEF j, m, n
<1>3. \A i \in 1..m : j[i] = s[i]
  BY <1>1, <1>2
<1>4. ASSUME NEW i \in 1..n PROVE j[m + i] = t[i]
  <2> DEFINE k == m + i
  <2>1. k \in 1..m + n /\ ~(k <= m) /\ k - m = i
    BY <1>2
  <2> HIDE DEF k
  <2>2. j[k] = IF k <= m THEN s[k] ELSE t[k - m]
    BY <1>1, <2>1
  <2>3. QED BY <2>1, <2>2 DEF k
<1>5. QED BY <1>1, <1>2, <1>3, <1>4 DEF Joined, j, m, n

(* Where the parentheses are. *)
Associates(S, s, t, u) ==
  /\ s \o t \in Seq(S) /\ t \o u \in Seq(S) /\ s \o (t \o u) \in Seq(S)
  /\ (s \o t) \o u = s \o (t \o u)

LEMMA Associate ==
  ASSUME NEW S, NEW s \in Seq(S), NEW t \in Seq(S), NEW u \in Seq(S)
  PROVE  Associates(S, s, t, u)
<1>1. s \o t \in Seq(S) /\ t \o u \in Seq(S)
  BY ConcatProperties
<1>2. s \o (t \o u) \in Seq(S)
  BY <1>1, ConcatProperties
<1>3. (s \o t) \o u = s \o (t \o u)
  BY ConcatAssociative
<1>4. QED BY <1>1, <1>2, <1>3 DEF Associates

(* A piece of a sequence, the end of such a piece, and a longer piece. *)
Slice(S, s, m, n, p) ==
  p \in Seq(S) /\ Len(p) = n - m /\ \A i \in 1..n - m : p[i] = s[m + i]

LEMMA Slices ==
  ASSUME NEW S, NEW s \in Seq(S), NEW n \in 0..Len(s), NEW m \in 0..n
  PROVE  Slice(S, s, m, n, SubSeq(s, m + 1, n))
<1> DEFINE p == SubSeq(s, m + 1, n)
<1>1. m \in Int /\ n \in Int /\ m + 1 \in Int /\ m <= n /\ \A i \in m + 1..n : s[i] \in S
  <2>1. Len(s) \in Nat /\ \A i \in 1..Len(s) : s[i] \in S
    BY LenProperties, ElementOfSeq
  <2>2. QED BY <2>1
<1>2. /\ p \in Seq(S) /\ Len(p) = IF m + 1 <= n THEN n - (m + 1) + 1 ELSE 0
      /\ \A i \in 1..n - (m + 1) + 1 : p[i] = s[m + 1 + i - 1]
  BY <1>1, SubSeqProperties
<1> HIDE DEF p
<1>3. n - (m + 1) + 1 = n - m /\ Len(p) = n - m
  BY <1>1, <1>2
<1>4. ASSUME NEW i \in 1..n - m PROVE p[i] = s[m + i]
  <2>1. m + 1 + i - 1 = m + i
    BY <1>1
  <2>2. QED BY <1>2, <1>3, <2>1
<1>5. QED BY <1>2, <1>3, <1>4 DEF Slice, p

LEMMA CutAgain ==
  ASSUME NEW S, NEW s \in Seq(S), NEW m \in Nat, NEW k \in Nat, m + k <= Len(s)
  PROVE  SubSeq(SubSeq(s, m + 1, Len(s)), k + 1, Len(s) - m) = SubSeq(s, m + k + 1, Len(s))
<1> DEFINE n == Len(s)
           a == SubSeq(s, m + 1, n)
           b == SubSeq(a, k + 1, n - m)
           c == SubSeq(s, m + k + 1, n)
<1>1. n \in Nat
  BY LenProperties
<1>2. Slice(S, s, m, n, a)
  <2>1. n \in 0..Len(s) /\ m \in 0..n
    BY <1>1
  <2>2. QED BY <2>1, Slices
<1>3. Slice(S, s, m + k, n, c)
  <2>1. n \in 0..Len(s) /\ m + k \in 0..n
    BY <1>1
  <2>2. QED BY <2>1, Slices
<1> HIDE DEF a, n
<1>4. a \in Seq(S) /\ Len(a) = n - m /\ \A i \in 1..n - m : a[i] = s[m + i]
  BY <1>2 DEF Slice
<1>5. Slice(S, a, k, n - m, b)
  <2>1. n - m \in 0..Len(a) /\ k \in 0..n - m
    BY <1>1, <1>4 DEF n
  <2>2. QED BY <1>4, <2>1, Slices
<1> HIDE DEF b, c
<1>6. b \in Seq(S) /\ Len(b) = n - m - k /\ \A i \in 1..n - m - k : b[i] = a[k + i]
  BY <1>5 DEF Slice
<1>7. c \in Seq(S) /\ Len(c) = n - (m + k) /\ \A i \in 1..n - (m + k) : c[i] = s[m + k + i]
  BY <1>3 DEF Slice
<1>8. n - m - k = n - (m + k)
  BY <1>1
<1>9. ASSUME NEW i \in 1..Len(b) PROVE b[i] = c[i]
  <2>1. k + i \in 1..n - m /\ m + (k + i) = m + k + i /\ i \in 1..n - m - k /\ i \in 1..n - (m + k)
    BY <1>1, <1>6
  <2> DEFINE j == k + i
  <2>2. b[i] = a[j] /\ c[i] = s[m + k + i]
    BY <1>6, <1>7, <2>1
  <2>3. a[j] = s[m + j]
    <3> HIDE DEF j
    <3>1. j \in 1..n - m
      BY <2>1 DEF j
    <3>2. QED BY <1>4, <3>1
  <2>4. QED BY <2>1, <2>2, <2>3
<1>10. b = c
  BY <1>6, <1>7, <1>8, <1>9, SeqEqual
<1>11. QED BY <1>10 DEF a, b, c, n

LEMMA Longer ==
  ASSUME NEW S, NEW s \in Seq(S), NEW m \in Nat, NEW v \in Seq(S), m + Len(v) <= Len(s),
         \A i \in 1..Len(v) : v[i] = s[m + i]
  PROVE  SubSeq(s, 1, m) \o v = SubSeq(s, 1, m + Len(v))
<1> DEFINE k == Len(v)
           p == SubSeq(s, m + 1, m + k)
<1>1. k \in Nat /\ Len(s) \in Nat
  BY LenProperties
<1>2. m + k \in 0..Len(s) /\ m \in 0..m + k /\ 1 \in 1..Len(s) + 1 /\ m \in 1 - 1..Len(s) /\ m + k \in m..Len(s)
      /\ m + k - m = k
  BY <1>1
<1>3. Slice(S, s, m, m + k, p)
  BY <1>2, Slices
<1> HIDE DEF p
<1>4. p \in Seq(S) /\ Len(p) = k /\ \A i \in 1..k : p[i] = s[m + i]
  BY <1>2, <1>3 DEF Slice
<1>5. p = v
  BY <1>4, SeqEqual
<1>6. SubSeq(s, 1, m) \o p = SubSeq(s, 1, m + k)
  BY <1>2, ConcatAdjacentSubSeq DEF p
<1>7. QED BY <1>5, <1>6

(* Short tuples as a first element and the others.  (Provers find the       *)
(* instances by the name again.)                                             *)
Tuples(S, s, c, l) ==
  /\ <<s, c, l>> \in Seq(S) /\ <<s, c, l, c, l>> \in Seq(S) /\ <<c, l, c, l>> \in Seq(S)
  /\ <<l, c, l>> \in Seq(S) /\ <<c, l>> \in Seq(S) /\ <<l>> \in Seq(S)
  /\ <<s, c, l>> = <<s>> \o <<c, l>> /\ <<s, c, l, c, l>> = <<s>> \o <<c, l, c, l>>
  /\ <<c, l, c, l>> = <<c>> \o <<l, c, l>> /\ <<l, c, l>> = <<l>> \o <<c, l>>
  /\ <<c, l>> = <<c>> \o <<l>> /\ <<l>> = <<l>> \o <<>>

LEMMA TupleParts ==
  ASSUME NEW S, NEW s \in S, NEW c \in S, NEW l \in S
  PROVE  Tuples(S, s, c, l)
<1>1. /\ <<s, c, l>> \in Seq(S) /\ <<s, c, l, c, l>> \in Seq(S) /\ <<c, l, c, l>> \in Seq(S)
      /\ <<l, c, l>> \in Seq(S) /\ <<c, l>> \in Seq(S) /\ <<l>> \in Seq(S)
  OBVIOUS
<1>2. <<s, c, l>> = <<s>> \o <<c, l>>
  OBVIOUS
<1>3. <<s, c, l, c, l>> = <<s>> \o <<c, l, c, l>>
  OBVIOUS
<1>4. <<c, l, c, l>> = <<c>> \o <<l, c, l>>
  OBVIOUS
<1>5. <<l, c, l>> = <<l>> \o <<c, l>>
  OBVIOUS
<1>6. <<c, l>> = <<c>> \o <<l>>
  <2> DEFINE p == <<c>> \o <<l>>
  <2>1. <<c>> \in Seq(S) /\ <<l>> \in Seq(S) /\ <<c>>[1] = c /\ <<l>>[1] = l /\ Len(<<c>>) = 1 /\ Len(<<l>>) = 1
    OBVIOUS
  <2>2. p \in Seq(S) /\ Len(p) = 2
    BY <2>1, ConcatProperties
  <2>3. p[1] = c /\ p[2] = l
    BY <2>1, ConcatProperties
  <2> DEFINE t == <<c, l>>
  <2>4. t \in Seq(S) /\ Len(t) = 2 /\ t[1] = c /\ t[2] = l
    OBVIOUS
  <2> HIDE DEF p, t
  <2>5. Len(p) = Len(t) /\ \A i \in 1..Len(p) : p[i] = t[i]
    BY <2>2, <2>3, <2>4
  <2>6. p = t
    BY <2>2, <2>4, <2>5, SeqEqual
  <2>7. QED BY <2>6 DEF p, t
<1>7. <<l>> = <<l>> \o <<>>
  OBVIOUS
<1>8. QED BY <1>1, <1>2, <1>3, <1>4, <1>5, <1>6, <1>7, Zenon DEF Tuples

=============================================================================
