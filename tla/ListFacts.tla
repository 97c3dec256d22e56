------------------------------- MODULE ListFacts -------------------------------
(***************************************************************************)
(* What the proofs about linked lists share: the least of a set of places,  *)
(* how long a list of distinct elements can be, and what is at each place   *)
(* of a list that an element has been taken from or put into.               *)
(***************************************************************************)
EXTENDS Integers, Sequences, FiniteSets, SequenceTheorems, FiniteSetTheorems,
        WellFoundedInduction, TLAPS

LEMMA LeastOf ==
  ASSUME NEW T, T \subseteq Nat, T # {}
  PROVE  \E x \in T : \A y \in T : x <= y
<1> DEFINE R == {ss \in Nat \X Nat : ss[1] < ss[2]}
<1>1. IsWellFoundedOn(R, Nat)
  BY NatLessThanWellFounded, Zenon DEF OpToRel
<1>2. PICK x \in T : \A y \in T : ~ (<<y, x>> \in R)
  <2> HIDE DEF R
  <2>1. QED
    BY <1>1, WFMin
<1>3. \A y \in T : ~ (y < x)
  BY <1>2
<1>4. QED
  BY <1>3

(* Distinct elements are no more than there are. *)
LEMMA NoLonger ==
  ASSUME NEW S, IsFiniteSet(S), NEW c \in Seq(S),
         \A i, j \in 1 .. Len(c) : c[i] = c[j] => i = j
  PROVE  Len(c) \in 0 .. Cardinality(S) /\ Cardinality(S) \in Nat
<1> DEFINE P == 1 .. Len(c)
<1>1. Len(c) \in Nat /\ c \in [P -> S]
  BY LenProperties
<1>2. c \in Injection(P, S)
  BY <1>1 DEF Injection, IsInjective
<1>3. Cardinality(P) <= Cardinality(S) /\ Cardinality(S) \in Nat
  <2> HIDE DEF P
  <2>1. QED
    BY <1>2, FS_Injection, FS_CardinalityType
<1>4. Cardinality(P) = Len(c)
  <2>1. 1 \in Int /\ Len(c) \in Int
    BY <1>1
  <2>2. Cardinality(1 .. Len(c)) = IF 1 > Len(c) THEN 0 ELSE Len(c) - 1 + 1
    BY <2>1, FS_Interval
  <2>3. QED
    BY <1>1, <2>2
<1>5. QED
  BY <1>1, <1>3, <1>4

(* What is left of a list when the element at p is taken out. *)
LEMMA CutFacts ==
  ASSUME NEW S, NEW s \in Seq(S), NEW p \in 1 .. Len(s)
  PROVE  LET r == SubSeq(s, 1, p - 1) \o SubSeq(s, p + 1, Len(s))
         IN  /\ r \in Seq(S) /\ Len(r) = Len(s) - 1
             /\ \A k \in 1 .. Len(s) - 1 : r[k] = IF k < p THEN s[k] ELSE s[k + 1]
<1> DEFINE a == SubSeq(s, 1, p - 1)
           b == SubSeq(s, p + 1, Len(s))
<1>0. Len(s) \in Nat /\ p \in Nat
  BY LenProperties
<1>1. \A k \in 1 .. Len(s) : s[k] \in S
  BY ElementOfSeq
<1>2. /\ a \in Seq(S) /\ Len(a) = p - 1
      /\ \A k \in 1 .. p - 1 : a[k] = s[k]
  <2>1. \A k \in 1 .. p - 1 : s[k] \in S
    BY <1>0, <1>1
  <2>2. /\ a \in Seq(S) /\ Len(a) = IF 1 <= p - 1 THEN p - 1 - 1 + 1 ELSE 0
        /\ \A k \in 1 .. p - 1 - 1 + 1 : a[k] = s[1 + k - 1]
    BY <1>0, <2>1, SubSeqProperties
  <2>3. QED
    BY <1>0, <2>2
<1>3. /\ b \in Seq(S) /\ Len(b) = Len(s) - p
      /\ \A k \in 1 .. Len(s) - p : b[k] = s[p + k]
  <2>1. \A k \in p + 1 .. Len(s) : s[k] \in S
    BY <1>0, <1>1
  <2>2. /\ b \in Seq(S) /\ Len(b) = IF p + 1 <= Len(s) THEN Len(s) - (p + 1) + 1 ELSE 0
        /\ \A k \in 1 .. Len(s) - (p + 1) + 1 : b[k] = s[p + 1 + k - 1]
    BY <1>0, <2>1, SubSeqProperties
  <2>3. QED
    BY <1>0, <2>2
<1>4. /\ a \o b \in Seq(S) /\ Len(a \o b) = Len(a) + Len(b)
      /\ \A k \in 1 .. Len(a) + Len(b) : (a \o b)[k] = IF k <= Len(a) THEN a[k] ELSE b[k - Len(a)]
  BY <1>2, <1>3, ConcatProperties
<1> HIDE DEF a, b
<1>5. \A k \in 1 .. Len(s) - 1 : (a \o b)[k] = IF k < p THEN s[k] ELSE s[k + 1]
  BY <1>0, <1>2, <1>3, <1>4
<1>6. Len(a \o b) = Len(s) - 1
  BY <1>0, <1>2, <1>3, <1>4
<1>7. QED
  BY <1>4, <1>5, <1>6, Zenon DEF a, b

(* A list with x put in behind its first n elements. *)
Put(s, x, n) == SubSeq(s, 1, n) \o <<x>> \o SubSeq(s, n + 1, Len(s))

LEMMA PutFacts ==
  ASSUME NEW S, NEW s \in Seq(S), NEW x \in S, NEW n \in 0 .. Len(s)
  PROVE  /\ Put(s, x, n) \in Seq(S) /\ Len(Put(s, x, n)) = Len(s) + 1
         /\ \A k \in 1 .. Len(s) + 1 :
              Put(s, x, n)[k] = IF k <= n THEN s[k] ELSE IF k = n + 1 THEN x ELSE s[k - 1]
<1> DEFINE a == SubSeq(s, 1, n)
           b == SubSeq(s, n + 1, Len(s))
           c == a \o <<x>>
<1>0. Len(s) \in Nat /\ n \in Nat
  BY LenProperties
<1>1. \A k \in 1 .. Len(s) : s[k] \in S
  BY ElementOfSeq
<1>2. /\ a \in Seq(S) /\ Len(a) = n
      /\ \A k \in 1 .. n : a[k] = s[k]
  <2>1. \A k \in 1 .. n : s[k] \in S
    BY <1>0, <1>1
  <2>2. /\ a \in Seq(S) /\ Len(a) = IF 1 <= n THEN n - 1 + 1 ELSE 0
        /\ \A k \in 1 .. n - 1 + 1 : a[k] = s[1 + k - 1]
    BY <1>0, <2>1, SubSeqProperties
  <2>3. QED
    BY <1>0, <2>2
<1>3. /\ b \in Seq(S) /\ Len(b) = Len(s) - n
      /\ \A k \in 1 .. Len(s) - n : b[k] = s[n + k]
  <2>1. \A k \in n + 1 .. Len(s) : s[k] \in S
    BY <1>0, <1>1
  <2>2. /\ b \in Seq(S) /\ Len(b) = IF n + 1 <= Len(s) THEN Len(s) - (n + 1) + 1 ELSE 0
        /\ \A k \in 1 .. Len(s) - (n + 1) + 1 : b[k] = s[n + 1 + k - 1]
    BY <1>0, <2>1, SubSeqProperties
  <2>3. QED
    BY <1>0, <2>2
<1>4. /\ c \in Seq(S) /\ Len(c) = n + 1
      /\ \A k \in 1 .. n : c[k] = s[k]
      /\ c[n + 1] = x
  <2>1. <<x>> \in Seq(S) /\ Len(<<x>>) = 1 /\ <<x>>[1] = x
    OBVIOUS
  <2>2. /\ c \in Seq(S) /\ Len(c) = Len(a) + Len(<<x>>)
        /\ \A k \in 1 .. Len(a) + Len(<<x>>) : c[k] = IF k <= Len(a) THEN a[k] ELSE <<x>>[k - Len(a)]
    BY <1>2, <2>1, ConcatProperties
  <2> HIDE DEF a, c
  <2>3. Len(c) = n + 1
    BY <1>2, <2>1, <2>2
  <2>4. \A k \in 1 .. n : c[k] = s[k]
    BY <1>0, <1>2, <2>1, <2>2
  <2>5. c[n + 1] = x
    BY <1>0, <1>2, <2>1, <2>2
  <2>6. QED
    BY <2>2, <2>3, <2>4, <2>5
<1> HIDE DEF a, b, c
<1>5. /\ c \o b \in Seq(S) /\ Len(c \o b) = Len(c) + Len(b)
      /\ \A k \in 1 .. Len(c) + Len(b) : (c \o b)[k] = IF k <= Len(c) THEN c[k] ELSE b[k - Len(c)]
  BY <1>3, <1>4, ConcatProperties
<1>6. \A k \in 1 .. Len(s) + 1 :
        (c \o b)[k] = IF k <= n THEN s[k] ELSE IF k = n + 1 THEN x ELSE s[k - 1]
  <2> SUFFICES ASSUME NEW k \in 1 .. Len(s) + 1
               PROVE  (c \o b)[k] = IF k <= n THEN s[k] ELSE IF k = n + 1 THEN x ELSE s[k - 1]
    OBVIOUS
  <2>0. (c \o b)[k] = IF k <= n + 1 THEN c[k] ELSE b[k - (n + 1)]
    BY <1>0, <1>3, <1>4, <1>5
  <2>1. CASE k <= n
    BY <1>0, <1>4, <2>0, <2>1
  <2>2. CASE k = n + 1
    BY <1>0, <1>4, <2>0, <2>2
  <2>3. CASE k > n + 1
    <3>1. k - (n + 1) \in 1 .. Len(s) - n
      BY <1>0, <2>3
    <3>2. b[k - (n + 1)] = s[n + (k - (n + 1))]
      BY <1>3, <3>1
    <3>3. n + (k - (n + 1)) = k - 1
      BY <1>0
    <3>4. QED
      BY <1>0, <2>0, <2>3, <3>2, <3>3
  <2>4. k <= n \/ k = n + 1 \/ k > n + 1
    <3>1. k \in Int /\ n \in Int
      BY <1>0
    <3>2. QED
      BY ONLY <3>1
  <2>5. QED
    BY <2>1, <2>2, <2>3, <2>4, Zenon
<1>7. Len(c \o b) = Len(s) + 1
  BY <1>0, <1>3, <1>4, <1>5
<1>8. Put(s, x, n) = c \o b
  BY DEF Put, a, b, c
<1>9. QED
  BY <1>5, <1>6, <1>7, <1>8, Zenon

(* An element is put behind the others. *)
LEMMA AppendFacts ==
  ASSUME NEW S, NEW s \in Seq(S), NEW x \in S
  PROVE  /\ Append(s, x) \in Seq(S) /\ Len(Append(s, x)) = Len(s) + 1
         /\ \A i \in 1 .. Len(s) : Append(s, x)[i] = s[i]
         /\ Append(s, x)[Len(s) + 1] = x
OBVIOUS

LEMMA PairFacts ==
  ASSUME NEW S, NEW x \in S, NEW y \in S
  PROVE  Append(<<x>>, y) = <<x, y>>
<1> DEFINE s == <<x>>
           u == Append(s, y)
<1>1. s \in Seq(S) /\ Len(s) = 1 /\ s[1] = x
  OBVIOUS
<1> HIDE DEF s
<1>2. s \in Seq(S)
  BY <1>1
<1>3. /\ u \in Seq(S) /\ Len(u) = Len(s) + 1
      /\ \A i \in 1 .. Len(s) : u[i] = s[i]
      /\ u[Len(s) + 1] = y
  BY <1>2, AppendFacts
<1> HIDE DEF u
<1>4. u \in Seq(S) /\ Len(u) = 2 /\ u[1] = x /\ u[2] = y
  BY <1>1, <1>3
<1>5. u = <<x, y>>
  BY <1>4
<1>6. QED
  BY <1>5 DEF s, u

(* The sums of the first elements of b: a function that is defined by       *)
(* recursion on the naturals exists.                                        *)
IsSum(f, b) == f = [k \in Nat |-> IF k = 0 THEN 0 ELSE f[k - 1] + b[k - 1]]

LEMMA SumExists ==
  ASSUME NEW b \in [Nat -> Nat]
  PROVE  \E f : IsSum(f, b)
<1> DEFINE Part(n, g) == /\ g \in [0 .. n -> Nat] /\ g[0] = 0
                         /\ \A k \in 1 .. n : g[k] = g[k - 1] + b[k - 1]
<1>1. ASSUME NEW n \in Nat PROVE \E g : Part(n, g)
  <2> DEFINE bad == {m \in Nat : ~ \E g : Part(m, g)}
  <2>1. SUFFICES ASSUME bad # {} PROVE FALSE
    OBVIOUS
  <2>2. PICK m \in bad : \A y \in bad : m <= y
    <3>1. bad \subseteq Nat
      OBVIOUS
    <3> HIDE DEF bad
    <3>2. QED
      BY <2>1, <3>1, LeastOf
  <2>3. m \in Nat /\ ~ \E g : Part(m, g)
    OBVIOUS
  <2>4. CASE m = 0
    <3> DEFINE g == [k \in 0 .. m |-> 0]
    <3>1. g \in [0 .. m -> Nat] /\ g[0] = 0
      BY <2>4
    <3>2. 1 .. m = {}
      BY <2>4
    <3>3. Part(m, g)
      BY <3>1, <3>2
    <3>4. QED
      BY <2>3, <3>3
  <2>5. CASE m # 0
    <3>1. m - 1 \in Nat /\ m - 1 \notin bad
      <4>1. m - 1 \in Nat /\ ~(m <= m - 1)
        BY <2>3, <2>5
      <4> HIDE DEF bad
      <4>2. m - 1 \notin bad
        BY <2>2, <4>1
      <4>3. QED
        BY <4>1, <4>2
    <3>2. PICK g : Part(m - 1, g)
      BY <3>1
    <3> DEFINE h == [k \in 0 .. m |-> IF k = m THEN g[m - 1] + b[m - 1] ELSE g[k]]
    <3>3. /\ \A k \in 0 .. m : k # m => k \in 0 .. m - 1
          /\ \A k \in 1 .. m : k # m => k \in 1 .. m - 1
          /\ \A k \in 1 .. m : k \in 0 .. m /\ k - 1 \in 0 .. m /\ k - 1 # m
          /\ m - 1 \in 0 .. m - 1 /\ 0 \in 0 .. m
      BY <2>3, <2>5
    <3>4. g[m - 1] + b[m - 1] \in Nat
      <4>1. g[m - 1] \in Nat
        BY <3>2, <3>3
      <4>2. b[m - 1] \in Nat
        BY <3>1
      <4>3. QED
        BY <4>1, <4>2, SMTT(30)
    <3>5. h \in [0 .. m -> Nat] /\ h[0] = 0
      BY <2>5, <3>2, <3>3, <3>4
    <3>6. ASSUME NEW k \in 1 .. m PROVE h[k] = h[k - 1] + b[k - 1]
      <4>1. h[k - 1] = g[k - 1]
        BY <3>3
      <4>2. CASE k = m
        BY <3>3, <4>1, <4>2
      <4>3. CASE k # m
        <5>1. h[k] = g[k]
          BY <3>3, <4>3
        <5>2. g[k] = g[k - 1] + b[k - 1]
          BY <3>2, <3>3, <4>3
        <5>3. QED
          BY <4>1, <5>1, <5>2
      <4>4. QED
        BY <4>2, <4>3
    <3> HIDE DEF h
    <3>7. Part(m, h)
      BY <3>5, <3>6
    <3>8. QED
      BY <2>3, <3>7
  <2>6. QED
    BY <2>4, <2>5
<1>2. ASSUME NEW n \in Nat, NEW m \in Nat, NEW g, NEW h, Part(n, g), Part(m, h), n <= m
      PROVE  \A k \in 0 .. n : g[k] = h[k]
  <2> DEFINE bad == {k \in 0 .. n : g[k] # h[k]}
  <2>1. SUFFICES ASSUME bad # {} PROVE FALSE
    OBVIOUS
  <2>2. PICK k \in bad : \A y \in bad : k <= y
    <3>1. bad \subseteq Nat
      OBVIOUS
    <3> HIDE DEF bad
    <3>2. QED
      BY <2>1, <3>1, LeastOf
  <2>3. k \in 0 .. n /\ g[k] # h[k]
    OBVIOUS
  <2>4. k # 0
    BY <1>2, <2>3
  <2>5. k \in 1 .. n /\ k \in 1 .. m /\ k - 1 \in 0 .. n
    BY <1>2, <2>3, <2>4
  <2>6. k - 1 \notin bad
    BY <2>2, <2>3
  <2>7. g[k - 1] = h[k - 1]
    BY <2>5, <2>6
  <2>8. QED
    BY <1>2, <2>3, <2>5, <2>7
<1> DEFINE G(n) == CHOOSE g : Part(n, g)
           f == [n \in Nat |-> G(n)[n]]
<1>3. \A n \in Nat : Part(n, G(n))
  BY <1>1
<1> HIDE DEF Part, G
<1>4. ASSUME NEW k \in Nat PROVE f[k] = IF k = 0 THEN 0 ELSE f[k - 1] + b[k - 1]
  <2>1. CASE k = 0
    BY <1>3, <2>1 DEF Part
  <2>2. CASE k # 0
    <3>1. k - 1 \in Nat /\ k - 1 <= k /\ k \in 1 .. k /\ k - 1 \in 0 .. k - 1
      BY <2>2
    <3>2. G(k - 1)[k - 1] = G(k)[k - 1]
      BY <1>2, <1>3, <3>1
    <3>3. G(k)[k] = G(k)[k - 1] + b[k - 1]
      BY <1>3, <3>1 DEF Part
    <3>4. f[k] = G(k)[k] /\ f[k - 1] = G(k - 1)[k - 1]
      BY <3>1
    <3>5. QED
      BY <2>2, <3>2, <3>3, <3>4
  <2>3. QED
    BY <2>1, <2>2
<1>5. f = [k \in Nat |-> f[k]]
  OBVIOUS
<1> HIDE DEF f
<1>6. f = [k \in Nat |-> IF k = 0 THEN 0 ELSE f[k - 1] + b[k - 1]]
  BY <1>4, <1>5
<1>7. QED
  BY <1>6 DEF IsSum

LEMMA SumFacts ==
  ASSUME NEW b \in [Nat -> Nat], NEW f, IsSum(f, b)
  PROVE  /\ f \in [Nat -> Nat] /\ f[0] = 0
         /\ \A k \in Nat : f[k + 1] = f[k] + b[k]
<1>1. f[0] = 0 /\ \A k \in Nat : k # 0 => f[k] = f[k - 1] + b[k - 1]
  BY DEF IsSum
<1>2. \A k \in Nat : f[k + 1] = f[k] + b[k]
  <2> SUFFICES ASSUME NEW k \in Nat PROVE f[k + 1] = f[k] + b[k]
    OBVIOUS
  <2>1. k + 1 \in Nat /\ k + 1 # 0 /\ k + 1 - 1 = k
    OBVIOUS
  <2>2. f[k + 1] = f[k + 1 - 1] + b[k + 1 - 1]
    BY <1>1, <2>1
  <2>3. QED
    BY <2>1, <2>2
<1>3. \A k \in Nat : f[k] \in Nat
  <2> DEFINE bad == {k \in Nat : f[k] \notin Nat}
  <2>1. SUFFICES ASSUME bad # {} PROVE FALSE
    OBVIOUS
  <2>2. PICK k \in bad : \A y \in bad : k <= y
    <3>1. bad \subseteq Nat
      OBVIOUS
    <3> HIDE DEF bad
    <3>2. QED
      BY <2>1, <3>1, LeastOf
  <2>3. k \in Nat /\ k # 0 /\ f[k] \notin Nat
    BY <1>1
  <2>4. k - 1 \in Nat /\ k - 1 \notin bad
    BY <2>2, <2>3
  <2>5. f[k - 1] \in Nat /\ b[k - 1] \in Nat
    BY <2>4
  <2>6. QED
    BY <1>1, <2>3, <2>5
<1>4. f = [k \in Nat |-> f[k]]
  BY DEF IsSum
<1>5. QED
  BY <1>1, <1>2, <1>3, <1>4
================================================================================
