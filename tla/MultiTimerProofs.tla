---------------------------- MODULE MultiTimerProofs ----------------------------
(***************************************************************************)
(* Proofs about MultiTimer, for any timers, delays and periods within half  *)
(* of the counter's range, any width of the counter and any main loop.      *)
(***************************************************************************)
EXTENDS MultiTimer, ListFacts

Half == Ticks \div 2

(* No timer is in the list twice. *)
Distinct(l) == \A i, j \in DOMAIN l : l[i] = l[j] => i = j

(* The list is in the order of deadlines. *)
Sorted(l) == \A i, j \in DOMAIN l : i < j => deadline[l[i]] <= deadline[l[j]]

IdleAtHead == pc = "idle" => slot = HEAD

(* A timer that has time left has a deadline ahead, on this side of the     *)
(* wrap or on the other.                                                    *)
Ahead ==
  \A t \in Timers :
    /\ left[t] <= Half /\ left[t] >= 0 - MaxLate
    /\ Running(t) /\ left[t] > 0 => deadline[t] \in {now + left[t], now + left[t] - Ticks}

(* Until a wrap the deadlines are plain times: the time left is the         *)
(* difference to now, down to the bound on lateness.                        *)
Plain ==
  ~crossed =>
    /\ Sorted(list)
    /\ \A t \in Timers : Running(t) =>
         /\ left[t] >= deadline[t] - now
         /\ left[t] > 0 - MaxLate => left[t] = deadline[t] - now

OffNull == ~crossed => pc # "crashed"

IInv == TypeOK /\ ListIsProper /\ IdleAtHead /\ Ahead /\ Plain /\ OffNull

-----------------------------------------------------------------------------
(* Arithmetic of the counter. *)
LEMMA ModOnce ==
  ASSUME NEW n \in Nat \ {0}
  PROVE  /\ \A a \in 0 .. n - 1 : a % n = a
         /\ \A a \in n .. 2 * n - 1 : a % n = a - n
         /\ \A a \in 0 - n .. -1 : a % n = a + n
<1>1. \A a \in 0 .. n - 1 : a % n = a
  OBVIOUS
<1>2. \A a \in n .. 2 * n - 1 : a % n = a - n
  OBVIOUS
<1>3. \A a \in 0 - n .. -1 : a % n = a + n
  OBVIOUS
<1>4. QED
  BY <1>1, <1>2, <1>3

LEMMA Constants ==
  /\ Ticks \in Nat \ {0} /\ Half \in Nat /\ 2 * Half <= Ticks /\ Lag \in Nat /\ MaxLate \in Nat
  /\ HEAD \notin Timers /\ NULL \notin Timers
  /\ \A t \in Timers : Delay[t] \in Nat \ {0} /\ Delay[t] <= Half
                       /\ Period[t] \in Nat /\ Period[t] <= Half
<1>1. Ticks \in Nat \ {0} /\ Lag \in Nat /\ MaxLate \in Nat
  BY TimerAssumption
<1>2. Half \in Nat /\ 2 * Half <= Ticks
  BY <1>1 DEF Half
<1>3. HEAD \notin Timers /\ NULL \notin Timers
  BY TimerAssumption
<1>4. \A t \in Timers : Delay[t] \in Nat \ {0} /\ Period[t] \in Nat
  BY TimerAssumption
<1>5. \A t \in Timers : Delay[t] <= Half /\ Period[t] <= Half
  BY HalfRange DEF Half
<1>6. QED
  BY <1>1, <1>2, <1>3, <1>4, <1>5

-----------------------------------------------------------------------------
(* The list operations. *)

LEMMA PlaceFacts ==
  ASSUME NEW l, NEW t, In(l, t)
  PROVE  PlaceOf(l, t) \in DOMAIN l /\ l[PlaceOf(l, t)] = t
BY DEF In, PlaceOf

(* A list without a timer. *)
LEMMA WithoutFacts ==
  ASSUME NEW l \in Seq(Timers), Distinct(l), NEW t
  PROVE  /\ Without(l, t) \in Seq(Timers) /\ Distinct(Without(l, t))
         /\ ~In(Without(l, t), t)
         /\ \A u : u # t => (In(Without(l, t), u) <=> In(l, u))
         /\ deadline \in [Timers -> Int] /\ Sorted(l) => Sorted(Without(l, t))
         /\ ~In(l, t) => Without(l, t) = l
         /\ \A j, k \in DOMAIN l :
              j < k /\ l[j] # t /\ l[k] # t =>
                \E m, n \in DOMAIN Without(l, t) :
                  m < n /\ Without(l, t)[m] = l[j] /\ Without(l, t)[n] = l[k]
<1>0. Len(l) \in Nat /\ DOMAIN l = 1 .. Len(l)
  BY LenProperties
<1>1. CASE ~In(l, t)
  <2>1. Without(l, t) = l
    BY <1>1 DEF Without
  <2>2. QED
    BY <1>1, <2>1
<1>2. CASE In(l, t)
  <2> DEFINE p == PlaceOf(l, t)
             r == Without(l, t)
  <2>1. p \in 1 .. Len(l) /\ l[p] = t
    BY <1>0, <1>2, PlaceFacts
  <2>2. r = SubSeq(l, 1, p - 1) \o SubSeq(l, p + 1, Len(l))
    BY <1>2 DEF Without
  <2> HIDE DEF p, r
  <2>3. /\ r \in Seq(Timers) /\ Len(r) = Len(l) - 1
        /\ \A k \in 1 .. Len(l) - 1 : r[k] = IF k < p THEN l[k] ELSE l[k + 1]
    BY <2>1, <2>2, CutFacts
  <2>4. DOMAIN r = 1 .. Len(l) - 1
    BY <2>3, LenProperties
  <2> DEFINE from(k) == IF k < p THEN k ELSE k + 1
             to(k) == IF k < p THEN k ELSE k - 1
  <2>5. \A k \in DOMAIN r : from(k) \in DOMAIN l /\ from(k) # p /\ r[k] = l[from(k)]
    BY <1>0, <2>1, <2>3, <2>4
  <2>6. \A j, k \in DOMAIN r : /\ from(j) = from(k) => j = k
                               /\ j < k => from(j) < from(k)
    BY <1>0, <2>1, <2>4
  <2>7. \A k \in DOMAIN l : k # p => to(k) \in DOMAIN r /\ r[to(k)] = l[k]
    BY <1>0, <2>1, <2>3, <2>4
  <2> HIDE DEF from, to
  <2>8. Distinct(r)
    BY <2>5, <2>6 DEF Distinct
  <2>9. ~In(r, t)
    BY <2>1, <2>5, <1>0 DEF In, Distinct
  <2>10. \A u : u # t => (In(r, u) <=> In(l, u))
    <3>1. ASSUME NEW u, u # t, In(r, u) PROVE In(l, u)
      BY <3>1, <2>5 DEF In
    <3>2. ASSUME NEW u, u # t, In(l, u) PROVE In(r, u)
      <4>1. PICK k \in DOMAIN l : l[k] = u
        BY <3>2 DEF In
      <4>2. k # p
        BY <2>1, <3>2, <4>1
      <4>3. QED
        BY <2>7, <4>1, <4>2 DEF In
    <3>3. QED
      BY <3>1, <3>2
  <2>11. Sorted(l) => Sorted(r)
    BY <2>5, <2>6 DEF Sorted
  <2>12. ASSUME NEW j \in DOMAIN l, NEW k \in DOMAIN l, j < k, l[j] # t, l[k] # t
         PROVE  \E m, n \in DOMAIN r : m < n /\ r[m] = l[j] /\ r[n] = l[k]
    <3>1. j # p /\ k # p
      BY <2>1, <2>12
    <3>2. to(j) < to(k)
      BY <1>0, <2>1, <2>12, <3>1 DEF to
    <3>3. QED
      BY <2>7, <3>1, <3>2
  <2>13. QED
    BY <1>2, <2>3, <2>8, <2>9, <2>10, <2>11, <2>12 DEF r
<1>3. QED
  BY <1>1, <1>2

(* A list into which a timer has been put: behind n others, none of which   *)
(* has a later deadline, and ahead of one that has.                         *)
LEMMA InsertedFacts ==
  ASSUME NEW l \in Seq(Timers), Distinct(l), NEW t \in Timers, ~In(l, t), NEW d \in Int,
         deadline \in [Timers -> Int]
  PROVE  LET r == Inserted(l, t, d)
         IN \E n \in 0 .. Len(l) :
              /\ r \in Seq(Timers) /\ Len(r) = Len(l) + 1
              /\ \A k \in 1 .. Len(l) + 1 :
                   r[k] = IF k <= n THEN l[k] ELSE IF k = n + 1 THEN t ELSE l[k - 1]
              /\ \A k \in 1 .. n : deadline[l[k]] <= d
              /\ n < Len(l) => d < deadline[l[n + 1]]
<1>0. Len(l) \in Nat /\ DOMAIN l = 1 .. Len(l) /\ \A k \in DOMAIN l : l[k] \in Timers
  BY LenProperties, ElementOfSeq
<1> DEFINE later == {i \in DOMAIN l : d < deadline[l[i]]}
           first == CHOOSE i \in later : \A j \in later : i <= j
           n == IF later = {} THEN Len(l) ELSE first - 1
<1>1. /\ n \in 0 .. Len(l)
      /\ \A k \in 1 .. n : deadline[l[k]] <= d
      /\ n < Len(l) => d < deadline[l[n + 1]]
  <2>1. CASE later = {}
    <3>1. \A k \in DOMAIN l : ~(d < deadline[l[k]])
      BY <2>1
    <3>2. \A k \in DOMAIN l : deadline[l[k]] \in Int
      BY <1>0
    <3>3. \A k \in DOMAIN l : deadline[l[k]] <= d
      BY <3>1, <3>2
    <3>4. n = Len(l)
      BY <2>1
    <3> HIDE DEF n
    <3>5. QED
      BY <1>0, <3>3, <3>4
  <2>2. CASE later # {}
    <3>1. later \subseteq Nat
      BY <1>0
    <3> HIDE DEF later
    <3>2. \E x \in later : \A y \in later : x <= y
      BY <2>2, <3>1, LeastOf
    <3>3. first \in later /\ \A j \in later : first <= j
      BY <3>2
    <3>4. n = first - 1
      BY <2>2
    <3> HIDE DEF first, n
    <3>5. first \in 1 .. Len(l) /\ d < deadline[l[first]]
      BY <1>0, <3>3 DEF later
    <3>6. ASSUME NEW k \in 1 .. n PROVE deadline[l[k]] <= d
      <4>1. k \in DOMAIN l /\ k < first
        BY <1>0, <3>4, <3>5
      <4>2. k \notin later
        BY <1>0, <3>3, <3>5, <4>1
      <4>3. deadline[l[k]] \in Int /\ ~(d < deadline[l[k]])
        BY <1>0, <4>1, <4>2 DEF later
      <4>4. QED
        BY <4>3
    <3>7. n \in 0 .. Len(l) /\ n + 1 = first
      BY <1>0, <3>4, <3>5
    <3>8. QED
      BY <3>5, <3>6, <3>7
  <2>3. QED
    BY <2>1, <2>2
<1>2. Inserted(l, t, d) = Put(l, t, n)
  BY Zenon DEF Inserted, Put
<1> HIDE DEF later, first, n
<1>3. /\ Inserted(l, t, d) \in Seq(Timers) /\ Len(Inserted(l, t, d)) = Len(l) + 1
      /\ \A k \in 1 .. Len(l) + 1 :
           Inserted(l, t, d)[k] = IF k <= n THEN l[k] ELSE IF k = n + 1 THEN t ELSE l[k - 1]
  <2>1. n \in 0 .. Len(l)
    BY <1>1
  <2>2. Put(l, t, n) \in Seq(Timers) /\ Len(Put(l, t, n)) = Len(l) + 1
    BY <2>1, PutFacts
  <2>3. \A k \in 1 .. Len(l) + 1 :
          Put(l, t, n)[k] = IF k <= n THEN l[k] ELSE IF k = n + 1 THEN t ELSE l[k - 1]
    BY <2>1, PutFacts
  <2> DEFINE r == Inserted(l, t, d)
             q == Put(l, t, n)
  <2>4. r = q
    BY <1>2
  <2>5. /\ q \in Seq(Timers) /\ Len(q) = Len(l) + 1
        /\ \A k \in 1 .. Len(l) + 1 : q[k] = IF k <= n THEN l[k] ELSE IF k = n + 1 THEN t ELSE l[k - 1]
    BY <2>2, <2>3
  <2> HIDE DEF r, q
  <2>6. /\ r \in Seq(Timers) /\ Len(r) = Len(l) + 1
        /\ \A k \in 1 .. Len(l) + 1 : r[k] = IF k <= n THEN l[k] ELSE IF k = n + 1 THEN t ELSE l[k - 1]
    BY <2>4, <2>5
  <2>7. QED
    BY <2>6 DEF r
<1>4. QED
  BY <1>1, <1>3

(* Where a step of the loop goes from the field of s: to the element behind *)
(* s, and nowhere when s is the last one.                                   *)
LEMMA NextFacts ==
  ASSUME NEW l \in Seq(Timers), Distinct(l), NEW s \in Timers \cup {HEAD}, s # HEAD => In(l, s)
  PROVE  \E i \in 0 .. Len(l) :
           /\ i = 0 <=> s = HEAD
           /\ i > 0 => l[i] = s
           /\ i < Len(l) => /\ NextOf(l, s) = l[i + 1] /\ NextOf(l, s) \in Timers
                            /\ NextOf(l, s) # NULL /\ NextOf(l, s) # s /\ In(l, NextOf(l, s))
           /\ i = Len(l) => NextOf(l, s) = NULL
<1>0. Len(l) \in Nat /\ DOMAIN l = 1 .. Len(l) /\ \A k \in 1 .. Len(l) : l[k] \in Timers
  BY LenProperties, ElementOfSeq
<1> DEFINE i == IF s = HEAD THEN 0 ELSE PlaceOf(l, s)
<1>1. i \in 0 .. Len(l) /\ (i = 0 <=> s = HEAD) /\ (i > 0 => l[i] = s)
  <2>1. CASE s = HEAD
    BY <1>0, <2>1
  <2>2. CASE s # HEAD
    <3>1. PlaceOf(l, s) \in DOMAIN l /\ l[PlaceOf(l, s)] = s
      BY <2>2, PlaceFacts
    <3>2. QED
      BY <1>0, <2>2, <3>1
  <2>3. QED
    BY <2>1, <2>2
<1>2. NextOf(l, s) = IF i < Len(l) THEN l[i + 1] ELSE NULL
  BY Zenon DEF NextOf
<1> HIDE DEF i
<1>3. i = Len(l) => NextOf(l, s) = NULL
  BY <1>0, <1>2
<1>4. ASSUME i < Len(l)
      PROVE  /\ NextOf(l, s) = l[i + 1] /\ NextOf(l, s) \in Timers
             /\ NextOf(l, s) # NULL /\ NextOf(l, s) # s /\ In(l, NextOf(l, s))
  <2>1. i + 1 \in DOMAIN l /\ i + 1 \in 1 .. Len(l) /\ i + 1 # i
    BY <1>0, <1>1, <1>4
  <2>2. NextOf(l, s) = l[i + 1]
    BY <1>2, <1>4
  <2>3. l[i + 1] \in Timers /\ l[i + 1] # NULL /\ l[i + 1] # HEAD
    BY <1>0, <2>1, Constants
  <2>4. l[i + 1] # s
    <3>1. CASE s = HEAD
      BY <2>3, <3>1
    <3>2. CASE s # HEAD
      <4>1. i \in DOMAIN l /\ l[i] = s
        BY <1>0, <1>1, <3>2
      <4>2. QED
        BY <2>1, <4>1 DEF Distinct
    <3>3. QED
      BY <3>1, <3>2
  <2>5. In(l, l[i + 1])
    BY <2>1 DEF In
  <2>6. QED
    BY <2>2, <2>3, <2>4, <2>5
<1>5. QED
  BY <1>1, <1>3, <1>4

-----------------------------------------------------------------------------
(* A timer that is due has no time left: the comparison within half of the  *)
(* range is right on both sides of the wrap.                                *)
LEMMA DueIsDue ==
  ASSUME TypeOK, Ahead, NEW t \in Timers, Running(t), Due(t)
  PROVE  left[t] <= 0
<1> SUFFICES ASSUME left[t] > 0 PROVE FALSE
  BY DEF TypeOK
<1>1. /\ left[t] \in 1 .. Half /\ deadline[t] \in {now + left[t], now + left[t] - Ticks}
      /\ now \in Int
  BY Constants DEF TypeOK, Ahead
<1>2. now - deadline[t] \in {0 - left[t], Ticks - left[t]}
  BY <1>1, Constants
<1>3. Ticks - left[t] \in 0 .. Ticks - 1 /\ 0 - left[t] \in 0 - Ticks .. -1
  BY <1>1, Constants
<1>4. (now - deadline[t]) % Ticks = Ticks - left[t]
  <2>1. (Ticks - left[t]) % Ticks = Ticks - left[t]
    BY <1>3, ModOnce, Constants
  <2>2. (0 - left[t]) % Ticks = 0 - left[t] + Ticks
    BY <1>3, ModOnce, Constants
  <2>3. CASE now - deadline[t] = 0 - left[t]
    BY <1>1, <2>2, <2>3, Constants
  <2>4. CASE now - deadline[t] = Ticks - left[t]
    BY <2>1, <2>4
  <2>5. QED
    BY <1>2, <2>3, <2>4
<1>5. Ticks - left[t] < Half
  BY <1>4 DEF Due, Half
<1>6. QED
  BY <1>1, <1>5, Constants

-----------------------------------------------------------------------------
(* What MultiTimerStart leaves, over what the list holds of other timers. *)
LEMMA StartFacts ==
  ASSUME TypeOK, ListIsProper, Ahead, Plain,
         NEW t \in Timers, NEW a \in 1 .. Half, NEW l, Without(l, t) = Without(list, t),
         StartTimer(l, t, a), UNCHANGED now
  PROVE  /\ list' \in Seq(Timers) /\ Distinct(list')
         /\ \A u : In(list', u) <=> u = t \/ In(list, u)
         /\ deadline' \in [Timers -> 0 .. Ticks - 1] /\ left' \in [Timers -> Int]
         /\ crossed' \in BOOLEAN /\ Ahead' /\ Plain'
         /\ ~crossed' => deadline'[t] > now
         /\ \A u \in Timers : u # t => deadline'[u] = deadline[u]
         /\ ~crossed' => \A u : ~crossed \/ u = t \/ ~In(list, u)
<1> DEFINE rest == Without(list, t)
           d == NewDeadline(a)
           r == Inserted(rest, t, d)
<1>0. /\ list \in Seq(Timers) /\ Distinct(list) /\ now \in 0 .. Ticks - 1
      /\ deadline \in [Timers -> Int] /\ deadline \in [Timers -> 0 .. Ticks - 1]
      /\ left \in [Timers -> Int] /\ crossed \in BOOLEAN
  BY Constants DEF TypeOK, ListIsProper, Distinct
<1>1. /\ rest \in Seq(Timers) /\ Distinct(rest) /\ ~In(rest, t)
      /\ \A u : u # t => (In(rest, u) <=> In(list, u))
      /\ Sorted(list) => Sorted(rest)
  BY <1>0, WithoutFacts
<1>2. /\ d \in 0 .. Ticks - 1 /\ d \in Int /\ d \in {now + a, now + a - Ticks}
      /\ now + a < Ticks => d = now + a
  <2>1. now + a \in Nat /\ now + a < 2 * Ticks
    BY <1>0, Constants
  <2>2. CASE now + a < Ticks
    <3>1. now + a \in 0 .. Ticks - 1
      BY <2>1, <2>2, Constants
    <3>2. d = now + a
      BY <3>1, ModOnce, Constants DEF NewDeadline
    <3>3. QED
      BY <3>1, <3>2
  <2>3. CASE now + a >= Ticks
    <3>1. now + a \in Ticks .. 2 * Ticks - 1
      BY <2>1, <2>3, Constants
    <3> DEFINE m == now + a
    <3>2. d = m % Ticks /\ m \in Ticks .. 2 * Ticks - 1
      BY <3>1 DEF NewDeadline
    <3> HIDE DEF m, d
    <3>3. m % Ticks = m - Ticks
      <4>1. Ticks \in Nat \ {0}
        BY Constants
      <4>2. QED
        BY <3>2, <4>1, ModOnce
    <3>4. m - Ticks \in 0 .. Ticks - 1
      BY <3>2, Constants
    <3>5. d = m - Ticks
      BY <3>2, <3>3
    <3>6. QED
      BY <2>3, <3>4, <3>5, <1>0, Constants DEF m
  <2>4. QED
    BY <2>1, <2>2, <2>3, Constants
<1>3. /\ list' = r
      /\ deadline' = [deadline EXCEPT ![t] = d]
      /\ left' = [left EXCEPT ![t] = a]
      /\ crossed' = (now + a >= Ticks \/ (crossed /\ rest # <<>>))
  BY Zenon DEF StartTimer
<1> HIDE DEF rest, d
<1>4. PICK n \in 0 .. Len(rest) :
        /\ r \in Seq(Timers) /\ Len(r) = Len(rest) + 1
        /\ \A k \in 1 .. Len(rest) + 1 :
             r[k] = IF k <= n THEN rest[k] ELSE IF k = n + 1 THEN t ELSE rest[k - 1]
        /\ \A k \in 1 .. n : deadline[rest[k]] <= d
        /\ n < Len(rest) => d < deadline[rest[n + 1]]
  BY <1>0, <1>1, <1>2, InsertedFacts
<1> HIDE DEF r
<1>5. /\ Len(rest) \in Nat /\ DOMAIN rest = 1 .. Len(rest) /\ DOMAIN r = 1 .. Len(rest) + 1
      /\ \A k \in 1 .. Len(rest) : rest[k] \in Timers
  BY <1>1, <1>4, LenProperties, ElementOfSeq
<1>6. \A k \in DOMAIN rest : rest[k] # t
  BY <1>1 DEF In
<1> DEFINE at(k) == IF k <= n THEN k ELSE k - 1
           to(k) == IF k <= n THEN k ELSE k + 1
<1>7. /\ n + 1 \in DOMAIN r /\ r[n + 1] = t
      /\ \A k \in DOMAIN r : k # n + 1 => at(k) \in DOMAIN rest /\ r[k] = rest[at(k)]
      /\ \A j, k \in DOMAIN r :
           j # n + 1 /\ k # n + 1 => (at(j) = at(k) => j = k) /\ (j < k => at(j) < at(k))
      /\ \A k \in DOMAIN rest : to(k) \in DOMAIN r /\ r[to(k)] = rest[k]
  <2>1. n \in Int /\ Len(rest) \in Int
    BY <1>5
  <2>2. n + 1 \in DOMAIN r /\ r[n + 1] = t
    BY <1>4, <1>5
  <2>3. ASSUME NEW k \in DOMAIN r, k # n + 1
        PROVE  at(k) \in DOMAIN rest /\ r[k] = rest[at(k)]
    BY <1>4, <1>5, <2>3
  <2>4. \A j, k \in DOMAIN r :
           j # n + 1 /\ k # n + 1 => (at(j) = at(k) => j = k) /\ (j < k => at(j) < at(k))
    BY <1>5, <2>1
  <2>5. ASSUME NEW k \in DOMAIN rest
        PROVE  to(k) \in DOMAIN r /\ r[to(k)] = rest[k]
    BY <1>4, <1>5, <2>5
  <2>6. QED
    BY <2>2, <2>3, <2>4, <2>5
<1> HIDE DEF at, to
<1>8. Distinct(r)
  BY <1>1, <1>6, <1>7 DEF Distinct
<1>9. \A u : In(r, u) <=> u = t \/ In(list, u)
  <2>1. \A u : In(r, u) <=> u = t \/ In(rest, u)
    <3>1. ASSUME NEW u, In(r, u) PROVE u = t \/ In(rest, u)
      BY <1>7, <3>1 DEF In
    <3>2. ASSUME NEW u, u = t \/ In(rest, u) PROVE In(r, u)
      BY <1>7, <3>2 DEF In
    <3>3. QED
      BY <3>1, <3>2
  <2>2. QED
    BY <1>1, <2>1
<1>10. /\ deadline' \in [Timers -> 0 .. Ticks - 1] /\ left' \in [Timers -> Int]
       /\ deadline'[t] = d /\ left'[t] = a
       /\ \A u \in Timers : u # t => deadline'[u] = deadline[u] /\ left'[u] = left[u]
  BY <1>0, <1>2, <1>3
<1>11. Ahead'
  <2> SUFFICES ASSUME NEW u \in Timers
               PROVE  /\ left'[u] <= Half /\ left'[u] >= 0 - MaxLate
                      /\ In(list', u) /\ left'[u] > 0 =>
                           deadline'[u] \in {now' + left'[u], now' + left'[u] - Ticks}
    BY DEF Ahead, Running, Half
  <2>1. CASE u = t
    BY <1>2, <1>10, <2>1, Constants
  <2>2. CASE u # t
    BY <1>3, <1>9, <1>10, <2>2 DEF Ahead, Running
  <2>3. QED
    BY <2>1, <2>2
<1>12. ASSUME ~crossed'
       PROVE  /\ d = now + a /\ d > now
              /\ \A u : ~crossed \/ u = t \/ ~In(list, u)
  <2>1. ~(now + a >= Ticks) /\ ~(crossed /\ rest # <<>>)
    BY <1>3, <1>12, Zenon
  <2>2. d = now + a /\ d > now
    BY <1>0, <1>2, <2>1, Constants
  <2>3. ASSUME NEW u, crossed, u # t, In(list, u) PROVE FALSE
    <3>1. In(rest, u)
      BY <1>1, <2>3
    <3>2. rest = <<>>
      BY <2>1, <2>3
    <3>3. QED
      BY <3>1, <3>2 DEF In
  <2>4. QED
    BY <2>2, <2>3
<1>13. Plain'
  <2> SUFFICES ASSUME ~crossed'
               PROVE  /\ Sorted(list)'
                      /\ \A u \in Timers : In(list', u) =>
                           /\ left'[u] >= deadline'[u] - now'
                           /\ left'[u] > 0 - MaxLate => left'[u] = deadline'[u] - now'
    BY DEF Plain, Running
  <2>1. ASSUME NEW u \in Timers, In(list', u)
        PROVE  /\ left'[u] >= deadline'[u] - now'
               /\ left'[u] > 0 - MaxLate => left'[u] = deadline'[u] - now'
    <3>1. CASE u = t
      BY <1>0, <1>10, <1>12, <3>1
    <3>2. CASE u # t
      <4>1. In(list, u) /\ ~crossed
        BY <1>3, <1>9, <1>12, <2>1, <3>2
      <4>2. QED
        BY <1>10, <3>2, <4>1 DEF Plain, Running
    <3>3. QED
      BY <3>1, <3>2
  <2>2. Sorted(rest)
    <3>1. CASE ~crossed
      BY <1>1, <3>1 DEF Plain
    <3>2. CASE crossed
      <4>1. \A k \in DOMAIN rest : FALSE
        <5>1. ASSUME NEW k \in DOMAIN rest PROVE FALSE
          <6>1. rest[k] # t /\ In(rest, rest[k])
            BY <1>6, <5>1 DEF In
          <6>2. QED
            BY <1>1, <1>12, <3>2, <6>1
        <5>2. QED
          BY <5>1
      <4>2. QED
        BY <4>1 DEF Sorted
    <3>3. QED
      BY <3>1, <3>2
  <2>3. ASSUME NEW j \in DOMAIN r, NEW k \in DOMAIN r, j < k
        PROVE  deadline'[r[j]] <= deadline'[r[k]]
    <3>0. /\ \A i \in DOMAIN rest : deadline'[rest[i]] = deadline[rest[i]] /\ deadline[rest[i]] \in Int
          /\ n \in Int /\ d \in Int /\ j \in Int /\ k \in Int
      BY <1>0, <1>2, <1>5, <1>6, <1>10
    <3>1. CASE j # n + 1 /\ k # n + 1
      <4>1. at(j) \in DOMAIN rest /\ at(k) \in DOMAIN rest /\ at(j) < at(k)
            /\ r[j] = rest[at(j)] /\ r[k] = rest[at(k)]
        BY <1>7, <2>3, <3>1
      <4>2. QED
        BY <2>2, <3>0, <4>1 DEF Sorted
    <3>2. CASE k = n + 1
      <4>1. j \in 1 .. n /\ j \in DOMAIN rest /\ r[j] = rest[j] /\ r[k] = t
        BY <1>4, <1>5, <1>7, <2>3, <3>2
      <4>2. QED
        BY <1>4, <1>10, <3>0, <4>1
    <3>3. CASE j = n + 1
      <4>1. k - 1 \in DOMAIN rest /\ n + 1 \in DOMAIN rest /\ n + 1 <= k - 1
            /\ r[k] = rest[k - 1] /\ r[j] = t /\ n < Len(rest)
        BY <1>4, <1>5, <1>7, <2>3, <3>0, <3>3
      <4>2. deadline[rest[n + 1]] <= deadline[rest[k - 1]]
        <5>1. CASE n + 1 = k - 1
          BY <3>0, <4>1, <5>1
        <5>2. CASE n + 1 < k - 1
          BY <2>2, <4>1, <5>2 DEF Sorted
        <5>3. QED
          BY <3>0, <4>1, <5>1, <5>2
      <4>3. d < deadline[rest[n + 1]]
        BY <1>4, <4>1
      <4>4. QED
        BY <1>10, <3>0, <4>1, <4>2, <4>3
    <3>4. QED
      BY <3>1, <3>2, <3>3
  <2>4. Sorted(list)'
    BY <1>3, <2>3 DEF Sorted
  <2>5. QED
    BY <2>1, <2>4
<1>14. QED
  BY <1>0, <1>3, <1>4, <1>8, <1>9, <1>10, <1>11, <1>12, <1>13

(* A timer leaves the list. *)
LEMMA RemoveFacts ==
  ASSUME TypeOK, ListIsProper, Ahead, Plain, NEW t \in Timers, Remove(t), UNCHANGED now
  PROVE  /\ list' = Without(list, t) /\ list' \in Seq(Timers) /\ Distinct(list')
         /\ \A u : In(list', u) <=> u # t /\ In(list, u)
         /\ deadline' \in [Timers -> 0 .. Ticks - 1] /\ left' \in [Timers -> Int]
         /\ crossed' \in BOOLEAN /\ Ahead' /\ Plain'
<1>0. /\ list \in Seq(Timers) /\ Distinct(list) /\ now \in 0 .. Ticks - 1
      /\ deadline \in [Timers -> Int] /\ deadline \in [Timers -> 0 .. Ticks - 1]
      /\ left \in [Timers -> Int] /\ crossed \in BOOLEAN
  BY Constants DEF TypeOK, ListIsProper, Distinct
<1>1. /\ list' = Without(list, t)
      /\ crossed' = (crossed /\ list' # <<>>)
      /\ deadline' = [deadline EXCEPT ![t] = 0] /\ left' = [left EXCEPT ![t] = 0]
  BY Zenon DEF Remove
<1>2. /\ list' \in Seq(Timers) /\ Distinct(list') /\ ~In(list', t)
      /\ \A u : u # t => (In(list', u) <=> In(list, u))
      /\ Sorted(list) => Sorted(list')
  BY <1>0, <1>1, WithoutFacts
<1>3. /\ deadline' \in [Timers -> 0 .. Ticks - 1] /\ left' \in [Timers -> Int]
      /\ left'[t] = 0
      /\ \A u \in Timers : u # t => deadline'[u] = deadline[u] /\ left'[u] = left[u]
  <2>1. 0 \in 0 .. Ticks - 1
    BY Constants
  <2>2. QED
    BY <1>0, <1>1, <2>1
<1>4. crossed' \in BOOLEAN
  BY <1>1, Zenon
<1>5. Ahead'
  <2> SUFFICES ASSUME NEW u \in Timers
               PROVE  /\ left'[u] <= Half /\ left'[u] >= 0 - MaxLate
                      /\ In(list', u) /\ left'[u] > 0 =>
                           deadline'[u] \in {now' + left'[u], now' + left'[u] - Ticks}
    BY DEF Ahead, Running, Half
  <2>1. CASE u = t
    BY <1>2, <1>3, <2>1, Constants
  <2>2. CASE u # t
    BY <1>2, <1>3, <2>2 DEF Ahead, Running
  <2>3. QED
    BY <2>1, <2>2
<1>6. Plain'
  <2> SUFFICES ASSUME ~crossed'
               PROVE  /\ Sorted(list)'
                      /\ \A u \in Timers : In(list', u) =>
                           /\ left'[u] >= deadline'[u] - now'
                           /\ left'[u] > 0 - MaxLate => left'[u] = deadline'[u] - now'
    BY DEF Plain, Running
  <2>1. ~crossed \/ list' = <<>>
    BY <1>1, Zenon
  <2>2. CASE list' = <<>>
    BY <2>2 DEF Sorted, In
  <2>3. CASE ~crossed
    <3>1. ASSUME NEW u \in Timers, In(list', u)
          PROVE  /\ left'[u] >= deadline'[u] - now'
                 /\ left'[u] > 0 - MaxLate => left'[u] = deadline'[u] - now'
      BY <1>2, <1>3, <2>3, <3>1 DEF Plain, Running
    <3>2. Sorted(list')
      BY <1>2, <2>3 DEF Plain
    <3>3. ASSUME NEW j \in DOMAIN list', NEW k \in DOMAIN list', j < k
          PROVE  deadline'[list'[j]] <= deadline'[list'[k]]
      <4>1. list'[j] # t /\ list'[k] # t
        BY <1>2 DEF In
      <4>2. list'[j] \in Timers /\ list'[k] \in Timers
        BY <1>2, ElementOfSeq, LenProperties
      <4>3. QED
        BY <1>3, <3>2, <3>3, <4>1, <4>2 DEF Sorted
    <3>4. QED
      BY <3>1, <3>3 DEF Sorted
  <2>4. QED
    BY <2>1, <2>2, <2>3
<1>7. QED
  BY <1>1, <1>2, <1>3, <1>4, <1>5, <1>6

-----------------------------------------------------------------------------
LEMMA InvInit == Init => IInv
<1> SUFFICES ASSUME Init PROVE IInv
  OBVIOUS
<1>1. list = <<>> /\ list \in Seq(Timers) /\ DOMAIN list = {}
  BY EmptySeq DEF Init
<1>2. TypeOK
  <2>1. 0 \in 0 .. Ticks - 1 /\ 0 \in 0 .. Lag
    BY Constants
  <2>2. deadline \in [Timers -> 0 .. Ticks - 1] /\ left \in [Timers -> Int]
    BY <2>1 DEF Init
  <2>3. /\ now \in 0 .. Ticks - 1 /\ pc \in {"idle", "pass", "crashed"}
        /\ slot \in Timers \cup {HEAD} /\ lag \in 0 .. Lag /\ crossed \in BOOLEAN
    BY <2>1 DEF Init
  <2>4. QED
    BY <1>1, <2>2, <2>3 DEF TypeOK
<1>3. ListIsProper /\ IdleAtHead /\ OffNull
  BY <1>1 DEF Init, ListIsProper, IdleAtHead, OffNull
<1>4. Ahead /\ Plain
  BY <1>1, Constants DEF Init, Ahead, Plain, Running, In, Sorted
<1>5. QED
  BY <1>2, <1>3, <1>4 DEF IInv

LEMMA StartStep ==
  ASSUME IInv, NEW t \in Timers, Start(t)
  PROVE  IInv'
<1>1. StartTimer(list, t, Delay[t]) /\ UNCHANGED <<now, pc, slot, lag>> /\ pc = "idle"
  BY DEF Start
<1>2. Delay[t] \in 1 .. Half
  BY Constants
<1>3. /\ list' \in Seq(Timers) /\ Distinct(list')
      /\ deadline' \in [Timers -> 0 .. Ticks - 1] /\ left' \in [Timers -> Int]
      /\ crossed' \in BOOLEAN /\ Ahead' /\ Plain'
  BY <1>1, <1>2, StartFacts DEF IInv
<1>4. slot = HEAD
  BY <1>1 DEF IInv, IdleAtHead
<1>5. TypeOK'
  BY <1>1, <1>3 DEF IInv, TypeOK
<1>6. ListIsProper' /\ IdleAtHead' /\ OffNull'
  BY <1>1, <1>3, <1>4 DEF ListIsProper, IdleAtHead, OffNull, Distinct
<1>7. QED
  BY <1>3, <1>5, <1>6 DEF IInv

LEMMA StopStep ==
  ASSUME IInv, NEW t \in Timers, Stop(t)
  PROVE  IInv'
<1>1. Remove(t) /\ UNCHANGED <<now, pc, slot, lag>> /\ pc = "idle"
  BY DEF Stop
<1>2. /\ list' \in Seq(Timers) /\ Distinct(list')
      /\ deadline' \in [Timers -> 0 .. Ticks - 1] /\ left' \in [Timers -> Int]
      /\ crossed' \in BOOLEAN /\ Ahead' /\ Plain'
  BY <1>1, RemoveFacts DEF IInv
<1>3. slot = HEAD
  BY <1>1 DEF IInv, IdleAtHead
<1>4. TypeOK'
  BY <1>1, <1>2 DEF IInv, TypeOK
<1>5. ListIsProper' /\ IdleAtHead' /\ OffNull'
  BY <1>1, <1>2, <1>3 DEF ListIsProper, IdleAtHead, OffNull, Distinct
<1>6. QED
  BY <1>2, <1>4, <1>5 DEF IInv

LEMMA PassEdges ==
  ASSUME IInv, PassBegin \/ PassEnd
  PROVE  IInv'
<1>1. /\ UNCHANGED <<list, deadline, now, left, crossed>>
      /\ slot' = HEAD /\ pc' \in {"idle", "pass"} /\ (lag' = lag \/ lag' = 0)
  BY DEF PassBegin, PassEnd
<1>2. TypeOK'
  BY <1>1, Constants DEF IInv, TypeOK
<1>3. ListIsProper' /\ IdleAtHead' /\ OffNull'
  BY <1>1 DEF IInv, ListIsProper, IdleAtHead, OffNull
<1>4. Ahead' /\ Plain'
  BY <1>1 DEF IInv, Ahead, Plain, Running, Sorted, Half
<1>5. QED
  BY <1>2, <1>3, <1>4 DEF IInv

LEMMA TickStep ==
  ASSUME IInv, Tick
  PROVE  IInv'
<1>0. /\ now \in 0 .. Ticks - 1 /\ left \in [Timers -> Int] /\ deadline \in [Timers -> 0 .. Ticks - 1]
      /\ lag \in 0 .. Lag /\ crossed \in BOOLEAN
  BY DEF IInv, TypeOK
<1>1. /\ UNCHANGED <<list, deadline, pc, slot>> /\ lag' = lag + 1 /\ lag < Lag
      /\ now' = (now + 1) % Ticks
      /\ crossed' = (crossed \/ (now' = 0 /\ list # <<>>))
      /\ left' = [t \in Timers |-> IF Running(t) /\ left[t] > 0 - MaxLate THEN left[t] - 1 ELSE left[t]]
  BY Zenon DEF Tick
<1>2. \/ now' = now + 1 /\ now + 1 < Ticks
      \/ now' = 0 /\ now + 1 = Ticks
  <2>1. CASE now + 1 < Ticks
    <3>1. now + 1 \in 0 .. Ticks - 1
      BY <1>0, <2>1, Constants
    <3>2. QED
      BY <1>1, <2>1, <3>1, ModOnce, Constants
  <2>2. CASE now + 1 = Ticks
    <3>1. Ticks \in Ticks .. 2 * Ticks - 1
      BY Constants
    <3>2. Ticks % Ticks = Ticks - Ticks
      BY <3>1, ModOnce, Constants
    <3>3. QED
      BY <1>1, <2>2, <3>2, Constants
  <2>3. QED
    BY <1>0, <2>1, <2>2, Constants
<1>3. \A t \in Timers : left'[t] = IF Running(t) /\ left[t] > 0 - MaxLate THEN left[t] - 1 ELSE left[t]
  BY <1>1
<1>4. TypeOK'
  <2>1. now' \in 0 .. Ticks - 1
    BY <1>0, <1>2, Constants
  <2>2. left' \in [Timers -> Int]
    BY <1>0, <1>1
  <2>3. crossed' \in BOOLEAN
    BY <1>1, Zenon
  <2>4. lag' \in 0 .. Lag
    BY <1>0, <1>1, Constants
  <2>5. QED
    BY <1>1, <2>1, <2>2, <2>3, <2>4 DEF IInv, TypeOK
<1>5. ListIsProper' /\ IdleAtHead'
  BY <1>1 DEF IInv, ListIsProper, IdleAtHead, Running
<1>6. OffNull'
  BY <1>1 DEF IInv, OffNull
<1>7. Ahead'
  <2> SUFFICES ASSUME NEW t \in Timers
               PROVE  /\ left'[t] <= Half /\ left'[t] >= 0 - MaxLate
                      /\ In(list', t) /\ left'[t] > 0 =>
                           deadline'[t] \in {now' + left'[t], now' + left'[t] - Ticks}
    BY DEF Ahead, Running, Half
  <2>1. left[t] \in Int /\ left[t] <= Half /\ left[t] >= 0 - MaxLate
    BY <1>0 DEF IInv, Ahead
  <2>2. left'[t] <= Half /\ left'[t] >= 0 - MaxLate
    BY <1>3, <2>1, Constants
  <2>3. ASSUME In(list', t), left'[t] > 0
        PROVE  deadline'[t] \in {now' + left'[t], now' + left'[t] - Ticks}
    <3>1. Running(t) /\ left[t] > 0 /\ left'[t] = left[t] - 1
      BY <1>1, <1>3, <2>1, <2>3, Constants DEF Running
    <3>2. deadline[t] \in {now + left[t], now + left[t] - Ticks} /\ deadline[t] \in 0 .. Ticks - 1
      BY <1>0, <3>1 DEF IInv, Ahead
    <3>3. deadline'[t] = deadline[t] /\ Ticks \in Nat /\ now \in Int
      BY <1>0, <1>1, Constants
    <3>4. CASE now' = now + 1
      BY <2>1, <3>1, <3>2, <3>3, <3>4
    <3>5. CASE now' = 0 /\ now + 1 = Ticks
      <4>1. left[t] >= 2
        BY <2>1, <2>3, <3>1
      <4>2. deadline[t] # now + left[t]
        BY <2>1, <3>2, <3>3, <3>5, <4>1
      <4>3. deadline[t] = now + left[t] - Ticks
        BY <3>2, <4>2
      <4>4. deadline'[t] = now' + left'[t]
        BY <2>1, <3>1, <3>3, <3>5, <4>3
      <4>5. QED
        BY <4>4
    <3>6. QED
      BY <1>2, <3>4, <3>5
  <2>4. QED
    BY <2>2, <2>3
<1>8. Plain'
  <2> SUFFICES ASSUME ~crossed'
               PROVE  /\ Sorted(list)'
                      /\ \A t \in Timers : In(list', t) =>
                           /\ left'[t] >= deadline'[t] - now'
                           /\ left'[t] > 0 - MaxLate => left'[t] = deadline'[t] - now'
    BY DEF Plain, Running
  <2>1. ~crossed /\ ~(now' = 0 /\ list # <<>>)
    BY <1>1, Zenon
  <2>2. Sorted(list)'
    BY <1>1, <2>1 DEF IInv, Plain, Sorted
  <2>3. ASSUME NEW t \in Timers, In(list', t)
        PROVE  /\ left'[t] >= deadline'[t] - now'
               /\ left'[t] > 0 - MaxLate => left'[t] = deadline'[t] - now'
    <3>1. Running(t)
      BY <1>1, <2>3 DEF Running
    <3>2. list # <<>>
      BY <3>1 DEF Running, In
    <3>3. now' = now + 1
      BY <1>2, <2>1, <3>2
    <3>4. /\ left[t] >= deadline[t] - now
          /\ left[t] > 0 - MaxLate => left[t] = deadline[t] - now
          /\ left[t] >= 0 - MaxLate
      BY <2>1, <3>1 DEF IInv, Plain, Ahead
    <3>5. deadline'[t] = deadline[t] /\ deadline[t] \in Int /\ left[t] \in Int /\ MaxLate \in Int
          /\ now \in Int
      BY <1>0, <1>1, Constants
    <3>6. QED
      BY <1>3, <3>1, <3>3, <3>4, <3>5
  <2>4. QED
    BY <2>2, <2>3
<1>9. QED
  BY <1>4, <1>5, <1>6, <1>7, <1>8 DEF IInv

(* Where the loop goes after a call, for a slot that is still in the list.  *)
LEMMA AdvanceFacts ==
  ASSUME TypeOK, list' \in Seq(Timers), Distinct(list'), slot # HEAD => In(list', slot),
         pc = "pass", NEW b, Advance(b)
  PROVE  /\ pc' \in {"idle", "pass", "crashed"} /\ slot' \in Timers \cup {HEAD} /\ lag' \in 0 .. Lag
         /\ pc' = "idle" => slot' = HEAD
         /\ slot' # HEAD => In(list', slot')
         /\ pc' = "crashed" => b # NULL /\ NextOf(list', slot) = NULL
<1>0. slot \in Timers \cup {HEAD} /\ lag \in 0 .. Lag /\ 0 \in 0 .. Lag
  BY Constants DEF TypeOK
<1>1. CASE b = NULL
  <2>1. pc' = "idle" /\ lag' = 0 /\ slot' = HEAD
    BY <1>1 DEF Advance
  <2>2. QED
    BY <1>0, <2>1
<1>2. CASE b # NULL /\ NextOf(list', slot) = NULL
  <2>1. pc' = "crashed" /\ slot' = slot /\ lag' = lag
    BY <1>2 DEF Advance
  <2>2. QED
    BY <1>0, <1>2, <2>1
<1>3. CASE b # NULL /\ NextOf(list', slot) # NULL
  <2>1. pc' = pc /\ slot' = NextOf(list', slot) /\ lag' = lag
    BY <1>3 DEF Advance
  <2>2. NextOf(list', slot) \in Timers /\ In(list', NextOf(list', slot))
    <3>1. PICK i \in 0 .. Len(list') :
            /\ i < Len(list') => NextOf(list', slot) \in Timers /\ In(list', NextOf(list', slot))
            /\ i = Len(list') => NextOf(list', slot) = NULL
      BY <1>0, NextFacts
    <3>2. Len(list') \in Nat
      BY LenProperties
    <3>3. i < Len(list') \/ i = Len(list')
      BY <3>2
    <3>4. QED
      BY <1>3, <3>1, <3>3
  <2>3. QED
    BY <1>0, <2>1, <2>2
<1>4. QED
  BY <1>1, <1>2, <1>3

(* The entry of the loop is in the list, right behind the slot. *)
LEMMA EntryFacts ==
  ASSUME TypeOK, ListIsProper, Entry # NULL
  PROVE  /\ Entry \in Timers /\ In(list, Entry) /\ Entry # slot
         /\ slot # HEAD => \E p \in DOMAIN list :
              p + 1 \in DOMAIN list /\ list[p] = slot /\ list[p + 1] = Entry
<1>1. /\ list \in Seq(Timers) /\ Distinct(list) /\ slot \in Timers \cup {HEAD}
      /\ slot # HEAD => In(list, slot)
  BY DEF TypeOK, ListIsProper, Distinct, Running
<1> DEFINE n == Len(list)
<1>2. n \in Nat /\ DOMAIN list = 1 .. n
  BY <1>1, LenProperties
<1>3. PICK i \in 0 .. n :
        /\ i = 0 <=> slot = HEAD
        /\ i > 0 => list[i] = slot
        /\ i < n => /\ Entry = list[i + 1] /\ Entry \in Timers
                    /\ Entry # slot /\ In(list, Entry)
        /\ i = n => Entry = NULL
  BY <1>1, NextFacts DEF Entry
<1> HIDE DEF n
<1>4. i < n
  BY <1>2, <1>3
<1>5. slot # HEAD => i \in DOMAIN list /\ i + 1 \in DOMAIN list /\ list[i] = slot
  BY <1>2, <1>3, <1>4
<1>6. QED
  BY <1>3, <1>4, <1>5

(* A timer that is started anew in its callback stays behind the slot, as   *)
(* long as nothing has wrapped: its new deadline is later than the slot's.  *)
LEMMA RestartBehind ==
  ASSUME IInv, pc = "pass", EntryDue, NEW a \in 1 .. Half,
         StartTimer(Without(list, Entry), Entry, a), UNCHANGED now, ~crossed',
         NEW i \in DOMAIN list', NEW j \in DOMAIN list', list'[i] = Entry, list'[j] = slot, i < j
  PROVE  FALSE
<1> DEFINE e == Entry
<1>0. /\ TypeOK /\ ListIsProper /\ Ahead /\ Plain /\ list \in Seq(Timers) /\ Distinct(list)
      /\ slot \in Timers \cup {HEAD} /\ (slot # HEAD => In(list, slot))
      /\ deadline \in [Timers -> 0 .. Ticks - 1] /\ now \in Int
  BY Constants DEF IInv, TypeOK, ListIsProper, Distinct, Running
<1>1. /\ e # NULL /\ e \in Timers /\ In(list, e) /\ e # slot /\ e # HEAD
      /\ slot # HEAD => \E p \in DOMAIN list :
           p + 1 \in DOMAIN list /\ list[p] = slot /\ list[p + 1] = e
      /\ Due(e)
  BY <1>0, EntryFacts, Constants DEF EntryDue
<1>2. StartTimer(Without(list, e), e, a) /\ list'[i] = e
  OBVIOUS
<1> HIDE DEF e
<1>3. Without(Without(list, e), e) = Without(list, e)
  <2>1. Without(list, e) \in Seq(Timers) /\ Distinct(Without(list, e)) /\ ~In(Without(list, e), e)
    BY <1>0, WithoutFacts
  <2>2. QED
    BY <2>1, WithoutFacts
<1>4. /\ list' \in Seq(Timers) /\ deadline' \in [Timers -> 0 .. Ticks - 1] /\ Plain'
      /\ deadline'[e] > now
      /\ \A u \in Timers : u # e => deadline'[u] = deadline[u]
      /\ \A u : ~crossed \/ u = e \/ ~In(list, u)
  BY <1>0, <1>1, <1>2, <1>3, StartFacts
<1>5. slot # HEAD
  BY <1>4, ElementOfSeq, LenProperties, Constants
<1>6. deadline'[e] <= deadline'[slot]
  <2>1. Sorted(list)'
    BY <1>4 DEF Plain
  <2>2. QED
    BY <1>2, <2>1 DEF Sorted
<1>7. slot \in Timers /\ deadline[slot] > now
  <2>1. slot \in Timers /\ slot # e
    BY <1>0, <1>1, <1>5
  <2>2. deadline'[slot] = deadline[slot]
    BY <1>4, <2>1
  <2>3. deadline'[e] \in Int /\ deadline[slot] \in Int
    BY <1>0, <1>1, <1>4, <2>1
  <2>4. QED
    BY <1>0, <1>4, <1>6, <2>1, <2>2, <2>3
<1>8. ~crossed
  BY <1>0, <1>1, <1>4, <1>5
<1>9. deadline[slot] <= deadline[e]
  <2>1. PICK p \in DOMAIN list : p + 1 \in DOMAIN list /\ list[p] = slot /\ list[p + 1] = e
    BY <1>1, <1>5
  <2>2. p < p + 1
    BY <1>0, <2>1, LenProperties
  <2>3. Sorted(list)
    BY <1>0, <1>8 DEF Plain
  <2>4. QED
    BY <2>1, <2>2, <2>3 DEF Sorted
<1>10. left[e] >= deadline[e] - now
  BY <1>0, <1>1, <1>8 DEF Plain, Running
<1>11. left[e] <= 0
  BY <1>0, <1>1, DueIsDue DEF Running
<1>12. left[e] \in Int /\ deadline[e] \in Int /\ deadline[slot] \in Int
  BY <1>0, <1>1, <1>7 DEF TypeOK
<1>13. QED
  BY <1>0, <1>7, <1>9, <1>10, <1>11, <1>12

(* So it does not send the loop through a null pointer. *)
LEMMA RestartOffNull ==
  ASSUME IInv, pc = "pass", EntryDue, NEW a \in 1 .. Half,
         StartTimer(Without(list, Entry), Entry, a), UNCHANGED now,
         NextOf(list', Entry) # NULL, NextOf(list', slot) = NULL, ~crossed'
  PROVE  FALSE
<1> DEFINE e == Entry
<1>0. /\ TypeOK /\ ListIsProper /\ Ahead /\ Plain /\ list \in Seq(Timers) /\ Distinct(list)
      /\ slot \in Timers \cup {HEAD} /\ (slot # HEAD => In(list, slot))
  BY Constants DEF IInv, TypeOK, ListIsProper, Distinct, Running
<1>1. e \in Timers /\ e # HEAD
  BY <1>0, EntryFacts, Constants DEF EntryDue
<1>2. /\ StartTimer(Without(list, e), e, a)
      /\ NextOf(list', e) # NULL
  OBVIOUS
<1>3. ASSUME NEW i \in DOMAIN list', NEW j \in DOMAIN list', list'[i] = e, list'[j] = slot, i < j
      PROVE  FALSE
  BY <1>3, RestartBehind
<1> HIDE DEF e
<1>4. Without(Without(list, e), e) = Without(list, e)
  <2>1. Without(list, e) \in Seq(Timers) /\ Distinct(Without(list, e)) /\ ~In(Without(list, e), e)
    BY <1>0, WithoutFacts
  <2>2. QED
    BY <2>1, WithoutFacts
<1>5. /\ list' \in Seq(Timers) /\ Distinct(list') /\ In(list', e)
      /\ \A u : In(list', u) <=> u = e \/ In(list, u)
  BY <1>0, <1>1, <1>2, <1>4, StartFacts
<1> DEFINE n == Len(list')
<1>6. n \in Nat /\ DOMAIN list' = 1 .. n
  BY <1>5, LenProperties
<1>7. PICK i \in 0 .. n :
        (i = 0 <=> e = HEAD) /\ (i > 0 => list'[i] = e) /\ (i = n => NextOf(list', e) = NULL)
  <2>1. list' \in Seq(Timers) /\ Distinct(list') /\ e \in Timers \cup {HEAD} /\ In(list', e)
    BY <1>1, <1>5
  <2>2. QED
    BY <2>1, NextFacts
<1> HIDE DEF n
<1>8. i \in 1 .. n /\ i < n /\ list'[i] = e
  BY <1>1, <1>2, <1>6, <1>7
<1>9. PICK j \in 0 .. n :
        /\ j = 0 <=> slot = HEAD
        /\ j > 0 => list'[j] = slot
        /\ j < n => NextOf(list', slot) # NULL
  <2>1. slot # HEAD => In(list', slot)
    BY <1>0, <1>5
  <2>2. QED
    BY <1>0, <1>5, <2>1, NextFacts DEF n
<1>10. j = n /\ j > 0 /\ list'[j] = slot /\ i < j
  BY <1>6, <1>8, <1>9
<1>11. QED
  BY <1>3, <1>6, <1>8, <1>10

(* Nor does a timer that leaves the list: the one behind it takes its place. *)
LEMMA RemoveOffNull ==
  ASSUME IInv, pc = "pass", EntryDue, list' = Without(list, Entry),
         NextOf(list, Entry) # NULL, NextOf(list', slot) = NULL
  PROVE  FALSE
<1> DEFINE e == Entry
           b == NextOf(list, e)
<1>0. /\ TypeOK /\ ListIsProper /\ list \in Seq(Timers) /\ Distinct(list)
      /\ slot \in Timers \cup {HEAD} /\ (slot # HEAD => In(list, slot))
  BY DEF IInv, TypeOK, ListIsProper, Distinct, Running
<1>1. /\ e \in Timers /\ In(list, e) /\ e # slot /\ e # HEAD
      /\ slot # HEAD => \E p \in DOMAIN list :
           p + 1 \in DOMAIN list /\ list[p] = slot /\ list[p + 1] = e
  BY <1>0, EntryFacts, Constants DEF EntryDue
<1>2. list' = Without(list, e) /\ b # NULL /\ b = NextOf(list, e)
  OBVIOUS
<1> HIDE DEF e, b
<1> DEFINE k == Len(list)
           n == Len(list')
<1>3. k \in Nat /\ DOMAIN list = 1 .. k
  BY <1>0, LenProperties
<1>4. PICK i \in 0 .. k :
        /\ i = 0 <=> e = HEAD
        /\ i > 0 => list[i] = e
        /\ i < k => b = list[i + 1] /\ b # e /\ In(list, b)
        /\ i = k => b = NULL
  BY <1>0, <1>1, <1>2, NextFacts
<1> HIDE DEF k, n
<1>5. i \in DOMAIN list /\ list[i] = e /\ i + 1 \in DOMAIN list /\ b = list[i + 1] /\ b # e /\ In(list, b)
  BY <1>1, <1>2, <1>3, <1>4
<1>6. /\ list' \in Seq(Timers) /\ Distinct(list')
      /\ \A u : u # e => (In(list', u) <=> In(list, u))
      /\ \A x, y \in DOMAIN list :
           x < y /\ list[x] # e /\ list[y] # e =>
             \E u, v \in DOMAIN list' : u < v /\ list'[u] = list[x] /\ list'[v] = list[y]
  BY <1>0, <1>2, WithoutFacts
<1>7. n \in Nat /\ DOMAIN list' = 1 .. n
  BY <1>6, LenProperties DEF n
<1>8. PICK j \in 0 .. n :
        /\ j = 0 <=> slot = HEAD
        /\ j > 0 => list'[j] = slot
        /\ j < n => NextOf(list', slot) # NULL
  <2>1. slot # HEAD => In(list', slot)
    BY <1>0, <1>1, <1>6
  <2>2. QED
    BY <1>0, <1>6, <2>1, NextFacts DEF n
<1>9. j = n
  BY <1>7, <1>8
<1>10. In(list', b)
  BY <1>5, <1>6
<1>11. slot # HEAD /\ j \in DOMAIN list' /\ list'[j] = slot
  <2>1. DOMAIN list' # {}
    BY <1>10 DEF In
  <2>2. QED
    BY <1>7, <1>8, <1>9, <2>1
<1>12. PICK p \in DOMAIN list : p + 1 \in DOMAIN list /\ list[p] = slot /\ list[p + 1] = e
  BY <1>1, <1>11
<1>13. p + 1 = i
  BY <1>0, <1>5, <1>12 DEF Distinct
<1>14. p < i + 1
  BY <1>3, <1>12, <1>13
<1>15. PICK m \in DOMAIN list', v \in DOMAIN list' : m < v /\ list'[m] = slot
  BY <1>1, <1>5, <1>6, <1>12, <1>14
<1>16. m = j
  BY <1>6, <1>11, <1>15 DEF Distinct
<1>17. QED
  BY <1>7, <1>9, <1>15, <1>16

LEMMA CallStep ==
  ASSUME IInv, PassCall
  PROVE  IInv'
<1> DEFINE e == Entry
           rest == Without(list, e)
<1>0. /\ TypeOK /\ ListIsProper /\ Ahead /\ Plain /\ list \in Seq(Timers) /\ Distinct(list)
      /\ (slot # HEAD => In(list, slot))
  BY DEF IInv, TypeOK, ListIsProper, Distinct, Running
<1>1. pc = "pass" /\ EntryDue /\ UNCHANGED now
  BY DEF PassCall
<1>2. e \in Timers /\ In(list, e) /\ e # slot
  BY <1>0, <1>1, EntryFacts DEF EntryDue
<1>3. \/ \E a \in {Period[e], Delay[e]} :
           (a = Period[e] => Period[e] # 0 \/ a = Delay[e]) /\ StartTimer(rest, e, a) /\ Advance(NextOf(list', e))
      \/ Remove(e) /\ Advance(NextOf(list, e))
  BY Zenon DEF PassCall
<1>4. ASSUME /\ list' \in Seq(Timers) /\ Distinct(list')
             /\ deadline' \in [Timers -> 0 .. Ticks - 1] /\ left' \in [Timers -> Int]
             /\ crossed' \in BOOLEAN /\ Ahead' /\ Plain'
             /\ \A u : u # e => (In(list', u) <=> In(list, u)),
             NEW b, Advance(b),
             ~crossed' => ~(b # NULL /\ NextOf(list', slot) = NULL)
      PROVE  IInv'
  <2>1. slot # HEAD => In(list', slot)
    BY <1>0, <1>2, <1>4
  <2>2. /\ pc' \in {"idle", "pass", "crashed"} /\ slot' \in Timers \cup {HEAD} /\ lag' \in 0 .. Lag
        /\ pc' = "idle" => slot' = HEAD
        /\ slot' # HEAD => In(list', slot')
        /\ pc' = "crashed" => b # NULL /\ NextOf(list', slot) = NULL
    BY <1>0, <1>1, <1>4, <2>1, AdvanceFacts
  <2>3. now' \in 0 .. Ticks - 1
    BY <1>0, <1>1 DEF TypeOK
  <2>4. TypeOK'
    BY <1>4, <2>2, <2>3 DEF TypeOK
  <2>5. ListIsProper' /\ IdleAtHead'
    BY <1>4, <2>2 DEF ListIsProper, IdleAtHead, Distinct, Running
  <2>6. OffNull'
    BY <1>4, <2>2 DEF OffNull
  <2>7. QED
    BY <1>4, <2>4, <2>5, <2>6 DEF IInv
<1>5. CASE \E a \in {Period[e], Delay[e]} :
             (a = Period[e] => Period[e] # 0 \/ a = Delay[e]) /\ StartTimer(rest, e, a) /\ Advance(NextOf(list', e))
  <2>1. PICK a \in {Period[e], Delay[e]} :
          (a = Period[e] => Period[e] # 0 \/ a = Delay[e]) /\ StartTimer(rest, e, a) /\ Advance(NextOf(list', e))
    BY <1>5
  <2>2. a \in 1 .. Half
    BY <1>2, <2>1, Constants
  <2>3. ~crossed' => ~(NextOf(list', e) # NULL /\ NextOf(list', slot) = NULL)
    BY <1>1, <2>1, <2>2, RestartOffNull
  <2> HIDE DEF e
  <2>4. Without(rest, e) = Without(list, e)
    <3>1. rest \in Seq(Timers) /\ Distinct(rest) /\ ~In(rest, e)
      BY <1>0, WithoutFacts
    <3>2. QED
      BY <3>1, WithoutFacts
  <2>5. /\ list' \in Seq(Timers) /\ Distinct(list')
        /\ \A u : In(list', u) <=> u = e \/ In(list, u)
        /\ deadline' \in [Timers -> 0 .. Ticks - 1] /\ left' \in [Timers -> Int]
        /\ crossed' \in BOOLEAN /\ Ahead' /\ Plain'
    <3> HIDE DEF rest
    <3>1. Without(rest, e) = Without(list, e) /\ StartTimer(rest, e, a)
      BY <2>1, <2>4
    <3>2. QED
      BY <1>0, <1>1, <1>2, <2>2, <3>1, StartFacts
  <2>6. QED
    BY <1>4, <2>1, <2>3, <2>5
<1>6. CASE Remove(e) /\ Advance(NextOf(list, e))
  <2>1. list' = Without(list, e)
    BY <1>6 DEF Remove
  <2>2. ~(NextOf(list, e) # NULL /\ NextOf(list', slot) = NULL)
    BY <1>1, <2>1, RemoveOffNull
  <2> HIDE DEF e
  <2>3. /\ list' \in Seq(Timers) /\ Distinct(list')
        /\ \A u : In(list', u) <=> u # e /\ In(list, u)
        /\ deadline' \in [Timers -> 0 .. Ticks - 1] /\ left' \in [Timers -> Int]
        /\ crossed' \in BOOLEAN /\ Ahead' /\ Plain'
    BY <1>0, <1>1, <1>2, <1>6, RemoveFacts
  <2>4. QED
    BY <1>4, <1>6, <2>2, <2>3
<1>7. QED
  BY <1>3, <1>5, <1>6

LEMMA InvNext == IInv /\ [Next]_vars => IInv'
<1> SUFFICES ASSUME IInv, [Next]_vars PROVE IInv'
  OBVIOUS
<1>1. ASSUME NEW t \in Timers, Start(t) PROVE IInv'
  BY <1>1, StartStep
<1>2. ASSUME NEW t \in Timers, Stop(t) PROVE IInv'
  BY <1>2, StopStep
<1>3. CASE PassBegin \/ PassEnd
  BY <1>3, PassEdges
<1>4. CASE PassCall
  BY <1>4, CallStep
<1>5. CASE Tick
  BY <1>5, TickStep
<1>6. CASE UNCHANGED vars
  <2>1. UNCHANGED <<list, deadline, now, pc, slot, lag, left, crossed>>
    BY <1>6 DEF vars
  <2>2. TypeOK' /\ ListIsProper' /\ IdleAtHead' /\ OffNull'
    BY <2>1 DEF IInv, TypeOK, ListIsProper, IdleAtHead, OffNull, Running
  <2>3. Ahead' /\ Plain'
    BY <2>1 DEF IInv, Ahead, Plain, Running, Sorted, Half
  <2>4. QED
    BY <2>2, <2>3 DEF IInv
<1>7. QED
  BY <1>1, <1>2, <1>3, <1>4, <1>5, <1>6 DEF Next, Yield

(* The inductive invariant holds in every reachable state. *)
THEOREM InductiveInvariant == Spec => []IInv
<1>1. QED
  BY InvInit, InvNext, PTL DEF Spec

-----------------------------------------------------------------------------
(* Every variable of the timers has its type. *)
THEOREM TypeCorrect == Spec => []TypeOK
<1>1. IInv => TypeOK
  BY DEF IInv
<1>2. QED
  BY <1>1, InductiveInvariant, PTL

(* However timers are started, stopped and restarted from callbacks, no     *)
(* timer is in the list twice and the pass is at one of its fields.         *)
THEOREM ProperCorrect == Spec => []ListIsProper
<1>1. IInv => ListIsProper
  BY DEF IInv
<1>2. QED
  BY <1>1, InductiveInvariant, PTL

(* Until the counter or a deadline wraps under running timers, no timer     *)
(* stands before one that is due earlier, and MultiTimerYield never steps   *)
(* through a null pointer (MultiTimer.c:132 relies on the order).           *)
THEOREM SortedCorrect == Spec => []SortedUntilWrap
<1>1. IInv => SortedUntilWrap
  <2> SUFFICES ASSUME IInv, ~crossed
               PROVE  /\ \A i, j \in DOMAIN list : i < j => left[list[i]] <= left[list[j]]
                      /\ pc # "crashed"
    BY DEF SortedUntilWrap
  <2>1. ASSUME NEW i \in DOMAIN list, NEW j \in DOMAIN list, i < j
        PROVE  left[list[i]] <= left[list[j]]
    <3> DEFINE t == list[i]
               u == list[j]
    <3>1. t \in Timers /\ u \in Timers /\ Running(t) /\ Running(u)
      BY <2>1, ElementOfSeq, LenProperties DEF IInv, TypeOK, Running, In
    <3>2. deadline[t] <= deadline[u]
      BY <2>1 DEF IInv, Plain, Sorted
    <3> HIDE DEF t, u
    <3>3. /\ left[t] \in Int /\ left[u] \in Int /\ deadline[t] \in Int /\ deadline[u] \in Int
          /\ now \in Int /\ MaxLate \in Int
      BY <3>1, Constants DEF IInv, TypeOK
    <3>4. /\ left[t] > 0 - MaxLate => left[t] = deadline[t] - now
          /\ left[u] >= deadline[u] - now /\ left[u] >= 0 - MaxLate
      BY <3>1 DEF IInv, Plain, Ahead
    <3>5. left[t] <= left[u]
      BY <3>2, <3>3, <3>4
    <3>6. QED
      BY <3>5 DEF t, u
  <2>2. pc # "crashed"
    BY DEF IInv, OffNull
  <2>3. QED
    BY <2>1, <2>2
<1>2. QED
  BY <1>1, InductiveInvariant, PTL

(* No timer is called before its time, on whichever side of the counter's   *)
(* wrap its deadline lies.                                                  *)
THEOREM NeverEarlyCorrect == Spec => NeverEarly
<1>1. IInv /\ [Next]_vars => [PassCall => left[Entry] <= 0]_vars
  <2> SUFFICES ASSUME IInv, PassCall PROVE left[Entry] <= 0
    OBVIOUS
  <2>1. TypeOK /\ ListIsProper /\ Ahead /\ Entry # NULL /\ Due(Entry)
    BY DEF IInv, PassCall, EntryDue
  <2>2. Entry \in Timers /\ In(list, Entry)
    BY <2>1, EntryFacts
  <2> DEFINE e == Entry
  <2>3. e \in Timers /\ Running(e) /\ Due(e)
    BY <2>1, <2>2 DEF Running
  <2> HIDE DEF e
  <2>4. left[e] <= 0
    BY <2>1, <2>3, DueIsDue
  <2>5. QED
    BY <2>4 DEF e
<1>2. QED
  BY <1>1, InductiveInvariant, PTL DEF Spec, NeverEarly

-----------------------------------------------------------------------------
(* How late a timer can be.  A pass calls at least the first timer when it  *)
(* is due, which then goes behind every other timer that is due; so passes  *)
(* still to come before a late timer's turn are no more than the timers     *)
(* ahead of it, and its turn comes within Lag ticks a pass.                 *)

N == Cardinality(Timers)

(* The passes that may still end before the timer at place i is called, but *)
(* for the one that is under way: it has called a timer when the slot has   *)
(* left the head.                                                           *)
Waits(i) == IF slot = HEAD THEN N - i ELSE IF i < N THEN N - i - 1 ELSE 0

OnTime ==
  ~crossed =>
    /\ \A i \in 1 .. Len(list) : list[i] = slot => i < N
    /\ \A i \in 1 .. Len(list) : now - deadline[list[i]] <= lag + Lag * Waits(i)

LEMMA Times ==
  ASSUME NEW a \in Nat, NEW b \in Nat
  PROVE  /\ Lag * a \in Nat /\ Lag * (a + 1) = Lag * a + Lag
         /\ a <= b => Lag * a <= Lag * b
<1>1. Lag \in Nat
  BY Constants
<1>2. Lag * a \in Nat /\ Lag * (a + 1) = Lag * a + Lag
  BY <1>1
<1>3. ASSUME a <= b PROVE Lag * a <= Lag * b
  <2>1. PICK c \in Nat : b = a + c
    <3>1. b - a \in Nat /\ b = a + (b - a)
      BY <1>3
    <3>2. QED
      BY <3>1
  <2>2. Lag * c \in Nat /\ Lag * b = Lag * a + Lag * c
    BY <1>1, <2>1
  <2>3. QED
    BY <1>2, <2>2
<1>4. QED
  BY <1>2, <1>3

(* Where each timer of a list without t was before: no nearer to the head,  *)
(* and farther from it when it stood behind t.                              *)
LEMMA WithoutPlaces ==
  ASSUME NEW l \in Seq(Timers), Distinct(l), NEW t
  PROVE  /\ Len(Without(l, t)) = Len(l) - (IF In(l, t) THEN 1 ELSE 0)
         /\ \A j \in 1 .. Len(Without(l, t)) : \E i \in 1 .. Len(l) :
              /\ l[i] = Without(l, t)[j] /\ j <= i
              /\ \A p \in 1 .. Len(l) : l[p] = t /\ p < i => j < i
<1>0. Len(l) \in Nat /\ DOMAIN l = 1 .. Len(l)
  BY LenProperties
<1>1. CASE ~In(l, t)
  <2>1. Without(l, t) = l
    BY <1>1 DEF Without
  <2>2. \A p \in 1 .. Len(l) : l[p] # t
    BY <1>0, <1>1 DEF In
  <2>3. QED
    BY <1>0, <1>1, <2>1, <2>2
<1>2. CASE In(l, t)
  <2> DEFINE q == PlaceOf(l, t)
             r == Without(l, t)
  <2>1. q \in 1 .. Len(l) /\ l[q] = t
    BY <1>0, <1>2, PlaceFacts
  <2>2. r = SubSeq(l, 1, q - 1) \o SubSeq(l, q + 1, Len(l))
    BY <1>2 DEF Without
  <2> HIDE DEF q, r
  <2>3. /\ Len(r) = Len(l) - 1
        /\ \A k \in 1 .. Len(l) - 1 : r[k] = IF k < q THEN l[k] ELSE l[k + 1]
    BY <2>1, <2>2, CutFacts
  <2>4. ASSUME NEW p \in 1 .. Len(l), l[p] = t PROVE p = q
    BY <1>0, <2>1, <2>4 DEF Distinct
  <2>5. ASSUME NEW j \in 1 .. Len(r)
        PROVE  \E i \in 1 .. Len(l) : /\ l[i] = r[j] /\ j <= i
                                      /\ \A p \in 1 .. Len(l) : l[p] = t /\ p < i => j < i
    <3>1. CASE j < q
      <4>1. j \in 1 .. Len(l) /\ l[j] = r[j]
        BY <1>0, <2>3, <3>1
      <4>2. \A p \in 1 .. Len(l) : ~(l[p] = t /\ p < j)
        BY <1>0, <2>1, <2>4, <3>1
      <4>3. QED
        BY <4>1, <4>2
    <3>2. CASE ~(j < q)
      <4>1. j + 1 \in 1 .. Len(l) /\ l[j + 1] = r[j] /\ j < j + 1
        BY <1>0, <2>1, <2>3, <3>2
      <4>2. QED
        BY <4>1
    <3>3. QED
      BY <3>1, <3>2
  <2>6. QED
    BY <1>2, <2>3, <2>5 DEF r
<1>3. QED
  BY <1>1, <1>2

(* The timers that are due after t has been started or has left: each was   *)
(* in the list, no nearer to the head, and farther from it if behind t.     *)
MovedUp(t) ==
  \A j \in 1 .. Len(list') :
    \/ deadline'[list'[j]] > now
    \/ /\ ~crossed
       /\ \E i \in 1 .. Len(list) :
            /\ list[i] = list'[j] /\ deadline'[list'[j]] = deadline[list[i]]
            /\ j <= i /\ list[i] # t
            /\ \A p \in 1 .. Len(list) : list[p] = t /\ p < i => j < i

LEMMA StartMovesUp ==
  ASSUME TypeOK, ListIsProper, Ahead, Plain,
         NEW t \in Timers, NEW a \in 1 .. Half, NEW l, Without(l, t) = Without(list, t),
         StartTimer(l, t, a), UNCHANGED now, ~crossed'
  PROVE  MovedUp(t)
<1> DEFINE rest == Without(list, t)
           d == NewDeadline(a)
           r == Inserted(rest, t, d)
<1>0. /\ list \in Seq(Timers) /\ Distinct(list) /\ now \in 0 .. Ticks - 1 /\ now \in Int
      /\ deadline \in [Timers -> Int] /\ crossed \in BOOLEAN
      /\ Len(list) \in Nat /\ DOMAIN list = 1 .. Len(list)
  BY LenProperties, Constants DEF TypeOK, ListIsProper, Distinct
<1>1. /\ rest \in Seq(Timers) /\ Distinct(rest) /\ ~In(rest, t)
      /\ Sorted(list) => Sorted(rest)
  BY <1>0, WithoutFacts
<1>2. \A j \in 1 .. Len(rest) : \E i \in 1 .. Len(list) :
        /\ list[i] = rest[j] /\ j <= i
        /\ \A p \in 1 .. Len(list) : list[p] = t /\ p < i => j < i
  BY <1>0, WithoutPlaces
<1>3. /\ list' \in Seq(Timers) /\ \A u : In(list', u) <=> u = t \/ In(list, u)
      /\ deadline'[t] > now
      /\ \A u \in Timers : u # t => deadline'[u] = deadline[u]
      /\ \A u : ~crossed \/ u = t \/ ~In(list, u)
      /\ deadline' \in [Timers -> 0 .. Ticks - 1]
  BY StartFacts
<1>4. list' = r /\ deadline' = [deadline EXCEPT ![t] = d]
  BY Zenon DEF StartTimer
<1>5. d \in Int /\ d > now
  <2>1. deadline'[t] = d
    BY <1>0, <1>4
  <2>2. deadline'[t] \in Int
    BY <1>3
  <2>3. QED
    BY <1>3, <2>1, <2>2
<1> HIDE DEF rest, d
<1>6. PICK n \in 0 .. Len(rest) :
        /\ Len(r) = Len(rest) + 1
        /\ \A k \in 1 .. Len(rest) + 1 :
             r[k] = IF k <= n THEN rest[k] ELSE IF k = n + 1 THEN t ELSE rest[k - 1]
        /\ n < Len(rest) => d < deadline[rest[n + 1]]
  BY <1>0, <1>1, <1>5, InsertedFacts
<1> HIDE DEF r
<1>7. Len(rest) \in Nat /\ DOMAIN rest = 1 .. Len(rest) /\ \A k \in 1 .. Len(rest) : rest[k] \in Timers
  BY <1>1, LenProperties, ElementOfSeq
<1> SUFFICES ASSUME NEW j \in 1 .. Len(list'), ~(deadline'[list'[j]] > now)
             PROVE  /\ ~crossed
                    /\ \E i \in 1 .. Len(list) :
                         /\ list[i] = list'[j] /\ deadline'[list'[j]] = deadline[list[i]]
                         /\ j <= i /\ list[i] # t
                         /\ \A p \in 1 .. Len(list) : list[p] = t /\ p < i => j < i
  BY DEF MovedUp
<1>8. list'[j] # t
  BY <1>3
<1>9. In(list', list'[j])
  BY <1>3, LenProperties DEF In
<1>10. ~crossed /\ In(list, list'[j])
  BY <1>3, <1>8, <1>9
<1>11. Sorted(rest)
  BY <1>1, <1>10 DEF Plain
<1>12. j \in 1 .. Len(rest) + 1 /\ j # n + 1 /\ j \in Int /\ n \in Int
  BY <1>4, <1>6, <1>7, <1>8
<1>13. j <= n
  <2> SUFFICES ASSUME ~(j <= n) PROVE FALSE
    OBVIOUS
  <2>1. n + 1 \in DOMAIN rest /\ j - 1 \in DOMAIN rest /\ n + 1 <= j - 1 /\ n < Len(rest)
    BY <1>7, <1>12
  <2>2. list'[j] = rest[j - 1]
    BY <1>4, <1>6, <1>12
  <2>3. rest[j - 1] \in Timers /\ rest[n + 1] \in Timers
    BY <1>7, <2>1
  <2>4. deadline'[rest[j - 1]] = deadline[rest[j - 1]]
    BY <1>3, <1>8, <2>2, <2>3
  <2>5. deadline[rest[n + 1]] <= deadline[rest[j - 1]]
    <3>1. CASE n + 1 = j - 1
      BY <1>0, <2>3, <3>1
    <3>2. CASE n + 1 < j - 1
      BY <1>11, <2>1, <3>2 DEF Sorted
    <3>3. QED
      BY <1>7, <2>1, <3>1, <3>2
  <2>6. d < deadline[rest[n + 1]]
    BY <1>6, <2>1
  <2>7. deadline[rest[n + 1]] \in Int /\ deadline[rest[j - 1]] \in Int
    BY <1>0, <2>3
  <2>8. deadline'[list'[j]] = deadline[rest[j - 1]]
    BY <2>2, <2>4
  <2>9. deadline[rest[j - 1]] > now
    <3> DEFINE x == deadline[rest[n + 1]]
               y == deadline[rest[j - 1]]
    <3>1. now \in Int /\ d \in Int /\ x \in Int /\ y \in Int
      BY <1>0, <1>5, <2>7
    <3>2. d > now /\ d < x /\ x <= y
      BY <1>5, <2>5, <2>6
    <3> HIDE DEF x, y
    <3>3. y > now
      BY <3>1, <3>2
    <3>4. QED
      BY <3>3 DEF y
  <2>10. QED
    BY <2>8, <2>9
<1>14. j \in 1 .. Len(rest) /\ list'[j] = rest[j]
  BY <1>4, <1>6, <1>7, <1>12, <1>13
<1>15. PICK i \in 1 .. Len(list) :
         /\ list[i] = rest[j] /\ j <= i
         /\ \A p \in 1 .. Len(list) : list[p] = t /\ p < i => j < i
  BY <1>2, <1>14
<1>16. list'[j] \in Timers /\ deadline'[list'[j]] = deadline[list[i]]
  BY <1>3, <1>7, <1>8, <1>14, <1>15
<1>17. QED
  BY <1>8, <1>10, <1>14, <1>15, <1>16

LEMMA RemoveMovesUp ==
  ASSUME TypeOK, ListIsProper, NEW t \in Timers, Remove(t), ~crossed'
  PROVE  MovedUp(t)
<1>0. /\ list \in Seq(Timers) /\ Distinct(list) /\ deadline \in [Timers -> Int]
      /\ Len(list) \in Nat /\ DOMAIN list = 1 .. Len(list)
  BY LenProperties, Constants DEF TypeOK, ListIsProper, Distinct
<1>1. /\ list' = Without(list, t) /\ crossed' = (crossed /\ list' # <<>>)
      /\ deadline' = [deadline EXCEPT ![t] = 0]
  BY Zenon DEF Remove
<1>2. /\ list' \in Seq(Timers) /\ ~In(list', t)
  BY <1>0, <1>1, WithoutFacts
<1>3. Len(list') \in Nat /\ DOMAIN list' = 1 .. Len(list') /\ \A k \in 1 .. Len(list') : list'[k] \in Timers
  BY <1>2, LenProperties, ElementOfSeq
<1>4. ASSUME NEW j \in 1 .. Len(list')
      PROVE  /\ ~crossed
             /\ \E i \in 1 .. Len(list) :
                  /\ list[i] = list'[j] /\ deadline'[list'[j]] = deadline[list[i]]
                  /\ j <= i /\ list[i] # t
                  /\ \A p \in 1 .. Len(list) : list[p] = t /\ p < i => j < i
  <2>1. PICK i \in 1 .. Len(list) :
          /\ list[i] = list'[j] /\ j <= i
          /\ \A p \in 1 .. Len(list) : list[p] = t /\ p < i => j < i
    BY <1>0, <1>1, WithoutPlaces
  <2>2. list'[j] # t /\ list'[j] \in Timers
    BY <1>2, <1>3 DEF In
  <2>3. deadline'[list'[j]] = deadline[list[i]]
    BY <1>0, <1>1, <2>1, <2>2
  <2>4. list' # <<>>
    BY <1>3
  <2>5. ~crossed
    BY <1>1, <2>4, Zenon
  <2>6. QED
    BY <2>1, <2>2, <2>3, <2>5
<1>5. QED
  BY <1>4 DEF MovedUp

(* There are no more places than timers. *)
LEMMA Few ==
  ASSUME NEW l \in Seq(Timers), Distinct(l)
  PROVE  Len(l) \in 0 .. N /\ N \in Nat
<1>1. IsFiniteSet(Timers) /\ \A i, j \in 1 .. Len(l) : l[i] = l[j] => i = j
  <2>1. DOMAIN l = 1 .. Len(l)
    BY LenProperties
  <2>2. QED
    BY <2>1, TimerAssumption DEF Distinct
<1>2. QED
  BY <1>1, NoLonger DEF N

LEMMA WaitsFacts ==
  ASSUME N \in Nat, NEW i \in 1 .. N
  PROVE  /\ slot = HEAD => Waits(i) = N - i
         /\ slot # HEAD => Waits(i) = IF i < N THEN N - i - 1 ELSE 0
         /\ slot' # HEAD => Waits(i)' = IF i < N THEN N - i - 1 ELSE 0
         /\ slot' = HEAD => Waits(i)' = N - i
         /\ Waits(i) \in Nat /\ Waits(i)' \in Nat
<1>1. N' = N
  BY DEF N
<1>2. Waits(i)' = IF slot' = HEAD THEN N - i ELSE IF i < N THEN N - i - 1 ELSE 0
  BY <1>1 DEF Waits
<1>3. Waits(i) = IF slot = HEAD THEN N - i ELSE IF i < N THEN N - i - 1 ELSE 0
  BY DEF Waits
<1> HIDE DEF N
<1>4. QED
  BY <1>2, <1>3

(* The bound for a timer at place i that a step leaves at place j: nothing  *)
(* moves back, and a pass that ends has moved the timer up, or it has       *)
(* called its first timer before.                                           *)
LEMMA BoundKept ==
  ASSUME N \in Nat, NEW i \in 1 .. N, NEW j \in 1 .. i, NEW x \in Int,
         lag \in 0 .. Lag, x <= lag + Lag * Waits(i),
         \/ slot' = slot /\ lag' = lag
         \/ slot' # HEAD /\ lag' = lag /\ (slot = HEAD => j < i)
         \/ slot' = HEAD /\ lag' = 0 /\ (slot = HEAD \/ i = N => j < i)
  PROVE  x <= lag' + Lag * Waits(j)'
<1> DEFINE v == Waits(i)
           w == Waits(j)'
<1>0. j \in 1 .. N
  OBVIOUS
<1>1. /\ v \in Nat /\ w \in Nat /\ i \in Nat /\ j \in Nat /\ lag \in Int /\ Lag \in Nat
      /\ slot = HEAD => v = N - i
      /\ slot # HEAD => v = IF i < N THEN N - i - 1 ELSE 0
      /\ slot' # HEAD => w = IF j < N THEN N - j - 1 ELSE 0
      /\ slot' = HEAD => w = N - j
  BY <1>0, WaitsFacts, Constants
<1>2. x <= lag + Lag * v
  OBVIOUS
<1> HIDE DEF v, w
<1>3. CASE lag' = lag /\ v <= w
  <2>1. Lag * v <= Lag * w /\ Lag * v \in Nat /\ Lag * w \in Nat
    BY <1>1, <1>3, Times
  <2>2. x <= lag' + Lag * w
    BY <1>1, <1>2, <1>3, <2>1
  <2>3. QED
    BY <2>2 DEF w
<1>4. CASE lag' = 0 /\ v + 1 <= w
  <2>1. v + 1 \in Nat
    BY <1>1
  <2>2. Lag * (v + 1) <= Lag * w /\ Lag * w \in Nat
    BY <1>1, <1>4, <2>1, Times
  <2>3. Lag * (v + 1) = Lag * v + Lag /\ Lag * v \in Nat
    BY <1>1, Times
  <2>4. x <= lag' + Lag * w
    BY <1>1, <1>2, <1>4, <2>2, <2>3
  <2>5. QED
    BY <2>4 DEF w
<1>5. CASE slot' = slot /\ lag' = lag
  <2>1. v <= w
    BY <1>1, <1>5
  <2>2. QED
    BY <1>3, <1>5, <2>1
<1>6. CASE slot' # HEAD /\ lag' = lag /\ (slot = HEAD => j < i)
  <2>1. v <= w
    BY <1>1, <1>6
  <2>2. QED
    BY <1>3, <1>6, <2>1
<1>7. CASE slot' = HEAD /\ lag' = 0 /\ (slot = HEAD \/ i = N => j < i)
  <2>1. v + 1 <= w
    BY <1>1, <1>7
  <2>2. QED
    BY <1>4, <1>7, <2>1
<1>8. QED
  BY <1>5, <1>6, <1>7

(* A timer whose deadline is not past is within any bound. *)
LEMMA AheadKept ==
  ASSUME N \in Nat, NEW j \in 1 .. N, NEW x \in Int, x <= 0, lag' \in 0 .. Lag
  PROVE  x <= lag' + Lag * Waits(j)'
<1> DEFINE w == Waits(j)'
<1>1. w \in Nat
  BY WaitsFacts
<1> HIDE DEF w
<1>2. Lag * w \in Nat
  BY <1>1, Times
<1>3. x <= lag' + Lag * w
  BY <1>2, Constants
<1>4. QED
  BY <1>3 DEF w

-----------------------------------------------------------------------------
(* The steps. *)

LEMMA OnTimeInit == Init => OnTime
<1> SUFFICES ASSUME Init PROVE OnTime
  OBVIOUS
<1>1. Len(list) = 0
  BY DEF Init
<1>2. QED
  BY <1>1 DEF OnTime

LEMMA InvTypes ==
  ASSUME IInv
  PROVE  /\ list \in Seq(Timers) /\ Distinct(list) /\ Len(list) \in 0 .. N /\ N \in Nat
         /\ deadline \in [Timers -> 0 .. Ticks - 1] /\ now \in 0 .. Ticks - 1 /\ now \in Int
         /\ lag \in 0 .. Lag /\ lag \in Int /\ slot \in Timers \cup {HEAD}
         /\ DOMAIN list = 1 .. Len(list)
         /\ \A i \in 1 .. Len(list) : list[i] \in Timers /\ deadline[list[i]] \in Int
<1>1. /\ list \in Seq(Timers) /\ Distinct(list)
      /\ deadline \in [Timers -> 0 .. Ticks - 1] /\ now \in 0 .. Ticks - 1
      /\ lag \in 0 .. Lag /\ slot \in Timers \cup {HEAD}
  BY DEF IInv, TypeOK, ListIsProper, Distinct
<1>2. Len(list) \in 0 .. N /\ N \in Nat
  BY <1>1, Few
<1>3. DOMAIN list = 1 .. Len(list) /\ \A i \in 1 .. Len(list) : list[i] \in Timers
  BY <1>1, LenProperties, ElementOfSeq
<1>4. now \in Int /\ lag \in Int /\ \A i \in 1 .. Len(list) : deadline[list[i]] \in Int
  BY <1>1, <1>3, Constants
<1>5. QED
  BY <1>1, <1>2, <1>3, <1>4

LEMMA InvTypesNext ==
  ASSUME IInv'
  PROVE  /\ list' \in Seq(Timers) /\ Distinct(list') /\ Len(list') \in 0 .. N
         /\ lag' \in 0 .. Lag /\ DOMAIN list' = 1 .. Len(list')
         /\ \A i \in 1 .. Len(list') : list'[i] \in Timers /\ deadline'[list'[i]] \in Int
<1>1. /\ list' \in Seq(Timers) /\ Distinct(list')
      /\ deadline' \in [Timers -> 0 .. Ticks - 1] /\ lag' \in 0 .. Lag
  BY DEF IInv, TypeOK, ListIsProper, Distinct
<1>2. Len(list') \in 0 .. N
  BY <1>1, Few
<1>3. DOMAIN list' = 1 .. Len(list') /\ \A i \in 1 .. Len(list') : list'[i] \in Timers
  BY <1>1, LenProperties, ElementOfSeq
<1>4. \A i \in 1 .. Len(list') : deadline'[list'[i]] \in Int
  BY <1>1, <1>3, Constants
<1>5. QED
  BY <1>1, <1>2, <1>3, <1>4

(* A timer is started or leaves the list: between passes, inside a pass     *)
(* that goes on, or in the last call of a pass.                             *)
LEMMA OnTimeMoved ==
  ASSUME IInv, IInv', OnTime, NEW t \in Timers, ~crossed' => MovedUp(t), UNCHANGED now,
         \/ UNCHANGED <<slot, lag>>
         \/ /\ \/ slot' # HEAD /\ lag' = lag
               \/ slot' = HEAD /\ lag' = 0
            /\ \E p \in 1 .. Len(list) : list[p] = t /\ (slot = HEAD => p = 1),
         ~crossed' => \A i \in 1 .. Len(list') : list'[i] = slot' => i < N
  PROVE  OnTime'
<1>0. /\ Len(list) \in 0 .. N /\ N \in Nat /\ N' = N
      /\ now \in Int /\ now' = now /\ lag \in 0 .. Lag /\ lag' \in 0 .. Lag
      /\ \A i \in 1 .. Len(list) : deadline[list[i]] \in Int
      /\ \A i \in 1 .. Len(list') : deadline'[list'[i]] \in Int
      /\ Len(list') \in 0 .. N
  BY InvTypes, InvTypesNext DEF N
<1>1. ASSUME ~crossed', NEW j \in 1 .. Len(list')
      PROVE  now - deadline'[list'[j]] <= lag' + Lag * Waits(j)'
  <2> DEFINE x == now - deadline'[list'[j]]
  <2>0. x \in Int /\ j \in 1 .. N
    BY <1>0, <1>1
  <2>1. CASE deadline'[list'[j]] > now
    <3>1. x <= 0
      BY <1>0, <1>1, <2>1
    <3> HIDE DEF x
    <3>2. x <= lag' + Lag * Waits(j)'
      BY <1>0, <2>0, <3>1, AheadKept
    <3>3. QED
      BY <3>2 DEF x
  <2>2. CASE ~(deadline'[list'[j]] > now)
    <3>1. PICK i \in 1 .. Len(list) :
            /\ ~crossed
            /\ list[i] = list'[j] /\ deadline'[list'[j]] = deadline[list[i]]
            /\ j <= i /\ list[i] # t
            /\ \A p \in 1 .. Len(list) : list[p] = t /\ p < i => j < i
      BY <1>1, <2>2 DEF MovedUp
    <3>2. x <= lag + Lag * Waits(i)
      BY <1>1, <3>1 DEF OnTime
    <3>3. i \in 1 .. N /\ j \in 1 .. i /\ i \in Int
      BY <1>0, <1>1, <3>1
    <3>4. \/ slot' = slot /\ lag' = lag
          \/ slot' # HEAD /\ lag' = lag /\ (slot = HEAD => j < i)
          \/ slot' = HEAD /\ lag' = 0 /\ (slot = HEAD \/ i = N => j < i)
      <4>1. CASE UNCHANGED <<slot, lag>>
        BY <4>1
      <4>2. CASE /\ \/ slot' # HEAD /\ lag' = lag
                    \/ slot' = HEAD /\ lag' = 0
                 /\ \E p \in 1 .. Len(list) : list[p] = t /\ (slot = HEAD => p = 1)
        <5>1. PICK p \in 1 .. Len(list) : list[p] = t /\ (slot = HEAD => p = 1)
          BY <4>2
        <5>2. p # i
          BY <3>1, <5>1
        <5>3. slot = HEAD => p < i
          BY <3>3, <5>1, <5>2
        <5>4. i = N => p < i
          BY <1>0, <3>3, <5>1, <5>2
        <5>5. p < i => j < i
          BY <3>1, <5>1
        <5>6. QED
          BY <4>2, <5>3, <5>4, <5>5
      <4>3. QED
        BY <4>1, <4>2
    <3> HIDE DEF x
    <3>5. x <= lag' + Lag * Waits(j)'
      BY <1>0, <2>0, <3>2, <3>3, <3>4, BoundKept
    <3>6. QED
      BY <3>5 DEF x
  <2>3. QED
    BY <2>1, <2>2
<1>2. QED
  BY <1>0, <1>1 DEF OnTime

LEMMA OnTimeStart ==
  ASSUME IInv, IInv', OnTime, NEW t \in Timers, Start(t) \/ Stop(t)
  PROVE  OnTime'
<1>1. /\ TypeOK /\ ListIsProper /\ Ahead /\ Plain
  BY DEF IInv
<1>2. UNCHANGED <<now, pc, slot, lag>> /\ pc = "idle"
  BY DEF Start, Stop
<1>3. slot' = HEAD
  BY <1>2 DEF IInv, IdleAtHead
<1>4. ~crossed' => MovedUp(t)
  <2>1. CASE Start(t)
    <3>1. StartTimer(list, t, Delay[t]) /\ Delay[t] \in 1 .. Half
      BY <2>1, Constants DEF Start
    <3>2. QED
      BY <1>1, <1>2, <3>1, StartMovesUp
  <2>2. CASE Stop(t)
    <3>1. Remove(t)
      BY <2>2 DEF Stop
    <3>2. QED
      BY <1>1, <3>1, RemoveMovesUp
  <2>3. QED
    BY <2>1, <2>2
<1>5. \A i \in 1 .. Len(list') : list'[i] # slot'
  BY <1>3, InvTypesNext, Constants
<1>6. QED
  BY <1>2, <1>4, <1>5, OnTimeMoved

(* No timer is late enough to look as if its time had not come. *)
LEMMA Bounded ==
  ASSUME IInv, NEW i \in 1 .. Len(list)
  PROVE  lag + Lag * Waits(i) <= N * Lag
<1>1. lag \in Int /\ lag <= Lag /\ Lag \in Nat /\ N \in Nat /\ i \in 1 .. N
  BY InvTypes, Constants
<1> DEFINE v == Waits(i)
<1>2. v \in Nat /\ v <= N - 1 /\ N - 1 \in Nat
  BY <1>1, WaitsFacts
<1> HIDE DEF v, N
<1>3. Lag * v <= Lag * (N - 1) /\ Lag * v \in Nat
  BY <1>2, Times
<1>4. Lag * ((N - 1) + 1) = Lag * (N - 1) + Lag /\ Lag * (N - 1) \in Nat
  BY <1>2, Times
<1>5. (N - 1) + 1 = N /\ N * Lag = Lag * N
  BY <1>1
<1>6. lag + Lag * v <= N * Lag
  BY <1>1, <1>3, <1>4, <1>5
<1>7. QED
  BY <1>6 DEF v

LEMMA NotDueYet ==
  ASSUME IInv, OnTime, ~crossed, N * Lag < Half, NEW t \in Timers, In(list, t), ~Due(t)
  PROVE  deadline[t] > now
<1>1. PICK i \in 1 .. Len(list) : list[i] = t
  BY InvTypes DEF In
<1>2. now - deadline[t] <= lag + Lag * Waits(i) /\ lag + Lag * Waits(i) <= N * Lag
  BY <1>1, Bounded DEF OnTime
<1> DEFINE x == now - deadline[t]
           y == lag + Lag * Waits(i)
           z == N * Lag
<1>3. /\ x \in Int /\ y \in Int /\ z \in Int /\ x <= y /\ y <= z /\ z < Half
      /\ deadline[t] \in 0 .. Ticks - 1 /\ now \in 0 .. Ticks - 1
  <2>1. N \in Nat /\ i \in 1 .. N /\ lag \in Int /\ Lag \in Nat
    BY InvTypes, Constants
  <2>2. Waits(i) \in Nat
    BY <2>1, WaitsFacts
  <2>3. Lag * Waits(i) \in Nat
    BY <2>2, Times
  <2>4. N * Lag \in Nat
    BY <2>1
  <2>5. deadline[t] \in 0 .. Ticks - 1 /\ now \in 0 .. Ticks - 1
    BY InvTypes
  <2>6. QED
    BY <1>2, <2>1, <2>3, <2>4, <2>5, Constants
<1> HIDE DEF y, z
<1>4. SUFFICES ASSUME x >= 0 PROVE FALSE
  BY <1>3, Constants
<1>5. x \in 0 .. Ticks - 1
  BY <1>3, <1>4, Constants
<1> HIDE DEF x
<1>6. x % Ticks = x
  BY <1>5, ModOnce, Constants
<1>7. x < Half
  BY <1>3, Constants
<1>8. QED
  BY <1>6, <1>7 DEF Due, Half, x

LEMMA OnTimeBegin ==
  ASSUME IInv, OnTime, PassBegin \/ UNCHANGED vars
  PROVE  OnTime'
<1>1. UNCHANGED <<list, deadline, now, slot, lag, crossed>>
  BY DEF PassBegin, IInv, IdleAtHead, vars
<1>2. QED
  BY <1>1 DEF OnTime, Waits, N

LEMMA OnTimeEnd ==
  ASSUME IInv, IInv', OnTime, N * Lag < Half, PassEnd
  PROVE  OnTime'
<1>0. /\ list \in Seq(Timers) /\ Distinct(list) /\ Len(list) \in 0 .. N /\ N \in Nat
      /\ slot \in Timers \cup {HEAD} /\ (slot # HEAD => In(list, slot))
      /\ now \in Int /\ lag \in 0 .. Lag /\ lag' \in 0 .. Lag /\ DOMAIN list = 1 .. Len(list)
      /\ \A i \in 1 .. Len(list) : list[i] \in Timers /\ deadline[list[i]] \in Int
  BY InvTypes, InvTypesNext DEF IInv, ListIsProper, Running
<1>1. /\ UNCHANGED <<list, deadline, now, crossed>> /\ slot' = HEAD /\ lag' = 0
      /\ ~(Entry # NULL /\ Due(Entry)) /\ N' = N
  BY DEF PassEnd, EntryDue, N
<1>2. PICK p \in 0 .. Len(list) :
        /\ p = 0 <=> slot = HEAD
        /\ p > 0 => list[p] = slot
        /\ p < Len(list) => Entry = list[p + 1] /\ Entry \in Timers /\ Entry # NULL /\ In(list, Entry)
  BY <1>0, NextFacts DEF Entry
<1>3. \A i \in 1 .. Len(list') : list'[i] # slot'
  BY <1>0, <1>1, Constants
<1>4. ASSUME ~crossed, NEW j \in 1 .. Len(list)
      PROVE  now - deadline[list[j]] <= lag' + Lag * Waits(j)'
  <2> DEFINE x == now - deadline[list[j]]
  <2>0. x \in Int /\ j \in 1 .. N /\ j \in 1 .. j /\ p \in Int /\ j \in Int
    BY <1>0, <1>2, <1>4
  <2>1. CASE j <= p
    <3>1. slot # HEAD /\ p < N
      BY <1>0, <1>2, <1>4, <2>0, <2>1 DEF OnTime
    <3>2. j # N
      BY <1>0, <2>0, <2>1, <3>1
    <3>3. x <= lag + Lag * Waits(j)
      BY <1>4 DEF OnTime
    <3> HIDE DEF x
    <3>4. x <= lag' + Lag * Waits(j)'
      BY <1>0, <1>1, <2>0, <3>1, <3>2, <3>3, BoundKept
    <3>5. QED
      BY <3>4 DEF x
  <2>2. CASE ~(j <= p)
    <3>1. p < Len(list) /\ p + 1 \in DOMAIN list /\ p + 1 <= j
      BY <1>0, <1>4, <2>0, <2>2
    <3>2. Entry = list[p + 1] /\ Entry \in Timers /\ In(list, Entry) /\ ~Due(Entry)
      BY <1>1, <1>2, <3>1
    <3>3. deadline[list[p + 1]] > now
      <4> DEFINE e == Entry
      <4>1. e \in Timers /\ In(list, e) /\ ~Due(e)
        BY <3>2
      <4> HIDE DEF e
      <4>2. deadline[e] > now
        BY <1>4, <4>1, NotDueYet
      <4>3. QED
        BY <3>2, <4>2 DEF e
    <3>4. deadline[list[p + 1]] <= deadline[list[j]]
      <4>1. CASE p + 1 = j
        BY <1>0, <1>4, <4>1
      <4>2. CASE p + 1 < j
        BY <1>0, <1>4, <3>1, <4>2 DEF IInv, Plain, Sorted
      <4>3. QED
        BY <2>0, <3>1, <4>1, <4>2
    <3>5. x <= 0
      BY <1>0, <1>4, <3>1, <3>3, <3>4
    <3> HIDE DEF x
    <3>6. x <= lag' + Lag * Waits(j)'
      BY <1>0, <2>0, <3>5, AheadKept
    <3>7. QED
      BY <3>6 DEF x
  <2>3. QED
    BY <2>1, <2>2
<1>5. QED
  BY <1>1, <1>3, <1>4 DEF OnTime

LEMMA OnTimeTick ==
  ASSUME IInv, OnTime, Tick
  PROVE  OnTime'
<1>0. /\ now \in 0 .. Ticks - 1 /\ lag \in Int /\ now \in Int /\ N \in Nat /\ Len(list) \in 0 .. N
      /\ \A i \in 1 .. Len(list) : deadline[list[i]] \in Int
  BY InvTypes
<1>1. /\ UNCHANGED <<list, deadline, slot>> /\ lag' = lag + 1 /\ now' = (now + 1) % Ticks
      /\ crossed' = (crossed \/ (now' = 0 /\ list # <<>>))
  BY Zenon DEF Tick
<1>2. now' = now + 1 \/ now' = 0
  <2>1. CASE now + 1 < Ticks
    <3>1. now + 1 \in 0 .. Ticks - 1
      BY <1>0, <2>1, Constants
    <3>2. QED
      BY <1>1, <3>1, ModOnce, Constants
  <2>2. CASE ~(now + 1 < Ticks)
    <3>1. now + 1 = Ticks /\ Ticks \in Ticks .. 2 * Ticks - 1
      BY <1>0, <2>2, Constants
    <3>2. Ticks % Ticks = Ticks - Ticks
      BY <3>1, ModOnce, Constants
    <3>3. QED
      BY <1>1, <3>1, <3>2, Constants
  <2>3. QED
    BY <2>1, <2>2
<1>3. \A i : Waits(i)' = Waits(i)
  BY <1>1 DEF Waits, N
<1>4. ASSUME ~crossed', NEW i \in 1 .. Len(list)
      PROVE  /\ now' - deadline[list[i]] <= lag' + Lag * Waits(i)
             /\ list[i] = slot => i < N
  <2>1. ~crossed /\ ~(now' = 0 /\ list # <<>>)
    BY <1>1, <1>4, Zenon
  <2>2. now' = now + 1
    BY <1>2, <1>4, <2>1
  <2>3. now - deadline[list[i]] <= lag + Lag * Waits(i)
    BY <1>4, <2>1 DEF OnTime
  <2>4. Lag * Waits(i) \in Nat
    <3>1. Waits(i) \in Nat
      BY <1>0, <1>4, WaitsFacts
    <3>2. QED
      BY <3>1, Times
  <2> DEFINE w == Lag * Waits(i)
  <2> HIDE DEF w
  <2>5. now' - deadline[list[i]] <= lag' + w
    BY <1>0, <1>1, <1>4, <2>2, <2>3, <2>4 DEF w
  <2>6. list[i] = slot => i < N
    BY <1>4, <2>1 DEF OnTime
  <2>7. QED
    BY <2>5, <2>6 DEF w
<1>5. N' = N
  BY DEF N
<1>6. QED
  BY <1>1, <1>3, <1>4, <1>5 DEF OnTime

(* The entry of the loop stands right behind the slot. *)
LEMMA EntryPlace ==
  ASSUME IInv, Entry # NULL
  PROVE  \E p \in 1 .. Len(list) : list[p] = Entry /\ (slot = HEAD => p = 1)
<1>0. /\ list \in Seq(Timers) /\ Distinct(list) /\ Len(list) \in Nat
      /\ slot \in Timers \cup {HEAD} /\ (slot # HEAD => In(list, slot))
  BY InvTypes DEF IInv, ListIsProper, Running
<1>1. PICK q \in 0 .. Len(list) :
        /\ q = 0 <=> slot = HEAD
        /\ q < Len(list) => Entry = list[q + 1]
        /\ q = Len(list) => Entry = NULL
  BY <1>0, NextFacts DEF Entry
<1>2. q + 1 \in 1 .. Len(list) /\ Entry = list[q + 1] /\ (slot = HEAD => q + 1 = 1)
  BY <1>0, <1>1
<1>3. QED
  BY <1>2

(* The loop never goes on from the last of N timers: it ends the pass when  *)
(* the entry it has called is the last, and the slot stays ahead of it.     *)
LEMMA SlotNotLast ==
  ASSUME IInv, IInv', PassCall, ~crossed', NEW i \in 1 .. Len(list'), list'[i] = slot'
  PROVE  i < N
<1> DEFINE e == Entry
           rest == Without(list, e)
           next == NextOf(list', slot)
<1>0. /\ list \in Seq(Timers) /\ Distinct(list) /\ Len(list) \in 0 .. N /\ N \in Nat
      /\ slot \in Timers \cup {HEAD} /\ (slot # HEAD => In(list, slot))
      /\ DOMAIN list = 1 .. Len(list)
  BY InvTypes DEF IInv, ListIsProper, Running
<1>1. /\ list' \in Seq(Timers) /\ Distinct(list') /\ Len(list') \in 0 .. N
      /\ DOMAIN list' = 1 .. Len(list') /\ list'[i] \in Timers
  BY InvTypesNext
<1>2. /\ pc = "pass" /\ EntryDue /\ UNCHANGED now /\ TypeOK /\ ListIsProper /\ Ahead /\ Plain
  BY DEF PassCall, IInv
<1>3. e \in Timers /\ In(list, e) /\ e # slot
  BY <1>2, EntryFacts DEF EntryDue
<1>4. pc' # "crashed"
  BY DEF IInv, OffNull
<1>5. slot' # HEAD
  BY <1>1, Constants
<1>6. ASSUME NEW b, Advance(b)
      PROVE  b # NULL /\ next # NULL /\ slot' = next
  BY <1>4, <1>5, <1>6 DEF Advance
<1>7. CASE Remove(e) /\ Advance(NextOf(list, e))
  <2>1. list' = Without(list, e)
    BY <1>7 DEF Remove
  <2>2. Len(list') = Len(list) - 1
    BY <1>0, <1>3, <2>1, WithoutPlaces
  <2>3. QED
    BY <1>0, <1>1, <2>2
<1>8. CASE \E a \in 1 .. Half : StartTimer(rest, e, a) /\ Advance(NextOf(list', e))
  <2>1. PICK a \in 1 .. Half : StartTimer(rest, e, a) /\ Advance(NextOf(list', e))
    BY <1>8
  <2>2. NextOf(list', e) # NULL /\ next # NULL /\ slot' = next
    BY <1>6, <2>1
  <2>3. ASSUME NEW j \in DOMAIN list', NEW k \in DOMAIN list', list'[j] = e, list'[k] = slot, j < k
        PROVE  FALSE
    BY <1>2, <2>1, <2>3, RestartBehind
  <2> HIDE DEF e
  <2>4. Without(rest, e) = Without(list, e)
    <3>1. rest \in Seq(Timers) /\ Distinct(rest) /\ ~In(rest, e)
      BY <1>0, WithoutFacts
    <3>2. QED
      BY <3>1, WithoutFacts
  <2> HIDE DEF rest
  <2>5. \A u : In(list', u) <=> u = e \/ In(list, u)
    BY <1>2, <1>3, <2>1, <2>4, StartFacts DEF rest
  <2> DEFINE n == Len(list')
  <2>6. n \in Int /\ n <= N /\ N \in Int /\ DOMAIN list' = 1 .. n
    BY <1>0, <1>1
  <2>7. PICK q \in 0 .. n :
          /\ q = 0 <=> e = HEAD
          /\ q > 0 => list'[q] = e
          /\ q = n => NextOf(list', e) = NULL
    BY <1>1, <1>3, <2>5, NextFacts
  <2>8. PICK m \in 0 .. n :
          /\ m = 0 <=> slot = HEAD
          /\ m > 0 => list'[m] = slot
          /\ m < n => next = list'[m + 1]
          /\ m = n => next = NULL
    <3>1. slot # HEAD => In(list', slot)
      BY <1>0, <2>5
    <3>2. QED
      BY <1>0, <1>1, <3>1, NextFacts
  <2> HIDE DEF next, n
  <2>9. q \in 1 .. n /\ q < n /\ list'[q] = e
    <3>1. e # HEAD
      BY <1>3, Constants
    <3>2. QED
      BY <2>2, <2>6, <2>7, <3>1
  <2>10. m + 1 \in DOMAIN list' /\ list'[m + 1] = slot'
    BY <2>2, <2>6, <2>8
  <2>11. i = m + 1
    BY <1>1, <2>10 DEF Distinct, n
  <2>12. SUFFICES ASSUME ~(i < N) PROVE FALSE
    OBVIOUS
  <2>13. q <= m /\ m > 0
    <3> HIDE DEF N
    <3>1. QED
      BY <2>6, <2>8, <2>9, <2>11, <2>12
  <2>14. m \in DOMAIN list' /\ list'[m] = slot /\ q \in DOMAIN list'
    BY <2>6, <2>8, <2>9, <2>13
  <2>15. q # m
    BY <1>3, <2>9, <2>14
  <2>16. q < m
    BY <2>8, <2>9, <2>13, <2>15
  <2>17. QED
    BY <2>3, <2>9, <2>14, <2>16
<1>9. QED
  <2>1. \/ Period[e] # 0 /\ StartTimer(rest, e, Period[e]) /\ Advance(NextOf(list', e))
        \/ Period[e] = 0 /\ StartTimer(rest, e, Delay[e]) /\ Advance(NextOf(list', e))
        \/ Period[e] = 0 /\ Remove(e) /\ Advance(NextOf(list, e))
    BY Zenon DEF PassCall
  <2>2. Delay[e] \in 1 .. Half /\ (Period[e] # 0 => Period[e] \in 1 .. Half)
    BY <1>3, Constants
  <2> HIDE DEF e, rest
  <2>3. QED
    BY <1>7, <1>8, <2>1, <2>2

LEMMA OnTimeCall ==
  ASSUME IInv, IInv', OnTime, PassCall
  PROVE  OnTime'
<1> DEFINE e == Entry
           rest == Without(list, e)
<1>1. /\ pc = "pass" /\ EntryDue /\ UNCHANGED now /\ TypeOK /\ ListIsProper /\ Ahead /\ Plain
      /\ list \in Seq(Timers) /\ Distinct(list) /\ slot \in Timers \cup {HEAD}
      /\ slot # HEAD => In(list, slot)
  BY InvTypes DEF PassCall, IInv, ListIsProper, Running
<1>2. e \in Timers /\ e # slot
  BY <1>1, EntryFacts DEF EntryDue
<1>3. PICK p \in 1 .. Len(list) : list[p] = e /\ (slot = HEAD => p = 1)
  BY <1>1, EntryPlace DEF EntryDue
<1>4. \/ Period[e] # 0 /\ StartTimer(rest, e, Period[e]) /\ Advance(NextOf(list', e))
      \/ Period[e] = 0 /\ StartTimer(rest, e, Delay[e]) /\ Advance(NextOf(list', e))
      \/ Period[e] = 0 /\ Remove(e) /\ Advance(NextOf(list, e))
  BY Zenon DEF PassCall
<1>5. \A i \in 1 .. Len(list') : ~crossed' /\ list'[i] = slot' => i < N
  BY SlotNotLast
<1> HIDE DEF e
<1>6. Without(rest, e) = Without(list, e)
  <2>1. rest \in Seq(Timers) /\ Distinct(rest) /\ ~In(rest, e)
    BY <1>1, WithoutFacts
  <2>2. QED
    BY <2>1, WithoutFacts
<1>7. Delay[e] \in 1 .. Half /\ (Period[e] # 0 => Period[e] \in 1 .. Half)
  BY <1>2, Constants
<1> HIDE DEF rest
<1>8. ~crossed' => MovedUp(e)
  <2>1. CASE Remove(e)
    BY <1>1, <1>2, <2>1, RemoveMovesUp
  <2>2. ASSUME NEW a \in 1 .. Half, StartTimer(rest, e, a) PROVE ~crossed' => MovedUp(e)
    BY <1>1, <1>2, <1>6, <2>2, StartMovesUp DEF rest
  <2>3. QED
    BY <1>4, <1>7, <2>1, <2>2
<1>9. PICK b : Advance(b)
  BY <1>4
<1>10. CASE pc' = "crashed"
  BY <1>10 DEF IInv, OffNull, OnTime
<1>11. CASE pc' # "crashed"
  <2>1. NextOf(list', slot) = NULL \/ NextOf(list', slot) \in Timers
    <3>1. slot # HEAD => In(list', slot)
      <4>1. CASE Remove(e)
        BY <1>1, <1>2, <4>1, RemoveFacts
      <4>2. ASSUME NEW a \in 1 .. Half, StartTimer(rest, e, a) PROVE slot # HEAD => In(list', slot)
        BY <1>1, <1>2, <1>6, <4>2, StartFacts DEF rest
      <4>3. QED
        BY <1>4, <1>7, <4>1, <4>2
    <3>2. list' \in Seq(Timers) /\ Distinct(list') /\ Len(list') \in Int
      BY InvTypesNext
    <3>3. QED
      BY <1>1, <3>1, <3>2, NextFacts
  <2>2. \/ slot' # HEAD /\ lag' = lag
        \/ slot' = HEAD /\ lag' = 0
    BY <1>9, <1>11, <2>1, Constants DEF Advance
  <2>3. QED
    BY <1>1, <1>2, <1>3, <1>5, <1>8, <2>2, OnTimeMoved
<1>12. QED
  BY <1>10, <1>11

(* Until the counter or a deadline wraps under running timers, no timer is  *)
(* late by more passes than there are timers, although MultiTimerYield ends *)
(* a pass early and steps over timers.  Were all of them together that late *)
(* for half of the counter's range, a late one would look as if its time    *)
(* had not come.                                                            *)
THEOREM OnTimeCorrect ==
  ASSUME Cardinality(Timers) * Lag < Ticks \div 2
  PROVE  Spec => []OnTimeUntilWrap
<1>1. N * Lag < Half
  BY DEF N, Half
<1>2. IInv /\ IInv' /\ OnTime /\ [Next]_vars => OnTime'
  <2> SUFFICES ASSUME IInv, IInv', OnTime, [Next]_vars PROVE OnTime'
    OBVIOUS
  <2>1. ASSUME NEW t \in Timers, Start(t) \/ Stop(t) PROVE OnTime'
    BY <2>1, OnTimeStart
  <2>2. CASE PassBegin \/ UNCHANGED vars
    BY <2>2, OnTimeBegin
  <2>3. CASE PassEnd
    BY <1>1, <2>3, OnTimeEnd
  <2>4. CASE PassCall
    BY <2>4, OnTimeCall
  <2>5. CASE Tick
    BY <2>5, OnTimeTick
  <2>6. QED
    BY <2>1, <2>2, <2>3, <2>4, <2>5 DEF Next, Yield
<1>3. IInv /\ OnTime => OnTimeUntilWrap
  <2> SUFFICES ASSUME IInv, OnTime, ~crossed, NEW t \in Timers, Running(t)
               PROVE  left[t] >= 0 - Cardinality(Timers) * Lag
    BY DEF OnTimeUntilWrap
  <2>1. PICK i \in 1 .. Len(list) : list[i] = t
    BY InvTypes DEF Running, In
  <2>2. now - deadline[t] <= lag + Lag * Waits(i) /\ lag + Lag * Waits(i) <= N * Lag
    BY <2>1, Bounded DEF OnTime
  <2>3. left[t] >= deadline[t] - now /\ left[t] \in Int
    BY DEF IInv, Plain, TypeOK
  <2> DEFINE y == lag + Lag * Waits(i)
             z == N * Lag
  <2>4. y \in Int /\ z \in Int /\ deadline[t] \in Int /\ now \in Int
    <3>1. N \in Nat /\ i \in 1 .. N /\ lag \in Int /\ Lag \in Nat
      BY InvTypes, Constants
    <3>2. Lag * Waits(i) \in Nat
      BY <3>1, WaitsFacts, Times
    <3>3. N * Lag \in Nat
      BY <3>1
    <3>4. QED
      BY <2>1, <3>1, <3>2, <3>3, InvTypes
  <2>5. now - deadline[t] <= y /\ y <= z
    BY <2>2
  <2> HIDE DEF y, z
  <2>6. left[t] >= 0 - z
    BY <2>3, <2>4, <2>5
  <2>7. QED
    BY <2>6 DEF z, N
<1>4. Spec => [](IInv /\ OnTime)
  BY <1>2, OnTimeInit, InvInit, InvNext, PTL DEF Spec
<1>5. QED
  BY <1>3, <1>4, PTL

===============================================================================
