--------------------------- MODULE BleFramingProofs ---------------------------
(***************************************************************************)
(* Proofs about BleFraming, for any lengths of frames that four digits can  *)
(* say, any pack sizes and any app_mtu.  Until something is lost or a phone *)
(* writes a stray pack, the packs on their way follow on from the pack that *)
(* was read last up to the one that was written last, so the buffer is      *)
(* there and is where the next pack expects it.                             *)
(***************************************************************************)
EXTENDS BleFraming, ListFacts

Sending == phone.src # phone.len
Final(p) == p.src + p.n >= Read(p.len)

-----------------------------------------------------------------------------
(* Each pack by itself: some bytes, inside the frame, and numbered 0 if and *)
(* only if they are the frame's first.                                      *)
IsPack(p) ==
  /\ Read(p.len) \in Nat /\ p.n # 0 /\ p.src + p.n <= Read(p.len)
  /\ Read(p.seq) = 0 <=> p.src = 0

PhoneAt ==
  /\ phone.src <= phone.len /\ phone.seq <= phone.src
  /\ phone.id = 0 \/ phone.seq = 0 => phone.len = 0

Typed == TypeOK /\ PhoneAt /\ \A i \in 1 .. Len(chan) : IsPack(chan[i])

-----------------------------------------------------------------------------
(* The packs in their order, until something is lost or stray. *)

Before(p, q) == p.id < q.id \/ (p.id = q.id /\ p.src + p.n <= q.src /\ p.len = q.len)
Behind(p) ==
  p.id < phone.id \/ (p.id = phone.id /\ p.src + p.n <= phone.src /\ p.len = Digits(phone.len))

InOrder ==
  \A i \in 1 .. Len(chan) :
    Behind(chan[i]) /\ \A j \in 1 .. Len(chan) : i < j => Before(chan[i], chan[j])

(* A pack that is not its frame's first follows on from the one before it.  *)
FollowsOn(p, id, src) == p.id = id /\ p.src + p.n = src

NoGap ==
  /\ \A i \in 2 .. Len(chan) : chan[i].src # 0 => FollowsOn(chan[i - 1], chan[i].id, chan[i].src)
  /\ Sending /\ chan # <<>> => FollowsOn(chan[Len(chan)], phone.id, phone.src)

(* The buffer is ready for the next pack. *)
Ready(src, len) == buf # NoBuf /\ offset = src /\ frameLen = Read(len)

Receiving ==
  /\ chan # <<>> /\ chan[1].src # 0 => Ready(chan[1].src, chan[1].len)
  /\ chan = <<>> /\ Sending => Ready(phone.src, Digits(phone.len))

OrderInv ==
  /\ Typed
  /\ ~lost /\ stray = 0 => crashed # "null"
  /\ Steady => InOrder /\ NoGap /\ Receiving

-----------------------------------------------------------------------------
(* What was written to the last byte is what was handed on and what is in   *)
(* the packs that end a frame.                                              *)

Past(id) == id <= phone.id /\ (Sending => id < phone.id)

Written ==
  /\ \A i \in 1 .. Len(whole) : /\ Past(whole[i])
                                /\ \A j \in 1 .. Len(whole) : i < j => whole[i] < whole[j]
  /\ \A i \in 1 .. Len(got) : /\ Past(got[i].id)
                              /\ \A j \in 1 .. Len(got) : i < j => got[i].id < got[j].id
                              /\ \A j \in 1 .. Len(chan) : got[i].id < chan[j].id
  /\ \A m \in 1 .. MaxFrames :
       (\E i \in 1 .. Len(whole) : whole[i] = m) <=>
          \/ \E i \in 1 .. Len(got) : got[i].id = m
          \/ \E j \in 1 .. Len(chan) : chan[j].id = m /\ Final(chan[j])

IInv == OrderInv /\ (Steady => Written)

-----------------------------------------------------------------------------
(* Numbers and their digits. *)

LEMMA Division ==
  ASSUME NEW n \in Nat, NEW b \in Nat \ {0}
  PROVE  /\ n % b \in 0 .. b - 1 /\ n \div b \in Nat
         /\ n = b * (n \div b) + (n % b)
OBVIOUS

LEMMA MaxFrameNat == MaxFrame \in Nat /\ 16383 < MaxFrame
BY SMT DEF MaxFrame

LEMMA DigitsFacts ==
  ASSUME NEW n \in Nat, n <= MaxFrame
  PROVE  /\ Digits(n) \in Seq(0 .. 127)
         /\ Read(Digits(n)) \in Nat /\ Read(Digits(n)) >= n
         /\ Read(Digits(n)) = 0 <=> n = 0
         /\ n < 16384 => Read(Digits(n)) = n /\ Len(Digits(n)) \in 1 .. 2
<1> DEFINE a == n \div 128
           b == n \div 16384
           c == n \div 2097152
           d1 == n % 128
           d2 == a % 128
           d3 == b % 128
           d4 == c % 128
           e2 == a \div 128
           e3 == b \div 128
           e4 == c \div 128
           r2 == n % 16384
           r3 == n % 2097152
<1>0. n \in Nat /\ n < 268435456
  BY SMT DEF MaxFrame
<1>1. a \in Nat /\ d1 \in 0 .. 127 /\ n = 128 * a + d1
  BY <1>0, Division, SMT
<1>2. b \in Nat /\ r2 \in Nat /\ r2 < 16384 /\ n = 16384 * b + r2
  <2>1. r2 \in 0 .. 16384 - 1 /\ b \in Nat /\ n = 16384 * b + r2
    BY <1>0, Division, SMT
  <2>2. QED
    BY <2>1, SMT
<1>3. c \in Nat /\ r3 \in Nat /\ r3 < 2097152 /\ n = 2097152 * c + r3
  <2>1. c \in Nat
    BY <1>0, SMT
  <2>2. r3 \in Nat /\ r3 < 2097152
    BY <1>0, SMT
  <2>3. n = 2097152 * c + r3
    BY <1>0, SMT
  <2>4. QED
    BY <2>1, <2>2, <2>3
<1> HIDE DEF a, b, c, d1, r2, r3
<1>4. d2 \in 0 .. 127 /\ e2 \in Nat /\ a = 128 * e2 + d2
  BY <1>1, Division, SMT
<1>5. d3 \in 0 .. 127 /\ e3 \in Nat /\ b = 128 * e3 + d3
  <2>1. b \in Nat
    BY <1>2
  <2>2. QED
    BY <2>1, Division, SMT
<1>6. d4 \in 0 .. 127 /\ e4 \in Nat /\ c = 128 * e4 + d4
  <2>1. c \in Nat
    BY <1>3
  <2>2. QED
    BY <2>1, Division, SMT
<1> HIDE DEF d2, d3, d4, e2, e3, e4
<1>7. e2 = b
  <2>1. n = 16384 * e2 + (128 * d2 + d1)
    BY <1>1, <1>4, SMT
  <2>2. 128 * d2 + d1 \in Nat /\ 128 * d2 + d1 < 16384
    BY <1>1, <1>4, SMT
  <2>3. ~(e2 > b)
    BY <1>2, <1>4, <2>1, <2>2, SMT
  <2>4. ~(b > e2)
    BY <1>2, <1>4, <2>1, <2>2, SMT
  <2>5. QED
    BY <1>2, <1>4, <2>3, <2>4, SMT
<1>8. e3 = c
  <2>1. n = 2097152 * e3 + (16384 * d3 + r2)
    BY <1>2, <1>5, SMT
  <2>2. 16384 * d3 + r2 \in Nat /\ 16384 * d3 + r2 < 2097152
    BY <1>2, <1>5, SMT
  <2>3. ~(e3 > c)
    BY <1>3, <1>5, <2>1, <2>2, SMT
  <2>4. ~(c > e3)
    BY <1>3, <1>5, <2>1, <2>2, SMT
  <2>5. QED
    BY <1>3, <1>5, <2>3, <2>4, SMT
<1>9. n = d1 + 128 * d2 + 16384 * b
  BY <1>1, <1>2, <1>4, <1>7, SMT
<1>10. n = d1 + 128 * d2 + 16384 * d3 + 2097152 * c
  BY <1>1, <1>3, <1>4, <1>5, <1>8, <1>9, SMT
<1>11. CASE n < 128
  <2>1. Digits(n) = <<n>>
    BY <1>11, SMT DEF Digits
  <2>2. n \in 0 .. 127
    BY <1>0, <1>11, SMT
  <2>3. Read(<<n>>) = n
    BY <1>0, SMT DEF Read
  <2>4. QED
    BY <1>0, <1>11, <2>1, <2>2, <2>3, SMT
<1>12. CASE n >= 128 /\ n < 16384
  <2>1. Digits(n) = <<d1, a>>
    BY <1>0, <1>12, SMT DEF Digits, a, d1
  <2>2. a \in 0 .. 127
    BY <1>0, <1>1, <1>12, SMT
  <2>3. Read(<<d1, a>>) = d1 + 128 * a
    BY <1>1, <2>2, SMT DEF Read
  <2>4. Len(<<d1, a>>) = 2 /\ <<d1, a>> \in Seq(0 .. 127)
    BY <1>1, <2>2, SMT
  <2>5. QED
    <3>1. Read(Digits(n)) = n
      BY <1>1, <2>1, <2>3, <2>2, SMT
    <3>2. n # 0
      BY <1>12, SMT
    <3>3. QED
      BY <1>0, <2>1, <2>4, <3>1, <3>2, SMT
<1>13. CASE n >= 16384 /\ n < 2097152
  <2>1. Digits(n) = <<d1, d2, b>>
    BY <1>0, <1>13, SMT DEF Digits, a, b, d1, d2
  <2>2. b \in 0 .. 127
    BY <1>0, <1>2, <1>13, SMT
  <2>3. Read(<<d1, d2, b>>) = d1 + 128 * d2 + 32768 * b
    BY <1>1, <1>4, <2>2, SMT DEF Read
  <2>5. d1 + 128 * d2 + 32768 * b >= n
    BY <1>1, <1>4, <1>9, <2>2, SMT
  <2>6. <<d1, d2, b>> \in Seq(0 .. 127)
    BY <1>1, <1>4, <2>2, SMT
  <2>7. QED
    <3>1. Digits(n) \in Seq(0 .. 127) /\ ~(n < 16384) /\ n # 0
      BY <1>13, <2>1, <2>6, SMT
    <3>2. Read(Digits(n)) \in Nat /\ Read(Digits(n)) >= n
      BY <1>1, <1>4, <2>1, <2>2, <2>3, <2>5, SMT
    <3>3. Read(Digits(n)) # 0
      BY <1>13, <3>2, SMT
    <3>4. QED
      BY <3>1, <3>2, <3>3
<1>14. CASE n >= 2097152
  <2>1. Digits(n) = <<d1, d2, d3, d4>>
    BY <1>0, <1>14, SMT DEF Digits, a, b, c, d1, d2, d3, d4
  <2>2. d4 = c
    <3>1. e4 = 0
      BY <1>0, <1>3, <1>6, SMT
    <3>2. QED
      BY <1>6, <3>1, SMT
  <2>3. Read(<<d1, d2, d3, d4>>) = d1 + 128 * d2 + 32768 * d3 + 8388608 * d4
    BY <1>1, <1>4, <1>5, <1>6, SMT DEF Read
  <2>5. d1 + 128 * d2 + 32768 * d3 + 8388608 * d4 >= n
    BY <1>1, <1>4, <1>5, <1>6, <1>10, <2>2, SMT
  <2>6. <<d1, d2, d3, d4>> \in Seq(0 .. 127)
    BY <1>1, <1>4, <1>5, <1>6, SMT
  <2>7. QED
    <3>1. Digits(n) \in Seq(0 .. 127) /\ ~(n < 16384) /\ n # 0
      BY <1>14, <2>1, <2>6, SMT
    <3>2. Read(Digits(n)) \in Nat /\ Read(Digits(n)) >= n
      BY <1>1, <1>4, <1>5, <1>6, <2>1, <2>3, <2>5, SMT
    <3>3. Read(Digits(n)) # 0
      BY <1>14, <3>2, SMT
    <3>4. QED
      BY <3>1, <3>2, <3>3
<1>15. n < 128 \/ (n >= 128 /\ n < 16384) \/ (n >= 16384 /\ n < 2097152) \/ n >= 2097152
  BY <1>0, SMT
<1>16. QED
  BY <1>11, <1>12, <1>13, <1>14, <1>15, SMT

LEMMA DigitsLen ==
  /\ \A n \in Nat : Len(Digits(n)) \in 1 .. 4
  /\ Len(Digits(0)) = 1
<1>1. ASSUME NEW n \in Nat PROVE Len(Digits(n)) \in 1 .. 4
  BY SMT DEF Digits
<1>2. Digits(0) = <<0>>
  BY SMT DEF Digits
<1>3. QED
  BY <1>1, <1>2

-----------------------------------------------------------------------------
(* The packs of an answer. *)

RspPacks == [seq : Seq(0 .. 127), src : Nat, n : Nat]

(* Numbered from 0, each beginning where the one before ended. *)
Chained(s) ==
  \A i \in 1 .. Len(s) :
    /\ Read(s[i].seq) = i - 1
    /\ s[i].src = (IF i = 1 THEN 0 ELSE s[i - 1].src + s[i - 1].n)

Sizes == RspSizes \cup {0}

LEMMA RspConstants ==
  ASSUME NEW size \in Sizes, NEW mtu \in Mtus
  PROVE  /\ size \in Nat /\ size < 16384 /\ size <= MaxFrame
         /\ mtu \in Nat
<1>1. (size \in 1 .. MaxRsp \/ size = 0) /\ mtu \in Nat
  BY FramingAssumption DEF Sizes
<1>2. size \in Nat /\ size <= 289
  BY <1>1, SMT DEF MaxRsp
<1>3. mtu \in Nat
  BY <1>1, SMT
<1>4. QED
  BY <1>2, <1>3, MaxFrameNat, SMT

(* The first pack carries all of the frame when there is no room for its    *)
(* head; otherwise every other pack carries a byte at least.                *)
LEMMA PackBytesFacts ==
  ASSUME NEW size \in Sizes, NEW mtu \in Mtus, NEW seq \in Nat
  PROVE  /\ PackBytes(seq, size, mtu) \in Nat
         /\ Overruns(size, mtu) /\ seq = 0 => PackBytes(seq, size, mtu) = size
         /\ ~Overruns(size, mtu) /\ size # 0 /\ seq \in 1 .. size => PackBytes(seq, size, mtu) >= 1
<1> DEFINE x == PackLen(size, mtu)
           y == PackHead(seq, size)
           k == Len(Digits(size))
           d == Len(Digits(seq))
<1>1. size \in Nat /\ size < 16384 /\ size <= MaxFrame /\ mtu \in Nat /\ MaxFrame \in Nat /\ 16383 < MaxFrame
  BY RspConstants, MaxFrameNat, SMT
<1>2. d \in 1 .. 4 /\ k \in 1 .. 2 /\ Len(Digits(0)) = 1
  BY <1>1, DigitsLen, DigitsFacts
<1>3. seq <= size => d \in 1 .. 2
  <2>1. SUFFICES ASSUME seq <= size PROVE d \in 1 .. 2
    OBVIOUS
  <2>2. seq <= MaxFrame /\ seq < 16384
    BY <1>1, <2>1, SMT
  <2>3. QED
    BY <2>1, <2>2, DigitsFacts
<1>4. x \in Nat
  BY <1>1, SMT DEF PackLen
<1>5. /\ seq = 0 => y = 1 + (k + 1)
      /\ seq # 0 => y = d + 0
  BY <1>2, Zenon DEF PackHead
<1>6. PackHead(0, size) = 1 + (k + 1)
  BY <1>2, Zenon DEF PackHead
<1>7. Overruns(size, mtu) <=> x < 1 + (k + 1)
  BY <1>6, Zenon DEF Overruns
<1>8. PackBytes(seq, size, mtu) = IF x < y THEN size ELSE AtMost(x - y, size)
  BY DEF PackBytes
<1> HIDE DEF x, y, k, d
<1>9. y \in Nat
  BY <1>2, <1>5, SMT
<1>10. PackBytes(seq, size, mtu) \in Nat
  BY <1>1, <1>4, <1>8, <1>9, SMT DEF AtMost
<1>11. Overruns(size, mtu) /\ seq = 0 => PackBytes(seq, size, mtu) = size
  BY <1>5, <1>7, <1>8, SMT
<1>12. ASSUME ~Overruns(size, mtu), size # 0, seq \in 1 .. size PROVE PackBytes(seq, size, mtu) >= 1
  <2>1. x >= 3 /\ y \in 1 .. 2
    BY <1>2, <1>3, <1>4, <1>5, <1>7, <1>12, SMT
  <2>2. PackBytes(seq, size, mtu) = AtMost(x - y, size)
    BY <1>4, <1>8, <1>9, <2>1, SMT
  <2>3. QED
    BY <1>1, <1>4, <1>12, <2>1, <2>2, SMT DEF AtMost
<1>13. QED
  BY <1>10, <1>11, <1>12

LEMMA SentFacts ==
  ASSUME NEW size \in Sizes, NEW mtu \in Mtus
  PROVE  /\ Sent(size, mtu) \in [Nat -> Nat] /\ Sent(size, mtu)[0] = 0
         /\ \A k \in Nat : Sent(size, mtu)[k + 1] = Sent(size, mtu)[k] + PackBytes(k, size, mtu)
<1> DEFINE b == [k \in Nat |-> PackBytes(k, size, mtu)]
<1>1. b \in [Nat -> Nat]
  BY PackBytesFacts
<1>2. ASSUME NEW f
      PROVE  IsSum(f, b) <=>
               f = [seq \in Nat |-> IF seq = 0 THEN 0 ELSE f[seq - 1] + PackBytes(seq - 1, size, mtu)]
  <2>1. \A k \in Nat : k # 0 => k - 1 \in Nat
    OBVIOUS
  <2>2. \A k \in Nat : k # 0 => b[k - 1] = PackBytes(k - 1, size, mtu)
    BY <2>1
  <2> HIDE DEF b
  <2>3. [k \in Nat |-> IF k = 0 THEN 0 ELSE f[k - 1] + b[k - 1]]
        = [seq \in Nat |-> IF seq = 0 THEN 0 ELSE f[seq - 1] + PackBytes(seq - 1, size, mtu)]
    BY <2>2
  <2>4. QED
    BY <2>3 DEF IsSum
<1>3. PICK f : f = [seq \in Nat |-> IF seq = 0 THEN 0 ELSE f[seq - 1] + PackBytes(seq - 1, size, mtu)]
  <2> HIDE DEF b
  <2>1. PICK f : IsSum(f, b)
    BY <1>1, SumExists
  <2>2. QED
    BY <1>2, <2>1
<1> DEFINE s == Sent(size, mtu)
<1>4. s = [seq \in Nat |-> IF seq = 0 THEN 0 ELSE s[seq - 1] + PackBytes(seq - 1, size, mtu)]
  BY <1>3 DEF Sent
<1> HIDE DEF s
<1>5. IsSum(s, b)
  BY <1>2, <1>4
<1>6. s \in [Nat -> Nat] /\ s[0] = 0 /\ \A k \in Nat : s[k + 1] = s[k] + b[k]
  <2> HIDE DEF b
  <2>1. QED
    BY <1>1, <1>5, SumFacts
<1>7. QED
  BY <1>6 DEF s

LEMMA PackCountFacts ==
  ASSUME NEW size \in Sizes, NEW mtu \in Mtus
  PROVE  PackCount(size, mtu) \in 1 .. size + 1 /\ size <= Sent(size, mtu)[PackCount(size, mtu)]
<1> DEFINE s == Sent(size, mtu)
<1>0. size \in Nat
  BY RspConstants
<1>1. /\ s \in [Nat -> Nat] /\ s[0] = 0
      /\ \A k \in Nat : s[k + 1] = s[k] + PackBytes(k, size, mtu)
  BY SentFacts
<1>2. \A k \in Nat : PackBytes(k, size, mtu) \in Nat
  BY PackBytesFacts
<1> HIDE DEF s
<1>3. s[1] = PackBytes(0, size, mtu) /\ s[1] \in Nat
  BY <1>1, <1>2
<1>4. \E m \in 1 .. size + 1 : size <= s[m]
  <2>1. CASE size = 0 \/ Overruns(size, mtu)
    <3>1. size <= s[1]
      BY <1>0, <1>3, <2>1, PackBytesFacts
    <3>2. QED
      BY <1>0, <3>1
  <2>2. CASE size # 0 /\ ~Overruns(size, mtu)
    <3> DEFINE bad == {k \in Nat : k \in 1 .. size + 1 /\ ~(s[k] + 1 >= k)}
    <3>1. bad = {}
      <4>1. SUFFICES ASSUME bad # {} PROVE FALSE
        OBVIOUS
      <4>2. PICK k \in bad : \A y \in bad : k <= y
        <5>1. bad \subseteq Nat
          OBVIOUS
        <5> HIDE DEF bad
        <5>2. QED
          BY <4>1, <5>1, LeastOf
      <4>3. k \in 1 .. size + 1 /\ ~(s[k] + 1 >= k)
        OBVIOUS
      <4>4. k # 1 /\ k - 1 \in 1 .. size + 1 /\ k - 1 \in Nat /\ ~(k <= k - 1) /\ k - 1 \in 1 .. size
        BY <1>0, <1>3, <4>3
      <4>5. k - 1 \notin bad
        <5> HIDE DEF bad
        <5>1. QED
          BY <4>2, <4>4
      <4>6. s[k - 1] + 1 >= k - 1
        BY <4>4, <4>5
      <4>7. s[k - 1 + 1] = s[k - 1] + PackBytes(k - 1, size, mtu) /\ k - 1 + 1 = k
        BY <1>1, <4>3, <4>4
      <4>8. PackBytes(k - 1, size, mtu) \in Nat /\ PackBytes(k - 1, size, mtu) >= 1 /\ s[k - 1] \in Nat
        BY <1>1, <1>2, <2>2, <4>4, PackBytesFacts
      <4> HIDE DEF bad
      <4>9. QED
        BY <4>3, <4>6, <4>7, <4>8
    <3>2. size + 1 \in Nat /\ size + 1 \in 1 .. size + 1 /\ s[size + 1] \in Nat
      BY <1>0, <1>1
    <3>3. s[size + 1] + 1 >= size + 1
      BY <3>1, <3>2
    <3> HIDE DEF bad
    <3>4. size <= s[size + 1]
      BY <1>0, <3>2, <3>3
    <3>5. QED
      BY <3>2, <3>4
  <2>3. QED
    BY <2>1, <2>2
<1>5. \E k \in 1 .. size + 1 : size <= s[k] /\ (k = 1 \/ s[k - 1] < size)
  <2> DEFINE T == {k \in Nat : k \in 1 .. size + 1 /\ size <= s[k]}
  <2>1. T \subseteq Nat /\ T # {}
    BY <1>4
  <2> HIDE DEF T
  <2>2. PICK k \in T : \A y \in T : k <= y
    BY <2>1, LeastOf
  <2>3. k \in 1 .. size + 1 /\ size <= s[k]
    BY <2>2 DEF T
  <2>4. SUFFICES ASSUME k # 1 PROVE s[k - 1] < size
    BY <2>3
  <2>5. k - 1 \in Nat /\ ~(k <= k - 1) /\ k - 1 \in 1 .. size + 1
    BY <1>0, <2>3, <2>4
  <2>6. k - 1 \notin T
    BY <2>2, <2>5
  <2>7. s[k - 1] \in Nat /\ ~(size <= s[k - 1])
    BY <1>1, <2>5, <2>6 DEF T
  <2>8. QED
    BY <1>0, <2>7
<1>6. QED
  BY <1>5, Zenon DEF PackCount, s

LEMMA FirstPacksFacts ==
  ASSUME NEW size \in Sizes, NEW mtu \in Mtus, NEW count \in 0 .. size + 1
  PROVE  LET s == FirstPacks(size, mtu, count)
         IN  /\ s \in Seq(RspPacks) /\ Len(s) = count /\ Chained(s)
             /\ count # 0 => s[count].src + s[count].n = Sent(size, mtu)[count]
<1> DEFINE s == FirstPacks(size, mtu, count)
           t == Sent(size, mtu)
<1>0. size \in Nat /\ size < 16384 /\ size <= MaxFrame /\ count \in Nat /\ MaxFrame \in Nat
  BY RspConstants, MaxFrameNat
<1>1. /\ t \in [Nat -> Nat] /\ t[0] = 0
      /\ \A k \in Nat : t[k + 1] = t[k] + PackBytes(k, size, mtu)
  BY SentFacts
<1>2. \A i \in 1 .. count : s[i] = [seq |-> Digits(i - 1), src |-> t[i - 1], n |-> PackBytes(i - 1, size, mtu)]
  BY DEF FirstPacks
<1>3. ASSUME NEW i \in 1 .. count
      PROVE  /\ i - 1 \in Nat /\ s[i] \in RspPacks /\ Read(s[i].seq) = i - 1
             /\ s[i].src = t[i - 1] /\ s[i].src + s[i].n = t[i]
  <2>1. i - 1 \in Nat /\ i - 1 < 16384 /\ i - 1 <= MaxFrame /\ i - 1 + 1 = i
    BY <1>0
  <2>2. Digits(i - 1) \in Seq(0 .. 127) /\ Read(Digits(i - 1)) = i - 1
    BY <2>1, DigitsFacts
  <2>3. PackBytes(i - 1, size, mtu) \in Nat /\ t[i - 1] \in Nat
    BY <1>1, <2>1, PackBytesFacts
  <2>4. t[i - 1 + 1] = t[i - 1] + PackBytes(i - 1, size, mtu)
    BY <1>1, <2>1
  <2> HIDE DEF s, t
  <2>5. s[i] \in RspPacks /\ s[i].seq = Digits(i - 1) /\ s[i].src = t[i - 1] /\ s[i].n = PackBytes(i - 1, size, mtu)
    <3> DEFINE d == Digits(i - 1)
               x == t[i - 1]
               y == PackBytes(i - 1, size, mtu)
    <3>1. d \in Seq(0 .. 127) /\ x \in Nat /\ y \in Nat
      BY <2>2, <2>3
    <3>2. s[i] = [seq |-> d, src |-> x, n |-> y]
      BY <1>2
    <3> HIDE DEF d, x, y
    <3>3. s[i] \in RspPacks /\ s[i].seq = d /\ s[i].src = x /\ s[i].n = y
      BY <3>1, <3>2 DEF RspPacks
    <3>4. QED
      BY <3>3 DEF d, x, y
  <2>6. QED
    BY <2>1, <2>2, <2>4, <2>5
<1>4. s = [i \in 1 .. count |-> s[i]]
  BY DEF FirstPacks
<1> HIDE DEF s, t
<1>5. s \in [1 .. count -> RspPacks]
  BY <1>3, <1>4
<1>6. s \in Seq(RspPacks) /\ Len(s) = count
  <2>1. s \in Seq(RspPacks)
    BY <1>0, <1>5, IsASeq
  <2>2. QED
    BY <1>0, <1>5, <2>1, LenProperties
<1>7. Chained(s)
  <2> SUFFICES ASSUME NEW i \in 1 .. count
               PROVE  s[i].src = (IF i = 1 THEN 0 ELSE s[i - 1].src + s[i - 1].n)
    BY <1>3, <1>6 DEF Chained
  <2>1. CASE i = 1
    BY <1>1, <1>3, <2>1
  <2>2. CASE i # 1
    <3>1. i - 1 \in 1 .. count
      BY <1>0, <2>2
    <3>2. QED
      BY <1>3, <2>2, <3>1
  <2>3. QED
    BY <2>1, <2>2
<1>8. count # 0 => s[count].src + s[count].n = t[count]
  <2>1. SUFFICES ASSUME count # 0 PROVE s[count].src + s[count].n = t[count]
    OBVIOUS
  <2>2. count \in 1 .. count
    BY <1>0, <2>1
  <2>3. QED
    BY <1>3, <2>2
<1>9. QED
  BY <1>6, <1>7, <1>8 DEF s, t

-----------------------------------------------------------------------------
(* What is notified. *)

RspType == [size : RspSizes \cup {0}, done : BOOLEAN, packs : Seq(RspPacks)]

Reached(r) ==
  r.done => r.packs[Len(r.packs)].src + r.packs[Len(r.packs)].n >= r.size

AnswerInv == rsp \in RspType /\ Chained(rsp.packs) /\ Reached(rsp)

LEMMA PrefixFacts ==
  ASSUME NEW S, NEW s \in Seq(S), NEW k \in 0 .. Len(s) - 1
  PROVE  SubSeq(s, 1, k) \in Seq(S) /\ (Chained(s) => Chained(SubSeq(s, 1, k)))
<1> DEFINE a == SubSeq(s, 1, k)
<1>0. Len(s) \in Nat /\ k \in Nat /\ k <= Len(s)
  BY LenProperties
<1>1. \A i \in 1 .. Len(s) : s[i] \in S
  BY ElementOfSeq
<1>2. a \in Seq(S) /\ Len(a) = k /\ \A i \in 1 .. k : a[i] = s[i]
  <2>1. \A i \in 1 .. k : s[i] \in S
    BY <1>0, <1>1
  <2>2. /\ a \in Seq(S) /\ Len(a) = IF 1 <= k THEN k - 1 + 1 ELSE 0
        /\ \A i \in 1 .. k - 1 + 1 : a[i] = s[1 + i - 1]
    BY <1>0, <2>1, SubSeqProperties
  <2>3. k - 1 + 1 = k /\ \A i \in 1 .. k : 1 + i - 1 = i
    BY <1>0
  <2> HIDE DEF a
  <2>4. Len(a) = k
    BY <1>0, <2>2, <2>3
  <2>5. \A i \in 1 .. k : a[i] = s[i]
    BY <2>2, <2>3
  <2>6. QED
    BY <2>2, <2>4, <2>5
<1> HIDE DEF a
<1>3. ASSUME Chained(s) PROVE Chained(a)
  <2> SUFFICES ASSUME NEW i \in 1 .. k
               PROVE  /\ Read(a[i].seq) = i - 1
                      /\ a[i].src = (IF i = 1 THEN 0 ELSE a[i - 1].src + a[i - 1].n)
    BY <1>2 DEF Chained
  <2>1. i \in 1 .. Len(s) /\ a[i] = s[i]
    BY <1>0, <1>2
  <2>2. i # 1 => i - 1 \in 1 .. k
    BY <1>0
  <2>3. i # 1 => a[i - 1] = s[i - 1]
    BY <1>2, <2>2
  <2>4. Read(s[i].seq) = i - 1 /\ s[i].src = (IF i = 1 THEN 0 ELSE s[i - 1].src + s[i - 1].n)
    BY <1>3, <2>1 DEF Chained
  <2>5. QED
    BY <2>1, <2>3, <2>4
<1>4. QED
  BY <1>2, <1>3 DEF a

LEMMA WholeAnswer ==
  ASSUME NEW size \in Sizes, NEW mtu \in Mtus
  PROVE  LET all == Answers[size][mtu]
         IN  /\ all \in Seq(RspPacks) /\ Chained(all)
             /\ all[Len(all)].src + all[Len(all)].n >= size
<1> DEFINE count == PackCount(size, mtu)
           s == FirstPacks(size, mtu, count)
           t == Sent(size, mtu)
<1>1. size \in Nat /\ count \in 1 .. size + 1 /\ size <= t[count]
  BY RspConstants, PackCountFacts
<1>2. t \in [Nat -> Nat]
  BY SentFacts
<1>3. Answers[size][mtu] = s
  BY DEF Answers, Packs, Sizes
<1> HIDE DEF count, t
<1>4. count \in 0 .. size + 1 /\ count # 0 /\ count \in Nat
  BY <1>1
<1>5. /\ s \in Seq(RspPacks) /\ Len(s) = count /\ Chained(s)
      /\ s[count].src + s[count].n = t[count]
  BY <1>4, FirstPacksFacts DEF t
<1> HIDE DEF s
<1>6. QED
  BY <1>1, <1>2, <1>3, <1>4, <1>5

LEMMA AnswerFacts ==
  ASSUME Answer
  PROVE  rsp' \in RspType /\ Chained(rsp.packs)' /\ Reached(rsp)'
<1>1. ASSUME rsp' = NoAnswer PROVE rsp' \in RspType /\ Chained(rsp.packs)' /\ Reached(rsp)'
  <2>1. <<>> \in Seq(RspPacks) /\ Len(<<>>) = 0 /\ 1 .. 0 = {}
    OBVIOUS
  <2>2. rsp'.packs = <<>> /\ rsp'.done = FALSE /\ rsp'.size = 0
    BY <1>1 DEF NoAnswer
  <2>3. rsp' \in RspType
    BY <1>1, <2>1 DEF NoAnswer, RspType
  <2>4. Chained(<<>>)
    BY <2>1 DEF Chained
  <2>5. QED
    BY <2>2, <2>3, <2>4 DEF Reached
<1>2. ASSUME NEW size \in Sizes, NEW mtu \in Mtus,
             rsp' = [size |-> size, packs |-> Answers[size][mtu], done |-> TRUE]
      PROVE  rsp' \in RspType /\ Chained(rsp.packs)' /\ Reached(rsp)'
  <2> DEFINE all == Answers[size][mtu]
  <2>1. /\ all \in Seq(RspPacks) /\ Chained(all)
        /\ all[Len(all)].src + all[Len(all)].n >= size
    BY WholeAnswer
  <2>2. rsp' = [size |-> size, packs |-> all, done |-> TRUE]
    BY <1>2
  <2> HIDE DEF all
  <2>3. rsp'.packs = all /\ rsp'.size = size
    BY <2>2
  <2>4. rsp' \in RspType
    BY <2>1, <2>2 DEF RspType, Sizes
  <2>5. Reached(rsp)'
    BY <2>1, <2>3 DEF Reached
  <2>6. QED
    BY <2>1, <2>3, <2>4, <2>5
<1>3. ASSUME NEW size \in Sizes, NEW mtu \in Mtus, NEW k \in 0 .. Len(Answers[size][mtu]) - 1,
             rsp' = [size |-> size, packs |-> SubSeq(Answers[size][mtu], 1, k), done |-> FALSE]
      PROVE  rsp' \in RspType /\ Chained(rsp.packs)' /\ Reached(rsp)'
  <2> DEFINE some == SubSeq(Answers[size][mtu], 1, k)
  <2>1. some \in Seq(RspPacks) /\ Chained(some)
    BY WholeAnswer, PrefixFacts
  <2>2. rsp' = [size |-> size, packs |-> some, done |-> FALSE]
    BY <1>3
  <2> HIDE DEF some
  <2>3. rsp'.packs = some /\ rsp'.done = FALSE
    BY <2>2
  <2>4. rsp' \in RspType
    BY <2>1, <2>2 DEF RspType, Sizes
  <2>5. QED
    BY <2>1, <2>3, <2>4 DEF Reached
<1>4. ASSUME NEW size \in Sizes, Send(size)
      PROVE  rsp' \in RspType /\ Chained(rsp.packs)' /\ Reached(rsp)'
  BY <1>1, <1>2, <1>3, <1>4 DEF Send
<1>5. QED
  BY <1>1, <1>4 DEF Answer, Sizes

(* Whatever is read, the answer is kept or is a new one. *)
LEMMA RspStep ==
  ASSUME [Next]_vars
  PROVE  Answer \/ rsp' = rsp
<1>1. ASSUME NEW p, NEW b, NEW off, NEW len, Collect(p, b, off, len)
      PROVE  Answer \/ rsp' = rsp
  BY <1>1 DEF Collect, HandOn
<1>2. CASE WritePack
  BY <1>2 DEF WritePack
<1>3. CASE Leave
  BY <1>3 DEF Leave
<1>4. CASE FirstPack
  BY <1>1, <1>4 DEF FirstPack
<1>5. CASE NextPack
  BY <1>1, <1>5 DEF NextPack
<1>6. CASE WriteStray
  BY <1>6 DEF WriteStray
<1>7. CASE UNCHANGED vars
  BY <1>7 DEF vars
<1>8. QED
  BY <1>2, <1>3, <1>4, <1>5, <1>6, <1>7 DEF Next

LEMMA AnswerKept == AnswerInv /\ [Next]_vars => AnswerInv'
<1> SUFFICES ASSUME AnswerInv, [Next]_vars PROVE AnswerInv'
  OBVIOUS
<1>1. CASE Answer
  BY <1>1, AnswerFacts DEF AnswerInv
<1>2. CASE rsp' = rsp
  BY <1>2 DEF AnswerInv, Reached
<1>3. QED
  BY <1>1, <1>2, RspStep

LEMMA AnswerFirst == Init => AnswerInv
<1>1. <<>> \in Seq(RspPacks) /\ 1 .. Len(<<>>) = {}
  OBVIOUS
<1>2. Chained(<<>>)
  BY <1>1 DEF Chained
<1>3. QED
  BY <1>1, <1>2 DEF Init, NoAnswer, AnswerInv, RspType, Reached

(* The packs that are notified of any answer, at any app_mtu, follow on     *)
(* from one another from byte 0, and reach the end of the answer unless     *)
(* notify failed, as long as the program runs: at an app_mtu too small for  *)
(* the first head it may end instead, by the copy past the end of the pack  *)
(* (ble_rsp_data_pack_and_send).                                            *)
THEOREM AnswersComplete == Spec => []AnswerComplete
<1>1. AnswerInv => AnswerComplete
  <2> SUFFICES ASSUME AnswerInv PROVE AnswerComplete
    OBVIOUS
  <2>1. rsp.packs \in Seq(RspPacks)
    BY DEF AnswerInv, RspType
  <2>2. DOMAIN rsp.packs = 1 .. Len(rsp.packs)
    BY <2>1, LenProperties
  <2>3. QED
    BY <2>2 DEF AnswerInv, AnswerComplete, Chained, Reached
<1>2. QED
  BY <1>1, AnswerFirst, AnswerKept, PTL DEF Spec

-----------------------------------------------------------------------------
(* Types, and each pack by itself. *)

PackType == [id : 1 .. MaxFrames, seq : Seq(0 .. 127), len : Seq(0 .. 127), src : Nat, n : Nat]
Segments == [id : 1 .. MaxFrames, src : Nat, at : Nat, n : Nat]
Handed == [id : 1 .. MaxFrames, single : BOOLEAN, intact : BOOLEAN]

LEMMA FrameConstants ==
  /\ \A l \in FrameLens : l \in Nat /\ l # 0 /\ l <= MaxFrame
  /\ PhonePack \in Nat /\ PhonePack # 0 /\ MaxFrames \in Nat
<1>1. ASSUME NEW l \in FrameLens PROVE l \in Nat /\ l # 0 /\ l <= MaxFrame
  <2>1. l \in 1 .. MaxFrame /\ MaxFrame \in Nat
    BY FramingAssumption, MaxFrameNat
  <2>2. QED
    BY <2>1
<1>2. QED
  BY <1>1, FramingAssumption

LEMMA TailFacts ==
  ASSUME NEW S, NEW s \in Seq(S), s # <<>>
  PROVE  /\ Len(s) \in Nat /\ Len(s) # 0 /\ 1 \in 1 .. Len(s)
         /\ Head(s) = s[1] /\ s[1] \in S
         /\ Tail(s) \in Seq(S) /\ Len(Tail(s)) = Len(s) - 1
         /\ \A i \in 1 .. Len(s) - 1 : Tail(s)[i] = s[i + 1] /\ i + 1 \in 1 .. Len(s)
OBVIOUS

(* A step of WritePack: f is the frame as it was, p the pack cut from it. *)
Cuts(f, p) ==
  /\ f.id \in 1 .. MaxFrames /\ f.len \in FrameLens /\ f.src \in Nat /\ f.seq \in Nat
  /\ f.seq <= f.src /\ (f.seq = 0 => f.src = 0)
  /\ p = [id |-> f.id, seq |-> Digits(f.seq), len |-> Digits(f.len), src |-> f.src, n |-> p.n]
  /\ p.n \in Nat /\ p.n # 0 /\ f.src + p.n <= f.len

Writes(f, p) ==
  /\ Cuts(f, p)
  /\ \/ ~Sending /\ f.id = phone.id + 1 /\ f.src = 0
     \/ Sending /\ f.id = phone.id /\ f.len = phone.len /\ f.src = phone.src
  /\ \/ chan' = Append(chan, p) /\ lost' = lost
     \/ chan' = chan /\ lost' = TRUE
  /\ phone' = [id |-> f.id, len |-> f.len, src |-> f.src + p.n, seq |-> f.seq + 1]
  /\ whole' = IF f.src + p.n = f.len THEN Append(whole, f.id) ELSE whole

LEMMA ToWriteFacts ==
  ASSUME TypeOK, PhoneAt, NEW f \in ToWrite
  PROVE  /\ f.id \in 1 .. MaxFrames /\ f.len \in FrameLens /\ f.src \in Nat /\ f.seq \in Nat
         /\ f.seq <= f.src /\ (f.seq = 0 => f.src = 0) /\ f.src < f.len
         /\ f = [id |-> f.id, len |-> f.len, src |-> f.src, seq |-> f.seq]
         /\ \/ ~Sending /\ f.id = phone.id + 1 /\ f.src = 0
            \/ Sending /\ f.id = phone.id /\ f.len = phone.len /\ f.src = phone.src
<1>0. /\ phone \in [id : 0 .. MaxFrames, len : FrameLens \cup {0}, src : Nat, seq : Nat]
      /\ phone.src <= phone.len /\ phone.seq <= phone.src /\ (phone.seq = 0 => phone.src = 0)
      /\ (phone.id = 0 => phone.src = phone.len)
  <2>1. phone \in [id : 0 .. MaxFrames, len : FrameLens \cup {0}, src : Nat, seq : Nat]
    BY DEF TypeOK
  <2>2. phone.src \in Nat /\ phone.src <= phone.len /\ phone.seq <= phone.src
        /\ (phone.id = 0 \/ phone.seq = 0 => phone.len = 0)
    BY <2>1 DEF PhoneAt
  <2>3. phone.len = 0 => phone.src = 0
    BY <2>2
  <2>4. QED
    BY <2>1, <2>2, <2>3
<1>1. /\ phone.id \in 0 .. MaxFrames /\ phone.len \in FrameLens \cup {0}
      /\ phone.src \in Nat /\ phone.seq \in Nat
      /\ phone = [id |-> phone.id, len |-> phone.len, src |-> phone.src, seq |-> phone.seq]
  BY <1>0
<1>2. f.id <= MaxFrames
  BY DEF ToWrite
<1>3. CASE phone.src = phone.len
  <2>1. PICK l \in FrameLens : f = [id |-> phone.id + 1, len |-> l, src |-> 0, seq |-> 0]
    BY <1>3 DEF ToWrite
  <2>2. f.id = phone.id + 1 /\ f.len = l /\ f.src = 0 /\ f.seq = 0
        /\ f = [id |-> f.id, len |-> f.len, src |-> f.src, seq |-> f.seq]
    BY <2>1
  <2>3. l \in Nat /\ l # 0 /\ MaxFrames \in Nat
    BY FrameConstants
  <2>4. QED
    BY <1>1, <1>2, <1>3, <2>2, <2>3 DEF Sending
<1>4. CASE phone.src # phone.len
  <2>1. f = phone
    BY <1>4 DEF ToWrite
  <2>2. phone.len \in FrameLens /\ phone.len \in Nat /\ MaxFrames \in Nat
    BY <1>0, <1>1, <1>4, FrameConstants
  <2>3. phone.src < phone.len
    BY <1>0, <1>1, <1>4, <2>2
  <2>4. phone.id # 0
    BY <1>0, <1>4
  <2>5. QED
    BY <1>0, <1>1, <1>2, <1>4, <2>1, <2>2, <2>3, <2>4 DEF Sending
<1>5. QED
  BY <1>3, <1>4

LEMMA WriteFacts ==
  ASSUME TypeOK, PhoneAt, WritePack
  PROVE  \E f, p : Writes(f, p)
<1>1. PICK f \in ToWrite :
        /\ Queue(Pack(f, f.seq, f.src))
        /\ phone' = [f EXCEPT !.src = @ + Pack(f, f.seq, f.src).n, !.seq = @ + 1]
        /\ whole' = IF f.src + Pack(f, f.seq, f.src).n = f.len THEN Append(whole, f.id) ELSE whole
  BY DEF WritePack
<1> DEFINE n == AtMost(PhonePack, f.len - f.src)
           p == [id |-> f.id, seq |-> Digits(f.seq), len |-> Digits(f.len), src |-> f.src, n |-> n]
<1>2. Pack(f, f.seq, f.src) = p /\ p.n = n
  BY DEF Pack
<1>3. /\ f.id \in 1 .. MaxFrames /\ f.len \in FrameLens /\ f.src \in Nat /\ f.seq \in Nat
      /\ f.seq <= f.src /\ (f.seq = 0 => f.src = 0) /\ f.src < f.len
      /\ f = [id |-> f.id, len |-> f.len, src |-> f.src, seq |-> f.seq]
      /\ \/ ~Sending /\ f.id = phone.id + 1 /\ f.src = 0
         \/ Sending /\ f.id = phone.id /\ f.len = phone.len /\ f.src = phone.src
  BY ToWriteFacts
<1>4. n \in Nat /\ n # 0 /\ f.src + n <= f.len
  <2>1. f.len \in Nat /\ PhonePack \in Nat /\ PhonePack # 0
    BY <1>3, FrameConstants
  <2>2. QED
    BY <1>3, <2>1 DEF AtMost
<1>5. /\ Queue(p) /\ phone' = [f EXCEPT !.src = @ + n, !.seq = @ + 1]
      /\ whole' = IF f.src + n = f.len THEN Append(whole, f.id) ELSE whole
  BY <1>1, <1>2
<1> HIDE DEF n
<1>6. p.n = n /\ p = [id |-> f.id, seq |-> Digits(f.seq), len |-> Digits(f.len), src |-> f.src, n |-> p.n]
  OBVIOUS
<1>7. phone' = [id |-> f.id, len |-> f.len, src |-> f.src + n, seq |-> f.seq + 1]
  BY <1>3, <1>5
<1> HIDE DEF p
<1>8. Cuts(f, p)
  BY <1>3, <1>4, <1>6 DEF Cuts
<1>9. Writes(f, p)
  <2>1. phone' = [id |-> f.id, len |-> f.len, src |-> f.src + p.n, seq |-> f.seq + 1]
    BY <1>6, <1>7
  <2>2. whole' = IF f.src + p.n = f.len THEN Append(whole, f.id) ELSE whole
    BY <1>5, <1>6
  <2>3. (chan' = Append(chan, p) /\ lost' = lost) \/ (chan' = chan /\ lost' = TRUE)
    BY <1>5 DEF Queue
  <2>4. (~Sending /\ f.id = phone.id + 1 /\ f.src = 0) \/ (Sending /\ f.id = phone.id /\ f.len = phone.len /\ f.src = phone.src)
    BY <1>3
  <2>5. QED
    BY <1>8, <2>1, <2>2, <2>3, <2>4 DEF Writes
<1>10. QED
  BY <1>9

LEMMA PackFacts ==
  ASSUME NEW f, NEW p, Cuts(f, p)
  PROVE  /\ p \in PackType /\ IsPack(p)
         /\ p.id = f.id /\ p.src = f.src /\ p.seq = Digits(f.seq) /\ p.len = Digits(f.len)
         /\ f.len \in Nat /\ f.len # 0 /\ f.len <= MaxFrame
<1>1. /\ f.id \in 1 .. MaxFrames /\ f.len \in FrameLens /\ f.src \in Nat /\ f.seq \in Nat
      /\ f.seq <= f.src /\ (f.seq = 0 => f.src = 0)
      /\ p = [id |-> f.id, seq |-> Digits(f.seq), len |-> Digits(f.len), src |-> f.src, n |-> p.n]
      /\ p.n \in Nat /\ p.n # 0 /\ f.src + p.n <= f.len
  BY DEF Cuts
<1>2. f.len \in Nat /\ f.len # 0 /\ f.len <= MaxFrame /\ MaxFrame \in Nat
  BY <1>1, FrameConstants, MaxFrameNat
<1>3. f.seq <= MaxFrame
  BY <1>1, <1>2
<1> DEFINE d == Digits(f.seq)
           e == Digits(f.len)
<1>4. d \in Seq(0 .. 127) /\ (Read(d) = 0 <=> f.seq = 0)
  BY <1>1, <1>3, DigitsFacts
<1>5. e \in Seq(0 .. 127) /\ Read(e) \in Nat /\ Read(e) >= f.len
  BY <1>2, DigitsFacts
<1>6. p = [id |-> f.id, seq |-> d, len |-> e, src |-> f.src, n |-> p.n]
  BY <1>1
<1> HIDE DEF d, e
<1>7. p.id = f.id /\ p.src = f.src /\ p.seq = d /\ p.len = e
  BY <1>6
<1>8. p \in PackType
  BY <1>1, <1>4, <1>5, <1>6 DEF PackType
<1>9. f.seq = 0 <=> f.src = 0
  BY <1>1
<1>10. f.src + p.n <= Read(e)
  BY <1>1, <1>2, <1>5
<1>11. IsPack(p)
  BY <1>1, <1>4, <1>5, <1>7, <1>9, <1>10 DEF IsPack
<1>12. QED
  BY <1>2, <1>7, <1>8, <1>11 DEF d, e

AllPacks(c) == \A i \in 1 .. Len(c) : IsPack(c[i])

LEMMA AppendTyped ==
  ASSUME chan \in Seq(PackType), AllPacks(chan), NEW p \in PackType, IsPack(p),
         chan' = Append(chan, p) \/ chan' = chan
  PROVE  chan' \in Seq(PackType) /\ AllPacks(chan')
<1>1. CASE chan' = chan
  BY <1>1
<1>2. CASE chan' = Append(chan, p)
  <2> DEFINE c == Append(chan, p)
  <2>1. /\ c \in Seq(PackType) /\ Len(c) = Len(chan) + 1
        /\ \A i \in 1 .. Len(chan) : c[i] = chan[i]
        /\ c[Len(chan) + 1] = p
    BY AppendFacts
  <2> HIDE DEF c
  <2>2. Len(chan) \in Nat /\ \A i \in 1 .. Len(chan) : IsPack(chan[i])
    BY LenProperties DEF AllPacks
  <2>3. AllPacks(c)
    <3> SUFFICES ASSUME NEW i \in 1 .. Len(c) PROVE IsPack(c[i])
      BY DEF AllPacks
    <3>1. i \in 1 .. Len(chan) \/ i = Len(chan) + 1
      BY <2>1, <2>2
    <3>2. QED
      BY <2>1, <2>2, <3>1
  <2>4. QED
    BY <1>2, <2>1, <2>3 DEF c
<1>3. QED
  BY <1>1, <1>2

(* A stray pack is like any other, but for its place among them. *)
LEMMA StrayFacts ==
  ASSUME TypeOK, PhoneAt, AllPacks(chan), WriteStray
  PROVE  /\ chan' \in Seq(PackType) /\ AllPacks(chan')
         /\ lost' = lost \/ lost' = TRUE
         /\ phone' \in [id : 0 .. MaxFrames, len : FrameLens \cup {0}, src : Nat, seq : Nat]
         /\ PhoneAt'
<1>0. PICK f \in ToWrite : \E k \in 0 .. f.len - 1 :
        /\ PhonePack * k < f.len
        /\ Queue(Pack(f, k, PhonePack * k))
        /\ phone' = IF phone.src = phone.len THEN [f EXCEPT !.src = f.len, !.seq = 1] ELSE phone
  BY DEF WriteStray
<1>1. PICK k \in 0 .. f.len - 1 :
        /\ PhonePack * k < f.len
        /\ Queue(Pack(f, k, PhonePack * k))
        /\ phone' = IF phone.src = phone.len THEN [f EXCEPT !.src = f.len, !.seq = 1] ELSE phone
  BY <1>0
<1>2. /\ f.id \in 1 .. MaxFrames /\ f.len \in FrameLens
      /\ f = [id |-> f.id, len |-> f.len, src |-> f.src, seq |-> f.seq]
      /\ f.len \in Nat /\ f.len # 0 /\ k \in Nat
      /\ PhonePack \in Nat /\ PhonePack # 0 /\ MaxFrames \in Nat
  BY ToWriteFacts, FrameConstants
<1> DEFINE at == PhonePack * k
           n == AtMost(PhonePack, f.len - at)
           p == [id |-> f.id, seq |-> Digits(k), len |-> Digits(f.len), src |-> at, n |-> n]
           g == [id |-> f.id, len |-> f.len, src |-> at, seq |-> k]
<1>3. Pack(f, k, at) = p
  BY DEF Pack
<1>4. at \in Nat /\ k <= at /\ at < f.len /\ (k = 0 => at = 0)
  BY <1>1, <1>2, SMT
<1> HIDE DEF at
<1>5. n \in Nat /\ n # 0 /\ at + n <= f.len
  BY <1>2, <1>4 DEF AtMost
<1> HIDE DEF n
<1>6. Cuts(g, p)
  BY <1>2, <1>4, <1>5 DEF Cuts
<1>7. p \in PackType /\ IsPack(p) /\ Queue(p)
  <2>1. p \in PackType /\ IsPack(p)
    <3> HIDE DEF p, g
    <3>1. QED
      BY <1>6, PackFacts
  <2>2. QED
    BY <1>1, <1>3, <2>1 DEF at
<1> HIDE DEF p
<1>8. chan \in Seq(PackType)
  BY DEF TypeOK, PackType
<1>9. chan' \in Seq(PackType) /\ AllPacks(chan') /\ (lost' = lost \/ lost' = TRUE)
  BY <1>7, <1>8, AppendTyped DEF Queue
<1>10. /\ phone' \in [id : 0 .. MaxFrames, len : FrameLens \cup {0}, src : Nat, seq : Nat]
       /\ PhoneAt'
  <2>1. CASE phone.src = phone.len
    <3>1. phone' = [id |-> f.id, len |-> f.len, src |-> f.len, seq |-> 1]
      BY <1>1, <1>2, <2>1
    <3>2. f.id \in 0 .. MaxFrames /\ f.id # 0 /\ 1 <= f.len
      BY <1>2
    <3>3. phone'.id = f.id /\ phone'.len = f.len /\ phone'.src = f.len /\ phone'.seq = 1
      BY <3>1
    <3>4. PhoneAt'
      BY <1>2, <3>2, <3>3 DEF PhoneAt
    <3>5. QED
      BY <1>2, <3>1, <3>2, <3>4
  <2>2. CASE phone.src # phone.len
    BY <1>1, <2>2 DEF TypeOK, PhoneAt
  <2>3. QED
    BY <2>1, <2>2
<1>11. QED
  BY <1>9, <1>10

LEMMA AnswerEnds ==
  ASSUME Answer
  PROVE  /\ lost' = lost \/ lost' = TRUE
         /\ crashed' = crashed \/ crashed' = "heap" \/ (crashed' = "null" /\ lost' = TRUE)
<1>1. ASSUME NEW size, Send(size) PROVE crashed' = crashed \/ crashed' = "heap"
  BY <1>1 DEF Send
<1>2. QED
  BY <1>1 DEF Answer

(* What a pack leaves that is added to the buffer b. *)
LEMMA CollectTyped ==
  ASSUME TypeOK, NEW p \in PackType, NEW b \in SUBSET Segments, NEW off \in Nat, NEW len \in Nat,
         Collect(p, b, off, len)
  PROVE  /\ buf' \in SUBSET Segments /\ frameLen' \in Nat /\ offset' \in Nat
         /\ got' \in Seq(Handed)
         /\ lost' \in BOOLEAN /\ crashed' \in {"no", "null", "heap"}
<1>1. got \in Seq(Handed) /\ lost \in BOOLEAN /\ crashed \in {"no", "null", "heap"}
  BY DEF TypeOK, Handed
<1>2. offset' = off /\ frameLen' = len
  BY DEF Collect
<1>3. CASE buf' = b /\ UNCHANGED <<got, rsp, lost, crashed>>
  BY <1>1, <1>2, <1>3
<1>4. CASE HandOn(p, b)
  <2> DEFINE single == Read(p.seq) = 0
             intact == Intact(b, p.id)
             h == [id |-> p.id, single |-> single, intact |-> intact]
  <2>1. single \in BOOLEAN /\ intact \in BOOLEAN
    BY DEF Intact
  <2>2. buf' = {} /\ got' = Append(got, h) /\ Answer
    BY <1>4 DEF HandOn, NoBuf
  <2> HIDE DEF single, intact
  <2>3. h \in Handed
    BY <2>1 DEF Handed, PackType
  <2> HIDE DEF h
  <2>4. got' \in Seq(Handed)
    BY <1>1, <2>2, <2>3, AppendFacts
  <2>5. lost' \in BOOLEAN /\ crashed' \in {"no", "null", "heap"}
    BY <1>1, <2>2, AnswerEnds
  <2>6. QED
    BY <1>2, <2>2, <2>4, <2>5
<1>5. QED
  BY <1>3, <1>4 DEF Collect

LEMMA SegmentFacts ==
  ASSUME NEW p \in PackType, NEW at \in Nat
  PROVE  Segment(p, at) \in Segments
BY DEF PackType, Segments, Segment

(* What is queued behind the first pack stays as it was. *)
LEMMA TakeFacts ==
  ASSUME TypeOK, AllPacks(chan), chan # <<>>, chan' = Tail(chan)
  PROVE  /\ Head(chan) = chan[1] /\ Head(chan) \in PackType /\ IsPack(Head(chan))
         /\ chan' \in Seq(PackType) /\ AllPacks(chan')
         /\ Len(chan) \in Nat /\ Len(chan) # 0 /\ Len(chan') = Len(chan) - 1
         /\ \A i \in 1 .. Len(chan) - 1 : chan'[i] = chan[i + 1] /\ i + 1 \in 1 .. Len(chan)
<1>1. chan \in Seq(PackType)
  BY DEF TypeOK, PackType
<1>2. /\ Len(chan) \in Nat /\ Len(chan) # 0 /\ 1 \in 1 .. Len(chan)
      /\ Head(chan) = chan[1] /\ chan[1] \in PackType
      /\ Tail(chan) \in Seq(PackType) /\ Len(Tail(chan)) = Len(chan) - 1
      /\ \A i \in 1 .. Len(chan) - 1 : Tail(chan)[i] = chan[i + 1] /\ i + 1 \in 1 .. Len(chan)
  BY <1>1, TailFacts
<1>3. \A i \in 1 .. Len(chan) : IsPack(chan[i])
  BY DEF AllPacks
<1>4. AllPacks(Tail(chan))
  BY <1>2, <1>3 DEF AllPacks
<1>5. QED
  BY <1>2, <1>3, <1>4

LEMMA TypedKept == Typed /\ [Next]_vars => Typed'
<1> SUFFICES ASSUME Typed, [Next]_vars PROVE Typed'
  OBVIOUS
<1>0. TypeOK /\ PhoneAt /\ AllPacks(chan)
  BY DEF Typed, AllPacks
<1>1. /\ phone \in [id : 0 .. MaxFrames, len : FrameLens \cup {0}, src : Nat, seq : Nat]
      /\ chan \in Seq(PackType) /\ buf \in SUBSET Segments /\ frameLen \in Nat /\ offset \in Nat
      /\ got \in Seq(Handed) /\ whole \in Seq(1 .. MaxFrames)
      /\ stray \in Nat /\ lost \in BOOLEAN /\ crashed \in {"no", "null", "heap"} /\ rsp \in RspType
  BY <1>0 DEF TypeOK, PackType, Segments, Handed, RspType, RspPacks
<1>2. rsp' \in RspType
  <2>1. CASE Answer
    BY <2>1, AnswerFacts
  <2>2. CASE rsp' = rsp
    BY <1>1, <2>2
  <2>3. QED
    BY <2>1, <2>2, RspStep
<1>3. SUFFICES /\ phone' \in [id : 0 .. MaxFrames, len : FrameLens \cup {0}, src : Nat, seq : Nat]
               /\ chan' \in Seq(PackType) /\ buf' \in SUBSET Segments
               /\ frameLen' \in Nat /\ offset' \in Nat
               /\ got' \in Seq(Handed) /\ whole' \in Seq(1 .. MaxFrames)
               /\ stray' \in Nat /\ lost' \in BOOLEAN /\ crashed' \in {"no", "null", "heap"}
               /\ PhoneAt' /\ AllPacks(chan)'
  <2>1. TypeOK'
    BY <1>2, <1>3 DEF TypeOK, PackType, Segments, Handed, RspType, RspPacks
  <2>2. QED
    BY <1>3, <2>1 DEF Typed, AllPacks
<1>4. CASE WritePack
  <2>1. PICK f, p : Writes(f, p)
    BY <1>0, <1>4, WriteFacts
  <2>2. Cuts(f, p) /\ f.len \in FrameLens /\ f.seq \in Nat /\ f.id \in 1 .. MaxFrames
        /\ f.src \in Nat /\ f.seq <= f.src /\ p.n \in Nat /\ p.n # 0 /\ f.src + p.n <= f.len
    BY <2>1 DEF Writes, Cuts
  <2>3. p \in PackType /\ IsPack(p) /\ f.len \in Nat
    BY <2>2, PackFacts
  <2>4. phone' = [id |-> f.id, len |-> f.len, src |-> f.src + p.n, seq |-> f.seq + 1]
    BY <2>1 DEF Writes
  <2>5. phone' \in [id : 0 .. MaxFrames, len : FrameLens \cup {0}, src : Nat, seq : Nat]
    <3>1. f.id \in 0 .. MaxFrames /\ f.src + p.n \in Nat /\ f.seq + 1 \in Nat
      BY <2>2, FrameConstants
    <3>2. QED
      BY <2>2, <2>4, <3>1
  <2>6. PhoneAt'
    <3>1. phone'.id = f.id /\ phone'.len = f.len /\ phone'.src = f.src + p.n /\ phone'.seq = f.seq + 1
      BY <2>4
    <3>2. f.src + p.n <= f.len /\ f.seq + 1 <= f.src + p.n /\ f.seq + 1 # 0 /\ f.id # 0
      BY <2>2, <2>3, FrameConstants
    <3>3. QED
      BY <3>1, <3>2 DEF PhoneAt
  <2>7. chan' \in Seq(PackType) /\ AllPacks(chan)' /\ lost' \in BOOLEAN
    <3>1. (chan' = Append(chan, p) /\ lost' = lost) \/ (chan' = chan /\ lost' = TRUE)
      BY <2>1 DEF Writes
    <3>2. lost' \in BOOLEAN /\ (chan' = Append(chan, p) \/ chan' = chan)
      BY <1>1, <3>1
    <3>3. QED
      BY <1>0, <1>1, <2>3, <3>2, AppendTyped
  <2>8. whole' \in Seq(1 .. MaxFrames)
    BY <1>1, <2>1, <2>2, AppendFacts DEF Writes
  <2>9. UNCHANGED <<buf, frameLen, offset, got, stray, crashed>>
    BY <1>4 DEF WritePack, recvVars
  <2>10. QED
    BY <1>1, <2>5, <2>6, <2>7, <2>8, <2>9
<1>5. CASE Leave
  <2>1. phone' = [phone EXCEPT !.src = phone.len] /\ UNCHANGED <<chan, buf, frameLen, offset, got, whole, stray, lost, crashed>>
    BY <1>5 DEF Leave, recvVars
  <2>2. phone.len \in Nat /\ phone.src \in Nat /\ phone.seq \in Nat /\ phone.seq <= phone.src /\ phone.src <= phone.len
    BY <1>0, <1>1, FrameConstants DEF PhoneAt
  <2>3. phone' \in [id : 0 .. MaxFrames, len : FrameLens \cup {0}, src : Nat, seq : Nat]
    BY <1>1, <2>1, <2>2
  <2>4. PhoneAt'
    <3>1. phone'.id = phone.id /\ phone'.len = phone.len /\ phone'.src = phone.len /\ phone'.seq = phone.seq
      BY <1>1, <2>1
    <3>2. phone.seq <= phone.len
      BY <2>2
    <3>3. phone.id = 0 \/ phone.seq = 0 => phone.len = 0
      BY <1>0 DEF PhoneAt
    <3>4. QED
      BY <3>1, <3>2, <3>3, <2>2 DEF PhoneAt
  <2>5. QED
    BY <1>0, <1>1, <2>1, <2>3, <2>4
<1>6. CASE FirstPack
  <2> DEFINE p == Head(chan)
  <2>1. chan # <<>> /\ chan' = Tail(chan) /\ UNCHANGED <<phone, whole, stray>>
    BY <1>6 DEF FirstPack
  <2>2. p \in PackType /\ IsPack(p) /\ chan' \in Seq(PackType) /\ AllPacks(chan')
    BY <1>0, <2>1, TakeFacts
  <2>3. \/ Collect(p, {Segment(p, 0)}, p.n, Read(p.len))
        \/ offset' = 0 /\ frameLen' = Read(p.len) /\ buf' = NoBuf /\ lost' = TRUE /\ UNCHANGED <<got, rsp, crashed>>
    BY <1>6 DEF FirstPack
  <2> HIDE DEF p
  <2>4. Read(p.len) \in Nat /\ p.n \in Nat /\ {Segment(p, 0)} \in SUBSET Segments
    BY <2>2, SegmentFacts DEF IsPack, PackType
  <2>5. CASE Collect(p, {Segment(p, 0)}, p.n, Read(p.len))
    <3>1. buf' \in SUBSET Segments /\ frameLen' \in Nat /\ offset' \in Nat /\ got' \in Seq(Handed)
          /\ lost' \in BOOLEAN /\ crashed' \in {"no", "null", "heap"}
      BY <1>0, <2>2, <2>4, <2>5, CollectTyped
    <3>2. QED
      BY <1>0, <1>1, <2>1, <2>2, <2>5, <3>1 DEF PhoneAt, Sending
  <2>6. CASE offset' = 0 /\ frameLen' = Read(p.len) /\ buf' = NoBuf /\ lost' = TRUE /\ UNCHANGED <<got, rsp, crashed>>
    BY <1>0, <1>1, <2>1, <2>2, <2>4, <2>6 DEF PhoneAt, Sending, NoBuf
  <2>7. QED
    BY <2>3, <2>5, <2>6
<1>7. CASE NextPack
  <2> DEFINE p == Head(chan)
             at == FRAME_HEAD * offset
             b == buf \cup {Segment(p, at)}
  <2>1. chan # <<>> /\ chan' = Tail(chan) /\ UNCHANGED <<phone, whole, stray>>
    BY <1>7 DEF NextPack
  <2>2. p \in PackType /\ IsPack(p) /\ chan' \in Seq(PackType) /\ AllPacks(chan')
    BY <1>0, <2>1, TakeFacts
  <2>3. \/ crashed' \in {"null", "heap"} /\ UNCHANGED <<recvVars, got, rsp, lost>>
        \/ Collect(p, b, offset + p.n, frameLen)
    BY <1>7 DEF NextPack
  <2>4. at \in Nat
    BY <1>1 DEF FRAME_HEAD
  <2> HIDE DEF at
  <2>5. b \in SUBSET Segments
    <3> HIDE DEF p
    <3>1. QED
      BY <1>1, <2>2, <2>4, SegmentFacts
  <2> HIDE DEF p, b
  <2>6. offset + p.n \in Nat
    BY <1>1, <2>2 DEF PackType
  <2>7. CASE crashed' \in {"null", "heap"} /\ UNCHANGED <<recvVars, got, rsp, lost>>
    BY <1>0, <1>1, <2>1, <2>2, <2>7 DEF PhoneAt, Sending, recvVars
  <2>8. CASE Collect(p, b, offset + p.n, frameLen)
    <3>1. buf' \in SUBSET Segments /\ frameLen' \in Nat /\ offset' \in Nat /\ got' \in Seq(Handed)
          /\ lost' \in BOOLEAN /\ crashed' \in {"no", "null", "heap"}
      BY <1>0, <1>1, <2>2, <2>5, <2>6, <2>8, CollectTyped
    <3>2. QED
      BY <1>0, <1>1, <2>1, <2>2, <2>8, <3>1 DEF PhoneAt, Sending
  <2>9. QED
    BY <2>3, <2>7, <2>8
<1>8. CASE UNCHANGED vars
  BY <1>0, <1>1, <1>8 DEF vars, recvVars, PhoneAt
<1>9. CASE WriteStray
  <2>1. UNCHANGED <<buf, frameLen, offset, got, whole, crashed>> /\ stray' = stray + 1
    BY <1>9 DEF WriteStray, recvVars
  <2>2. /\ chan' \in Seq(PackType) /\ AllPacks(chan')
        /\ lost' = lost \/ lost' = TRUE
        /\ phone' \in [id : 0 .. MaxFrames, len : FrameLens \cup {0}, src : Nat, seq : Nat]
        /\ PhoneAt'
    BY <1>0, <1>9, StrayFacts
  <2>3. lost' \in BOOLEAN
    BY <1>1, <2>2
  <2>4. stray' \in Nat
    BY <1>1, <2>1
  <2>5. QED
    BY <1>1, <2>1, <2>2, <2>3, <2>4
<1>10. QED
  BY <1>4, <1>5, <1>6, <1>7, <1>8, <1>9 DEF Next

LEMMA TypedFirst == Init => Typed
<1> SUFFICES ASSUME Init PROVE Typed
  OBVIOUS
<1>1. <<>> \in Seq(PackType) /\ <<>> \in Seq(Handed) /\ <<>> \in Seq(1 .. MaxFrames) /\ 1 .. Len(<<>>) = {}
  OBVIOUS
<1>2. rsp \in RspType
  BY AnswerFirst DEF AnswerInv
<1>3. phone \in [id : 0 .. MaxFrames, len : FrameLens \cup {0}, src : Nat, seq : Nat]
  BY FrameConstants DEF Init, NoPhone
<1>4. TypeOK
  BY <1>1, <1>2, <1>3 DEF Init, NoBuf, TypeOK, PackType, Handed, RspType, RspPacks
<1>5. PhoneAt
  BY DEF Init, NoPhone, PhoneAt
<1>6. QED
  BY <1>1, <1>4, <1>5 DEF Typed, Init

(* The fields hold what they can hold, whatever is lost.                    *)
THEOREM TypeCorrect == Spec => []TypeOK
<1>1. Typed => TypeOK
  BY DEF Typed
<1>2. QED
  BY <1>1, TypedFirst, TypedKept, PTL DEF Spec

-----------------------------------------------------------------------------
(* What is handed on. *)

SingleInv == \A i \in 1 .. Len(got) : got[i].single => got[i].intact

Hands(p, h) ==
  /\ h \in Handed /\ h.id = p.id
  /\ got' = Append(got, h) /\ buf' = NoBuf

LEMMA HandOnFacts ==
  ASSUME NEW p \in PackType, NEW b, HandOn(p, b)
  PROVE  \E h : /\ Hands(p, h)
                /\ h.single <=> Read(p.seq) = 0
                /\ h.intact <=> Intact(b, p.id)
<1> DEFINE single == Read(p.seq) = 0
           intact == Intact(b, p.id)
           h == [id |-> p.id, single |-> single, intact |-> intact]
<1>1. single \in BOOLEAN /\ intact \in BOOLEAN
  BY DEF Intact
<1>2. buf' = NoBuf /\ got' = Append(got, h)
  BY DEF HandOn
<1>3. (single <=> Read(p.seq) = 0) /\ (intact <=> Intact(b, p.id))
  OBVIOUS
<1> HIDE DEF single, intact
<1>4. h \in Handed /\ h.id = p.id /\ h.single = single /\ h.intact = intact
  BY <1>1 DEF Handed, PackType
<1> HIDE DEF h
<1>5. Hands(p, h)
  BY <1>2, <1>4 DEF Hands
<1>6. QED
  BY <1>1, <1>3, <1>4, <1>5

(* A pack numbered 0 is alone in the buffer and lies at its start; a frame  *)
(* that another pack completes did not come in one.                         *)
LEMMA GotStep ==
  ASSUME Typed, [Next]_vars
  PROVE  got' = got \/ \E h : /\ Hands(Head(chan), h) /\ chan # <<>>
                              /\ h.single => h.intact
<1>0. TypeOK /\ AllPacks(chan)
  BY DEF Typed, AllPacks
<1> DEFINE p == Head(chan)
<1>1. CASE WritePack
  BY <1>1 DEF WritePack
<1>2. CASE Leave
  BY <1>2 DEF Leave
<1>3. CASE FirstPack
  <2>1. chan # <<>> /\ chan' = Tail(chan) /\ Read(p.seq) = 0
    BY <1>3 DEF FirstPack
  <2>2. p \in PackType /\ IsPack(p)
    BY <1>0, <2>1, TakeFacts
  <2>3. Collect(p, {Segment(p, 0)}, p.n, Read(p.len)) \/ got' = got
    BY <1>3 DEF FirstPack
  <2> HIDE DEF p
  <2>4. Intact({Segment(p, 0)}, p.id)
    <3>1. p.src = 0
      BY <2>1, <2>2 DEF IsPack
    <3>2. QED
      BY <3>1 DEF Intact, Segment
  <2>5. CASE HandOn(p, {Segment(p, 0)})
    <3>1. PICK h : Hands(p, h) /\ (h.intact <=> Intact({Segment(p, 0)}, p.id))
      BY <2>2, <2>5, HandOnFacts
    <3>2. QED
      BY <2>1, <2>4, <3>1 DEF p
  <2>6. CASE got' = got
    BY <2>6
  <2>7. QED
    BY <2>3, <2>5, <2>6 DEF Collect
<1>4. CASE NextPack
  <2> DEFINE b == buf \cup {Segment(p, FRAME_HEAD * offset)}
  <2>1. chan # <<>> /\ chan' = Tail(chan) /\ Read(p.seq) # 0
    BY <1>4 DEF NextPack
  <2>2. p \in PackType /\ IsPack(p)
    BY <1>0, <2>1, TakeFacts
  <2>3. Collect(p, b, offset + p.n, frameLen) \/ got' = got
    BY <1>4 DEF NextPack
  <2> HIDE DEF p, b
  <2>4. CASE HandOn(p, b)
    <3>1. PICK h : Hands(p, h) /\ (h.single <=> Read(p.seq) = 0)
      BY <2>2, <2>4, HandOnFacts
    <3>2. QED
      BY <2>1, <3>1 DEF p
  <2>5. CASE got' = got
    BY <2>5
  <2>6. QED
    BY <2>3, <2>4, <2>5 DEF Collect
<1>5. CASE UNCHANGED vars
  BY <1>5 DEF vars
<1>6. CASE WriteStray
  BY <1>6 DEF WriteStray
<1>7. QED
  BY <1>1, <1>2, <1>3, <1>4, <1>5, <1>6 DEF Next

LEMMA SingleKept == Typed /\ SingleInv /\ [Next]_vars => SingleInv'
<1> SUFFICES ASSUME Typed, SingleInv, [Next]_vars PROVE SingleInv'
  OBVIOUS
<1>1. CASE got' = got
  BY <1>1 DEF SingleInv
<1>2. ASSUME NEW h, Hands(Head(chan), h), h.single => h.intact PROVE SingleInv'
  <2> DEFINE g == Append(got, h)
  <2>1. got \in Seq(Handed)
    BY DEF Typed, TypeOK, Handed
  <2>2. Len(got) \in Nat
    BY <2>1, LenProperties
  <2>3. /\ Len(g) = Len(got) + 1
        /\ \A i \in 1 .. Len(got) : g[i] = got[i]
        /\ g[Len(got) + 1] = h
    BY <1>2, <2>1, AppendFacts DEF Hands
  <2> HIDE DEF g
  <2>4. \A i \in 1 .. Len(g) : g[i].single => g[i].intact
    <3> SUFFICES ASSUME NEW i \in 1 .. Len(g) PROVE g[i].single => g[i].intact
      OBVIOUS
    <3>1. i \in 1 .. Len(got) \/ i = Len(got) + 1
      BY <2>2, <2>3
    <3>2. QED
      BY <1>2, <2>3, <3>1 DEF SingleInv
  <2>5. got' = g
    BY <1>2 DEF Hands, g
  <2>6. QED
    BY <2>4, <2>5 DEF SingleInv
<1>3. QED
  BY <1>1, <1>2, GotStep

(* A frame that came in one pack is handed on as it was written, whatever   *)
(* was lost, and whatever a phone left behind (ble_recv_data_unpack).       *)
THEOREM SinglePacksIntact == Spec => []SinglePackIntact
<1>1. Init => Typed /\ SingleInv
  <2>1. 1 .. Len(<<>>) = {}
    OBVIOUS
  <2>2. QED
    BY <2>1, TypedFirst DEF Init, SingleInv
<1>2. Typed /\ SingleInv => SinglePackIntact
  <2> SUFFICES ASSUME Typed, SingleInv PROVE SinglePackIntact
    OBVIOUS
  <2>1. DOMAIN got = 1 .. Len(got)
    BY LenProperties DEF Typed, TypeOK
  <2>2. QED
    BY <2>1 DEF SingleInv, SinglePackIntact
<1>3. QED
  BY <1>1, <1>2, TypedKept, SingleKept, PTL DEF Spec

-----------------------------------------------------------------------------
(* The packs on their way, until something is lost. *)

Ordered == InOrder /\ NoGap /\ Receiving

LEMMA TypedFacts ==
  ASSUME Typed
  PROVE  /\ TypeOK /\ PhoneAt /\ AllPacks(chan)
         /\ phone.id \in Nat /\ phone.src \in Nat /\ phone.len \in Nat /\ phone.src <= phone.len
         /\ phone.len <= MaxFrame /\ MaxFrame \in Nat
         /\ chan \in Seq(PackType) /\ Len(chan) \in Nat /\ (chan # <<>> <=> Len(chan) # 0)
         /\ \A i \in 1 .. Len(chan) :
              /\ IsPack(chan[i])
              /\ chan[i].id \in 1 .. MaxFrames /\ chan[i].src \in Nat /\ chan[i].n \in Nat
         /\ MaxFrames \in Nat
<1>1. TypeOK /\ PhoneAt /\ AllPacks(chan)
  BY DEF Typed, AllPacks
<1>2. phone.id \in Nat /\ phone.src \in Nat /\ phone.len \in FrameLens \cup {0} /\ MaxFrames \in Nat
  BY <1>1, FrameConstants DEF TypeOK
<1>3. phone.len \in Nat /\ phone.len <= MaxFrame /\ MaxFrame \in Nat
  BY <1>2, FrameConstants, MaxFrameNat
<1>4. chan \in Seq(PackType)
  BY <1>1 DEF TypeOK, PackType
<1>5. Len(chan) \in Nat /\ (chan # <<>> <=> Len(chan) # 0)
  BY <1>4, LenProperties, EmptySeq
<1>6. ASSUME NEW i \in 1 .. Len(chan)
      PROVE  IsPack(chan[i]) /\ chan[i].id \in 1 .. MaxFrames /\ chan[i].src \in Nat /\ chan[i].n \in Nat
  <2>1. chan[i] \in PackType
    BY <1>4, ElementOfSeq
  <2>2. QED
    BY <1>1, <2>1 DEF AllPacks, PackType
<1>7. QED
  BY <1>1, <1>2, <1>3, <1>4, <1>5, <1>6 DEF PhoneAt

(* A pack is queued behind the others. *)
LEMMA OrderedWrite ==
  ASSUME Typed, Ordered, WritePack, ~lost'
  PROVE  Ordered'
<1> DEFINE n == Len(chan)
<1>0. TypeOK /\ PhoneAt
  BY TypedFacts
<1>1. PICK f, p : Writes(f, p)
  BY <1>0, WriteFacts
<1>2. /\ f.id \in Nat /\ f.src \in Nat /\ f.len \in Nat /\ p.n \in Nat /\ p.n # 0 /\ f.src + p.n <= f.len
      /\ p.id = f.id /\ p.src = f.src /\ p.len = Digits(f.len)
      /\ \/ ~Sending /\ f.id = phone.id + 1 /\ f.src = 0
         \/ Sending /\ f.id = phone.id /\ f.len = phone.len /\ f.src = phone.src
      /\ p \in PackType
  <2>1. Cuts(f, p)
    BY <1>1 DEF Writes
  <2>2. QED
    BY <1>1, <2>1, PackFacts DEF Writes, Cuts
<1>3. phone'.id = f.id /\ phone'.len = f.len /\ phone'.src = f.src + p.n
  BY <1>1 DEF Writes
<1>4. chan' = Append(chan, p)
  BY <1>1 DEF Writes
<1>5. /\ chan \in Seq(PackType) /\ n \in Nat /\ (chan # <<>> <=> n # 0)
      /\ \A i \in 1 .. n : chan[i].id \in Nat /\ chan[i].src \in Nat /\ chan[i].n \in Nat
      /\ phone.id \in Nat /\ phone.src \in Nat
  BY TypedFacts
<1>6. /\ Len(chan') = n + 1 /\ chan'[n + 1] = p
      /\ \A i \in 1 .. n : chan'[i] = chan[i]
  BY <1>2, <1>4, <1>5, AppendFacts
<1>7. UNCHANGED <<buf, frameLen, offset>>
  BY DEF WritePack, recvVars
<1> HIDE DEF n
<1>8. \A i \in 1 .. n + 1 : i \in 1 .. n \/ i = n + 1
  BY <1>5
<1>9. \A i \in 1 .. n : Behind(chan[i]) /\ \A j \in 1 .. n : i < j => Before(chan[i], chan[j])
  BY DEF Ordered, InOrder, n
<1>10. ASSUME NEW i \in 1 .. n PROVE Behind(chan[i])' /\ Before(chan[i], p)
  <2>1. chan[i].id \in Nat /\ chan[i].src \in Nat /\ chan[i].n \in Nat /\ chan'[i] = chan[i]
    BY <1>5, <1>6
  <2>2. chan[i].id < phone.id \/ (chan[i].id = phone.id /\ chan[i].src + chan[i].n <= phone.src /\ chan[i].len = Digits(phone.len))
    BY <1>9 DEF Behind
  <2>3. Before(chan[i], p)
    BY <1>2, <1>5, <2>1, <2>2 DEF Before
  <2>4. chan[i].id < phone'.id \/ (chan[i].id = phone'.id /\ chan[i].src + chan[i].n <= phone'.src /\ chan[i].len = Digits(phone'.len))
    <3>1. CASE ~Sending
      BY <1>2, <1>3, <1>5, <2>1, <2>2, <3>1
    <3>2. CASE Sending
      BY <1>2, <1>3, <1>5, <2>1, <2>2, <3>2, SMTT(30)
    <3>3. QED
      BY <3>1, <3>2
  <2>5. QED
    BY <2>1, <2>3, <2>4 DEF Behind
<1>11. InOrder'
  <2> SUFFICES ASSUME NEW i \in 1 .. n + 1
               PROVE  /\ Behind(chan[i])'
                      /\ \A j \in 1 .. n + 1 : i < j => Before(chan'[i], chan'[j])
    BY <1>6 DEF InOrder
  <2>1. CASE i \in 1 .. n
    <3>1. \A j \in 1 .. n + 1 : i < j => Before(chan'[i], chan'[j])
      BY <1>6, <1>8, <1>9, <1>10, <2>1
    <3>2. QED
      BY <1>10, <2>1, <3>1
  <2>2. CASE i = n + 1
    <3>1. Behind(chan[i])'
      BY <1>2, <1>3, <1>6, <2>2 DEF Behind
    <3>2. \A j \in 1 .. n + 1 : ~(i < j)
      BY <1>5, <2>2
    <3>3. QED
      BY <3>1, <3>2
  <2>3. QED
    BY <1>8, <2>1, <2>2
<1>12. NoGap'
  <2>1. \A i \in 2 .. n : chan[i].src # 0 => FollowsOn(chan[i - 1], chan[i].id, chan[i].src)
    BY DEF Ordered, NoGap, n
  <2>2. Sending /\ n # 0 => FollowsOn(chan[n], phone.id, phone.src)
    BY <1>5 DEF Ordered, NoGap, n
  <2>3. ASSUME NEW i \in 2 .. n + 1, chan'[i].src # 0
        PROVE  FollowsOn(chan'[i - 1], chan'[i].id, chan'[i].src)
    <3>1. i - 1 \in 1 .. n /\ n # 0
      BY <1>5
    <3>2. CASE i \in 2 .. n
      <4>1. i \in 1 .. n
        BY <3>2
      <4>2. QED
        BY <1>6, <2>1, <2>3, <3>1, <3>2, <4>1
    <3>3. CASE i = n + 1
      <4>1. i - 1 = n /\ chan'[i] = p /\ chan'[i - 1] = chan[n]
        BY <1>5, <1>6, <3>1, <3>3
      <4>2. Sending
        BY <1>2, <2>3, <4>1
      <4>3. QED
        BY <1>2, <2>2, <3>1, <4>1, <4>2
    <3>4. QED
      BY <1>5, <3>2, <3>3
  <2>4. FollowsOn(chan'[n + 1], phone'.id, phone'.src)
    BY <1>2, <1>3, <1>6 DEF FollowsOn
  <2>5. QED
    BY <1>6, <2>3, <2>4 DEF NoGap
<1>13. Receiving'
  <2>1. chan' # <<>>
    <3>1. n + 1 # 0 /\ Len(<<>>) = 0
      BY <1>5
    <3>2. QED
      BY <1>6, <3>1
  <2>2. ASSUME chan'[1].src # 0 PROVE Ready(chan[1].src, chan[1].len)'
    <3>1. CASE n = 0
      <4>1. chan'[1] = p /\ Sending /\ chan = <<>>
        BY <1>2, <1>5, <1>6, <2>2, <3>1
      <4>2. Ready(phone.src, Digits(phone.len))
        BY <4>1 DEF Ordered, Receiving
      <4>3. p.src = phone.src /\ p.len = Digits(phone.len)
        BY <1>2, <4>1
      <4>4. QED
        BY <1>7, <4>1, <4>2, <4>3 DEF Ready
    <3>2. CASE n # 0
      <4>1. chan'[1] = chan[1] /\ chan # <<>>
        BY <1>5, <1>6, <3>2
      <4>2. Ready(chan[1].src, chan[1].len)
        BY <2>2, <4>1 DEF Ordered, Receiving
      <4>3. QED
        BY <1>7, <4>1, <4>2 DEF Ready
    <3>3. QED
      BY <3>1, <3>2
  <2>3. QED
    BY <2>1, <2>2 DEF Receiving
<1>14. QED
  BY <1>7, <1>11, <1>12, <1>13 DEF Ordered

(* A phone that leaves continues no pack. *)
LEMMA OrderedLeave ==
  ASSUME Typed, Ordered, Leave
  PROVE  Ordered'
<1>1. phone' = [phone EXCEPT !.src = phone.len] /\ UNCHANGED <<chan, buf, frameLen, offset>>
  BY DEF Leave, recvVars
<1>2. phone'.id = phone.id /\ phone'.len = phone.len /\ phone'.src = phone.len
  <2>1. phone \in [id : 0 .. MaxFrames, len : FrameLens \cup {0}, src : Nat, seq : Nat]
    BY DEF Typed, TypeOK
  <2>2. QED
    BY <1>1, <2>1
<1>3. ~Sending'
  BY <1>2 DEF Sending
<1>4. InOrder'
  <2>1. ASSUME NEW i \in 1 .. Len(chan) PROVE Behind(chan[i])'
    <3>1. Behind(chan[i]) /\ chan[i].src + chan[i].n \in Nat
      BY TypedFacts DEF Ordered, InOrder
    <3>2. phone.src \in Nat /\ phone.len \in Nat /\ phone.src <= phone.len
      BY TypedFacts
    <3>3. chan' = chan
      BY <1>1
    <3>4. QED
      BY <1>2, <3>1, <3>2, <3>3 DEF Behind
  <2>2. QED
    BY <1>1, <2>1 DEF Ordered, InOrder
<1>5. QED
  BY <1>1, <1>3, <1>4 DEF Ordered, NoGap, Receiving, Ready

(* A pack is read: what it leaves is where the pack behind it goes on.      *)
LEMMA OrderedRead ==
  ASSUME Typed, Ordered, chan # <<>>, chan' = Tail(chan), phone' = phone,
         NEW b, b # NoBuf, Collect(chan[1], b, chan[1].src + chan[1].n, Read(chan[1].len))
  PROVE  Ordered'
<1> DEFINE n == Len(chan)
           p == chan[1]
<1>1. /\ n \in Nat /\ n # 0 /\ Len(chan') = n - 1 /\ 1 \in 1 .. n
      /\ \A i \in 1 .. n - 1 : chan'[i] = chan[i + 1] /\ i + 1 \in 1 .. n
      /\ \A i \in 1 .. n : IsPack(chan[i]) /\ chan[i].src \in Nat /\ chan[i].n \in Nat /\ chan[i].id \in Nat
      /\ chan' \in Seq(PackType)
  BY TypedFacts, TakeFacts
<1>2. chan' # <<>> <=> n - 1 # 0
  BY <1>1, EmptySeq, LenProperties
<1> HIDE DEF n
<1>3. \A i \in 1 .. n : Behind(chan[i]) /\ \A j \in 1 .. n : i < j => Before(chan[i], chan[j])
  BY DEF Ordered, InOrder, n
<1>4. \A i \in 2 .. n : chan[i].src # 0 => FollowsOn(chan[i - 1], chan[i].id, chan[i].src)
  BY DEF Ordered, NoGap, n
<1>5. InOrder'
  <2> SUFFICES ASSUME NEW i \in 1 .. n - 1
               PROVE  /\ Behind(chan[i])'
                      /\ \A j \in 1 .. n - 1 : i < j => Before(chan'[i], chan'[j])
    BY <1>1 DEF InOrder
  <2>1. chan'[i] = chan[i + 1] /\ i + 1 \in 1 .. n
    BY <1>1
  <2>2. Behind(chan[i])'
    BY <1>3, <2>1 DEF Behind
  <2>3. ASSUME NEW j \in 1 .. n - 1, i < j PROVE Before(chan'[i], chan'[j])
    <3>1. chan'[j] = chan[j + 1] /\ j + 1 \in 1 .. n /\ i + 1 < j + 1
      BY <1>1, <2>3
    <3>2. QED
      BY <1>3, <2>1, <3>1
  <2>4. QED
    BY <2>2, <2>3
<1>6. NoGap'
  <2>1. ASSUME NEW i \in 2 .. n - 1, chan'[i].src # 0
        PROVE  FollowsOn(chan'[i - 1], chan'[i].id, chan'[i].src)
    <3>1. i \in 1 .. n - 1 /\ i - 1 \in 1 .. n - 1 /\ i + 1 \in 2 .. n /\ i + 1 - 1 = i /\ i - 1 + 1 = i
      BY <1>1
    <3>2. chan'[i] = chan[i + 1] /\ chan'[i - 1] = chan[i]
      BY <1>1, <3>1
    <3> DEFINE j == i + 1
    <3>3. j \in 2 .. n /\ j - 1 = i /\ chan'[i] = chan[j]
      BY <1>1, <3>1, <3>2
    <3> HIDE DEF j
    <3>4. FollowsOn(chan[j - 1], chan[j].id, chan[j].src)
      BY <1>4, <2>1, <3>3
    <3>5. QED
      BY <3>2, <3>3, <3>4
  <2>2. ASSUME Sending', chan' # <<>> PROVE FollowsOn(chan'[n - 1], phone'.id, phone'.src)
    <3>1. n - 1 \in 1 .. n - 1 /\ n - 1 + 1 = n
      BY <1>1, <1>2, <2>2
    <3>2. chan'[n - 1] = chan[n]
      BY <1>1, <3>1
    <3>3. FollowsOn(chan[n], phone.id, phone.src)
      BY <2>2 DEF Ordered, NoGap, Sending, n
    <3>4. QED
      BY <3>2, <3>3
  <2>3. QED
    BY <1>1, <2>1, <2>2 DEF NoGap
<1>7. p.n \in Nat /\ p.src \in Nat /\ p.src + p.n \in Nat /\ Read(p.len) \in Nat
  BY <1>1 DEF IsPack
<1>8. ASSUME p.src + p.n < Read(p.len)
      PROVE  buf' # NoBuf /\ offset' = p.src + p.n /\ frameLen' = Read(p.len)
  <2>1. ~(p.src + p.n >= Read(p.len))
    BY <1>7, <1>8
  <2>2. QED
    BY <2>1 DEF Collect
<1>9. ASSUME chan' # <<>>, chan'[1].src # 0 PROVE Ready(chan[1].src, chan[1].len)'
  <2>1. n - 1 # 0 /\ 1 \in 1 .. n - 1 /\ 1 + 1 = 2 /\ 2 \in 2 .. n /\ 2 \in 1 .. n /\ 2 - 1 = 1 /\ 1 < 2
    BY <1>1, <1>2, <1>9
  <2>2. chan'[1] = chan[2]
    BY <1>1, <2>1
  <2> DEFINE q == chan[2]
  <2>3. FollowsOn(p, q.id, q.src) /\ Before(p, q)
    BY <1>1, <1>3, <1>4, <1>9, <2>1, <2>2
  <2>4. IsPack(q) /\ q.src \in Nat /\ q.n \in Nat /\ q.id \in Nat /\ p.id \in Nat
    BY <1>1, <2>1
  <2> HIDE DEF p, q
  <2>5. p.id = q.id /\ p.src + p.n = q.src /\ p.len = q.len
    BY <2>3, <2>4 DEF FollowsOn, Before
  <2>6. p.src + p.n < Read(p.len)
    BY <2>4, <2>5 DEF IsPack
  <2>7. buf' # NoBuf /\ offset' = q.src /\ frameLen' = Read(q.len)
    BY <1>8, <2>5, <2>6
  <2>8. QED
    BY <2>2, <2>7 DEF Ready, q
<1>10. ASSUME chan' = <<>>, Sending' PROVE Ready(phone.src, Digits(phone.len))'
  <2>1. n = 1
    BY <1>1, <1>2, <1>10
  <2>2. FollowsOn(p, phone.id, phone.src) /\ Behind(p)
    BY <1>1, <1>3, <1>10, <2>1 DEF Ordered, NoGap, Sending, n
  <2>3. /\ phone.id \in Nat /\ phone.src \in Nat /\ phone.len \in Nat /\ phone.src <= phone.len
        /\ phone.len <= MaxFrame
    BY TypedFacts
  <2>4. phone.src # phone.len
    BY <1>10 DEF Sending
  <2>5. Read(Digits(phone.len)) \in Nat /\ Read(Digits(phone.len)) >= phone.len
    BY <2>3, DigitsFacts
  <2> DEFINE e == Digits(phone.len)
  <2> HIDE DEF p, e
  <2>6. p.src + p.n = phone.src /\ p.len = e
    BY <2>2, <2>3 DEF FollowsOn, Behind, e
  <2>7. p.src + p.n < Read(p.len)
    BY <2>3, <2>4, <2>5, <2>6 DEF e
  <2>8. buf' # NoBuf /\ offset' = phone.src /\ frameLen' = Read(e)
    BY <1>8, <2>6, <2>7
  <2>9. QED
    BY <2>8 DEF Ready, e
<1>11. QED
  BY <1>5, <1>6, <1>9, <1>10 DEF Ordered, Receiving

(* What ends the steady course, and when a copy through NULL is made. *)
LEMMA StepFacts ==
  ASSUME Typed, [Next]_vars
  PROVE  /\ (lost = TRUE => lost' = TRUE) /\ (stray # 0 => stray' # 0)
         /\ crashed # "no" => crashed' = crashed
         /\ \/ crashed' = crashed \/ crashed' = "heap" \/ lost' = TRUE
            \/ NextPack /\ buf = NoBuf
<1> DEFINE Step(null) ==
       /\ (lost = TRUE => lost' = TRUE) /\ (stray # 0 => stray' # 0)
       /\ crashed # "no" => crashed' = crashed
       /\ crashed' = crashed \/ crashed' = "heap" \/ lost' = TRUE \/ null
<1>1. ASSUME NEW p, NEW b, NEW off, NEW len, Collect(p, b, off, len), Running, stray' = stray
      PROVE  Step(FALSE)
  <2>1. CASE UNCHANGED <<got, rsp, lost, crashed>>
    BY <1>1, <2>1 DEF Running
  <2>2. CASE Answer
    BY <1>1, <2>2, AnswerEnds DEF Running
  <2>3. QED
    BY <1>1, <2>1, <2>2 DEF Collect, HandOn
<1>2. CASE WritePack
  BY <1>2 DEF WritePack, Queue
<1>3. CASE WriteStray
  <2>1. stray \in Nat /\ stray' = stray + 1
    BY <1>3 DEF WriteStray, Typed, TypeOK
  <2>2. crashed' = crashed /\ (lost' = lost \/ lost' = TRUE)
    BY <1>3 DEF WriteStray, Queue
  <2>3. QED
    BY <2>1, <2>2
<1>4. CASE Leave
  BY <1>4 DEF Leave
<1>5. CASE FirstPack
  <2> DEFINE p == Head(chan)
  <2>1. Running /\ stray' = stray
    BY <1>5 DEF FirstPack
  <2>2. \/ Collect(p, {Segment(p, 0)}, p.n, Read(p.len))
        \/ lost' = TRUE /\ crashed' = crashed
    BY <1>5 DEF FirstPack
  <2> HIDE DEF p
  <2>3. CASE lost' = TRUE /\ crashed' = crashed
    BY <2>1, <2>3
  <2>4. QED
    BY <1>1, <2>1, <2>2, <2>3
<1>6. CASE NextPack
  <2> DEFINE p == Head(chan)
             b == buf \cup {Segment(p, FRAME_HEAD * offset)}
  <2>1. Running /\ stray' = stray
    BY <1>6 DEF NextPack
  <2>2. \/ buf = NoBuf /\ lost' = lost
        \/ crashed' = "heap" /\ lost' = lost
        \/ Collect(p, b, offset + p.n, frameLen)
    BY <1>6 DEF NextPack
  <2> HIDE DEF p, b
  <2>3. CASE buf = NoBuf /\ lost' = lost
    BY <1>6, <2>1, <2>3 DEF Running
  <2>4. CASE crashed' = "heap" /\ lost' = lost
    BY <2>1, <2>4 DEF Running
  <2>5. QED
    BY <1>1, <2>1, <2>2, <2>3, <2>4
<1>7. CASE UNCHANGED vars
  BY <1>7 DEF vars
<1>8. QED
  BY <1>2, <1>3, <1>4, <1>5, <1>6, <1>7 DEF Next

LEMMA SteadyBack ==
  ASSUME Typed, [Next]_vars, Steady'
  PROVE  Steady
BY StepFacts DEF Steady, Running, Typed, TypeOK

(* The buffer is where a pack that is not the first one expects it. *)
LEMMA NextPackReady ==
  ASSUME Typed, Receiving, NextPack
  PROVE  /\ chan # <<>> /\ Head(chan) = chan[1]
         /\ buf # NoBuf /\ offset = chan[1].src /\ frameLen = Read(chan[1].len)
<1> DEFINE p == Head(chan)
<1>1. chan # <<>> /\ chan' = Tail(chan) /\ Read(p.seq) # 0
  BY DEF NextPack
<1>2. p = chan[1] /\ p \in PackType /\ IsPack(p)
  BY <1>1, TakeFacts, TypedFacts
<1> HIDE DEF p
<1>3. p.src # 0
  BY <1>1, <1>2 DEF IsPack
<1>4. Ready(p.src, p.len)
  BY <1>1, <1>2, <1>3 DEF Receiving
<1>5. QED
  BY <1>1, <1>2, <1>4 DEF Ready, p

LEMMA OrderKept == OrderInv /\ [Next]_vars => OrderInv'
<1> SUFFICES ASSUME OrderInv, [Next]_vars PROVE OrderInv'
  OBVIOUS
<1>1. /\ Typed /\ (Steady => Ordered)
      /\ ~lost /\ stray = 0 => crashed # "null"
  BY DEF OrderInv, Ordered
<1>2. ~lost' /\ stray' = 0 => crashed' # "null"
  <2> SUFFICES ASSUME ~lost', stray' = 0, crashed' = "null" PROVE FALSE
    OBVIOUS
  <2>1. ~lost /\ stray = 0 /\ crashed = "no" /\ NextPack /\ buf = NoBuf
    <3>1. lost \in BOOLEAN /\ lost' \in BOOLEAN
      BY <1>1, TypedKept DEF Typed, TypeOK
    <3>2. QED
      BY <1>1, <3>1, StepFacts
  <2>2. Receiving
    BY <1>1, <2>1 DEF Steady, Running, Ordered
  <2>3. QED
    BY <1>1, <2>1, <2>2, NextPackReady
<1>3. SUFFICES ASSUME Steady' PROVE Ordered'
  BY <1>1, <1>2, TypedKept DEF OrderInv, Ordered
<1>4. Ordered /\ ~lost'
  BY <1>1, <1>3, SteadyBack DEF Steady
<1>5. CASE WritePack
  BY <1>1, <1>4, <1>5, OrderedWrite
<1>6. CASE WriteStray
  BY <1>1, <1>3, <1>6 DEF WriteStray, Steady, Typed, TypeOK
<1>7. CASE Leave
  BY <1>1, <1>4, <1>7, OrderedLeave
<1>8. CASE FirstPack
  <2> DEFINE p == Head(chan)
  <2>1. chan # <<>> /\ chan' = Tail(chan) /\ phone' = phone /\ Read(p.seq) = 0
    BY <1>8 DEF FirstPack
  <2>2. Collect(p, {Segment(p, 0)}, p.n, Read(p.len))
    BY <1>4, <1>8 DEF FirstPack
  <2>3. p = chan[1] /\ p \in PackType /\ IsPack(p)
    BY <2>1, TakeFacts, <1>1, TypedFacts
  <2> HIDE DEF p
  <2>4. p.src = 0 /\ p.n \in Nat
    BY <2>1, <2>3 DEF IsPack, PackType
  <2>5. p.src + p.n = p.n /\ {Segment(p, 0)} # NoBuf
    BY <2>4 DEF NoBuf
  <2>6. Collect(chan[1], {Segment(p, 0)}, chan[1].src + chan[1].n, Read(chan[1].len))
    BY <2>2, <2>3, <2>5
  <2>7. QED
    BY <1>1, <1>4, <2>1, <2>5, <2>6, OrderedRead
<1>9. CASE NextPack
  <2> DEFINE p == Head(chan)
             b == buf \cup {Segment(p, FRAME_HEAD * offset)}
  <2>1. chan # <<>> /\ chan' = Tail(chan) /\ phone' = phone
    BY <1>9 DEF NextPack
  <2>2. crashed' # "no" \/ Collect(p, b, offset + p.n, frameLen)
    BY <1>9 DEF NextPack
  <2>3. b # NoBuf
    BY DEF NoBuf
  <2> HIDE DEF p, b
  <2>4. p = chan[1] /\ offset = p.src /\ frameLen = Read(p.len)
    BY <1>1, <1>4, <1>9, NextPackReady DEF Ordered, p
  <2>5. Collect(chan[1], b, chan[1].src + chan[1].n, Read(chan[1].len))
    BY <1>3, <2>2, <2>4 DEF Steady, Running
  <2>6. QED
    BY <1>1, <1>4, <2>1, <2>3, <2>5, OrderedRead
<1>10. CASE UNCHANGED vars
  BY <1>4, <1>10 DEF vars, recvVars, Ordered, InOrder, NoGap, Receiving, Behind, Sending, Ready
<1>11. QED
  BY <1>5, <1>6, <1>7, <1>8, <1>9, <1>10 DEF Next

LEMMA OrderFirst == Init => OrderInv
<1> SUFFICES ASSUME Init PROVE OrderInv
  OBVIOUS
<1>1. Len(<<>>) = 0 /\ 1 .. 0 = {} /\ 2 .. 0 = {} /\ chan = <<>> /\ crashed = "no" /\ ~Sending
  BY DEF Init, NoPhone, Sending
<1>2. QED
  BY <1>1, TypedFirst DEF OrderInv, InOrder, NoGap, Receiving

(* A copy is made from or to where there is no buffer only after an         *)
(* allocation failed or a phone wrote a stray pack, whatever the frames'    *)
(* lengths are and whichever phone left (ble_recv_data_unpack).             *)
THEOREM BufferStaysThere == Spec => []BufferIsThere
<1>1. OrderInv => BufferIsThere
  BY DEF OrderInv, BufferIsThere, Typed, TypeOK
<1>2. QED
  BY <1>1, OrderFirst, OrderKept, PTL DEF Spec

-----------------------------------------------------------------------------
(* What was written and what was handed on. *)

(* What is queued, handed on or written has no number above the phone's, and *)
(* the frame that is being sent is not among what was handed on or written. *)
LEMMA PastWrite ==
  ASSUME NEW f, NEW p, Writes(f, p), phone.id \in Nat, NEW id \in Nat, Past(id)
  PROVE  id < f.id
<1>1. /\ f.id \in 1 .. MaxFrames
      /\ \/ ~Sending /\ f.id = phone.id + 1
         \/ Sending /\ f.id = phone.id
      /\ phone' = [id |-> f.id, len |-> f.len, src |-> f.src + p.n, seq |-> f.seq + 1]
  BY DEF Writes, Cuts
<1>2. phone'.id = f.id /\ f.id \in Nat
  BY <1>1, FrameConstants
<1>3. QED
  BY <1>1, <1>2 DEF Past

LEMMA WrittenTyped ==
  ASSUME Typed
  PROVE  /\ whole \in Seq(1 .. MaxFrames) /\ Len(whole) \in Nat
         /\ \A i \in 1 .. Len(whole) : whole[i] \in 1 .. MaxFrames /\ whole[i] \in Nat
         /\ got \in Seq(Handed) /\ Len(got) \in Nat
         /\ \A i \in 1 .. Len(got) : got[i].id \in 1 .. MaxFrames /\ got[i].id \in Nat
<1>1. whole \in Seq(1 .. MaxFrames) /\ got \in Seq(Handed) /\ MaxFrames \in Nat
  BY FrameConstants DEF Typed, TypeOK, Handed
<1>2. ASSUME NEW i \in 1 .. Len(whole) PROVE whole[i] \in 1 .. MaxFrames /\ whole[i] \in Nat
  <2>1. whole[i] \in 1 .. MaxFrames
    BY <1>1, ElementOfSeq
  <2>2. QED
    BY <1>1, <2>1
<1>3. ASSUME NEW i \in 1 .. Len(got) PROVE got[i].id \in 1 .. MaxFrames /\ got[i].id \in Nat
  <2>1. got[i] \in Handed
    BY <1>1, ElementOfSeq
  <2>2. QED
    BY <1>1, <2>1 DEF Handed
<1>4. QED
  BY <1>1, <1>2, <1>3, LenProperties

LEMMA WrittenWrite ==
  ASSUME \A l \in FrameLens : l < 16384, Typed, Written, WritePack, ~lost'
  PROVE  Written'
<1> DEFINE n == Len(chan)
           w == Len(whole)
           g == Len(got)
<1>0. TypeOK /\ PhoneAt /\ phone.id \in Nat /\ n \in Nat /\ chan \in Seq(PackType)
  BY TypedFacts
<1>1. PICK f, p : Writes(f, p)
  BY <1>0, WriteFacts
<1>2. Cuts(f, p) /\ f.id \in 1 .. MaxFrames /\ f.len \in FrameLens
      /\ f.src \in Nat /\ p.n \in Nat /\ f.src + p.n <= f.len
  BY <1>1 DEF Writes, Cuts
<1>3. /\ p \in PackType /\ p.id = f.id /\ p.src = f.src /\ p.len = Digits(f.len)
      /\ f.len \in Nat /\ f.len <= MaxFrame
  BY <1>2, PackFacts
<1>4. Final(p) <=> f.src + p.n = f.len
  <2>1. Read(p.len) = f.len
    BY <1>2, <1>3, DigitsFacts
  <2>2. QED
    BY <1>2, <1>3, <2>1 DEF Final
<1>5. phone'.id = f.id /\ phone'.len = f.len /\ phone'.src = f.src + p.n
  BY <1>1 DEF Writes
<1>6. chan' = Append(chan, p)
  BY <1>1 DEF Writes
<1>7. /\ Len(chan') = n + 1 /\ chan'[n + 1] = p
      /\ \A j \in 1 .. n : chan'[j] = chan[j]
  BY <1>0, <1>3, <1>6, AppendFacts
<1>8. got' = got
  BY DEF WritePack
<1>9. /\ whole \in Seq(1 .. MaxFrames) /\ w \in Nat
      /\ \A i \in 1 .. w : whole[i] \in 1 .. MaxFrames /\ whole[i] \in Nat
      /\ got \in Seq(Handed) /\ g \in Nat
      /\ \A i \in 1 .. g : got[i].id \in 1 .. MaxFrames /\ got[i].id \in Nat
  BY WrittenTyped
<1> HIDE DEF n, w, g
<1>10. \A j \in 1 .. n + 1 : j \in 1 .. n \/ j = n + 1
  BY <1>0
<1>11. /\ \A i \in 1 .. w : Past(whole[i]) /\ \A j \in 1 .. w : i < j => whole[i] < whole[j]
       /\ \A i \in 1 .. g : /\ Past(got[i].id)
                            /\ \A j \in 1 .. g : i < j => got[i].id < got[j].id
                            /\ \A j \in 1 .. n : got[i].id < chan[j].id
       /\ \A m \in 1 .. MaxFrames :
            (\E i \in 1 .. w : whole[i] = m) <=>
               \/ \E i \in 1 .. g : got[i].id = m
               \/ \E j \in 1 .. n : chan[j].id = m /\ Final(chan[j])
  BY DEF Written, n, w, g
<1>12. ASSUME NEW i \in 1 .. w PROVE whole[i] < f.id /\ whole[i] <= f.id
  <2> DEFINE id == whole[i]
  <2>1. id \in Nat /\ Past(id) /\ f.id \in Nat
    BY <1>2, <1>9, <1>11, FrameConstants
  <2> HIDE DEF id
  <2>2. id < f.id
    BY <1>0, <1>1, <2>1, PastWrite
  <2>3. QED
    BY <2>1, <2>2 DEF id
<1>13. ASSUME NEW i \in 1 .. g
       PROVE  /\ Past(got[i].id)'
              /\ \A j \in 1 .. n + 1 : got'[i].id < chan'[j].id
  <2> DEFINE id == got[i].id
  <2>1. id \in Nat /\ Past(id) /\ f.id \in Nat
    BY <1>2, <1>9, <1>11, FrameConstants
  <2>2. id < f.id
    <3> HIDE DEF id
    <3>1. QED
      BY <1>0, <1>1, <2>1, PastWrite
  <2>3. Past(got[i].id)'
    BY <1>5, <1>8, <2>1, <2>2 DEF Past
  <2>4. QED
    BY <1>3, <1>7, <1>8, <1>10, <1>11, <2>2, <2>3
<1>14. ASSUME NEW m \in 1 .. MaxFrames
       PROVE  (\E j \in 1 .. n + 1 : chan'[j].id = m /\ Final(chan'[j])) <=>
                 \/ \E j \in 1 .. n : chan[j].id = m /\ Final(chan[j])
                 \/ f.id = m /\ Final(p)
  <2>1. n + 1 \in 1 .. n + 1 /\ \A j \in 1 .. n : j \in 1 .. n + 1
    BY <1>0
  <2>2. QED
    BY <1>3, <1>7, <1>10, <2>1
<1>15. CASE f.src + p.n # f.len
  <2>1. whole' = whole /\ ~Final(p)
    BY <1>1, <1>4, <1>15 DEF Writes
  <2>2. \A i \in 1 .. Len(whole') : /\ Past(whole[i])'
                                    /\ \A j \in 1 .. Len(whole') : i < j => whole'[i] < whole'[j]
    BY <1>5, <1>11, <1>12, <2>1 DEF w, Past
  <2>3. \A m \in 1 .. MaxFrames :
            (\E i \in 1 .. Len(whole') : whole'[i] = m) <=>
               \/ \E i \in 1 .. Len(got') : got'[i].id = m
               \/ \E j \in 1 .. Len(chan') : chan'[j].id = m /\ Final(chan'[j])
    <3>1. Len(whole') = w /\ Len(got') = g
      BY <1>8, <2>1 DEF w, g
    <3>2. QED
      BY <1>7, <1>8, <1>11, <1>14, <2>1, <3>1
  <2>4. QED
    BY <1>7, <1>8, <1>11, <1>13, <2>2, <2>3 DEF Written, g
<1>16. CASE f.src + p.n = f.len
  <2>1. whole' = Append(whole, f.id) /\ Final(p)
    BY <1>1, <1>4, <1>16 DEF Writes
  <2>2. /\ Len(whole') = w + 1 /\ whole'[w + 1] = f.id
        /\ \A i \in 1 .. w : whole'[i] = whole[i]
    BY <1>2, <1>9, <2>1, AppendFacts DEF w
  <2>3. \A i \in 1 .. w + 1 : i \in 1 .. w \/ i = w + 1
    BY <1>9
  <2>4. ASSUME NEW i \in 1 .. w + 1
        PROVE  /\ Past(whole[i])'
               /\ \A j \in 1 .. w + 1 : i < j => whole'[i] < whole'[j]
    <3>1. CASE i \in 1 .. w
      <4>1. Past(whole[i])'
        BY <1>5, <1>12, <2>2, <3>1 DEF Past
      <4>2. \A j \in 1 .. w + 1 : i < j => whole'[i] < whole'[j]
        BY <1>11, <1>12, <2>2, <2>3, <3>1
      <4>3. QED
        BY <4>1, <4>2
    <3>2. CASE i = w + 1
      <4>1. \A j \in 1 .. w + 1 : ~(i < j)
        BY <1>9, <3>2
      <4>2. ~Sending'
        BY <1>5, <1>16 DEF Sending
      <4>3. f.id \in Nat
        BY <1>2, FrameConstants
      <4>4. whole'[i] = phone'.id /\ phone'.id \in Nat
        BY <1>5, <2>2, <3>2, <4>3
      <4>5. Past(whole[i])'
        BY <4>2, <4>4 DEF Past
      <4>6. QED
        BY <4>1, <4>5
    <3>3. QED
      BY <2>3, <3>1, <3>2
  <2>5. ASSUME NEW m \in 1 .. MaxFrames
        PROVE  (\E i \in 1 .. w + 1 : whole'[i] = m) <=> (\E i \in 1 .. w : whole[i] = m) \/ f.id = m
    <3>1. w + 1 \in 1 .. w + 1 /\ \A i \in 1 .. w : i \in 1 .. w + 1
      BY <1>9
    <3>2. QED
      BY <2>2, <2>3, <3>1
  <2>6. \A m \in 1 .. MaxFrames :
            (\E i \in 1 .. Len(whole') : whole'[i] = m) <=>
               \/ \E i \in 1 .. Len(got') : got'[i].id = m
               \/ \E j \in 1 .. Len(chan') : chan'[j].id = m /\ Final(chan'[j])
    <3>1. Len(whole') = w + 1 /\ Len(got') = g
      BY <1>8, <2>2 DEF g
    <3>2. ASSUME NEW m \in 1 .. MaxFrames
          PROVE  (\E i \in 1 .. w + 1 : whole'[i] = m) <=>
                    \/ \E i \in 1 .. g : got[i].id = m
                    \/ \E j \in 1 .. n + 1 : chan'[j].id = m /\ Final(chan'[j])
      <4>1. (\E i \in 1 .. w + 1 : whole'[i] = m) <=> (\E i \in 1 .. w : whole[i] = m) \/ f.id = m
        BY <2>5
      <4>2. (\E i \in 1 .. w : whole[i] = m) <=>
               \/ \E i \in 1 .. g : got[i].id = m
               \/ \E j \in 1 .. n : chan[j].id = m /\ Final(chan[j])
        BY <1>11
      <4>3. (\E j \in 1 .. n + 1 : chan'[j].id = m /\ Final(chan'[j])) <=>
               \/ \E j \in 1 .. n : chan[j].id = m /\ Final(chan[j])
               \/ f.id = m
        BY <1>14, <2>1
      <4>4. QED
        BY <4>1, <4>2, <4>3
    <3>3. QED
      BY <1>7, <1>8, <3>1, <3>2
  <2>7. QED
    BY <1>7, <1>8, <1>11, <1>13, <2>2, <2>4, <2>6 DEF Written, g
<1>17. QED
  BY <1>15, <1>16

LEMMA WrittenLeave ==
  ASSUME Typed, Written, Leave
  PROVE  Written'
<1>1. phone' = [phone EXCEPT !.src = phone.len] /\ UNCHANGED <<chan, got, whole>>
  BY DEF Leave
<1>2. phone'.id = phone.id /\ phone'.len = phone.len /\ phone'.src = phone.len
  <2>1. phone \in [id : 0 .. MaxFrames, len : FrameLens \cup {0}, src : Nat, seq : Nat]
    BY DEF Typed, TypeOK
  <2>2. QED
    BY <1>1, <2>1
<1>3. ~Sending'
  BY <1>2 DEF Sending
<1>4. ASSUME NEW id, Past(id) PROVE id <= phone'.id
  BY <1>2, <1>4 DEF Past
<1>5. \A i \in 1 .. Len(whole) : Past(whole[i])'
  BY <1>1, <1>3, <1>4 DEF Written, Past
<1>6. \A i \in 1 .. Len(got) : Past(got[i].id)'
  BY <1>1, <1>3, <1>4 DEF Written, Past
<1>7. QED
  BY <1>1, <1>5, <1>6 DEF Written

(* A pack is read: it ends its frame if and only if the frame is handed on. *)
LEMMA WrittenRead ==
  ASSUME Typed, InOrder, Written, chan # <<>>, chan' = Tail(chan), phone' = phone, whole' = whole,
         NEW b, Collect(chan[1], b, chan[1].src + chan[1].n, Read(chan[1].len))
  PROVE  Written'
<1> DEFINE n == Len(chan)
           g == Len(got)
           w == Len(whole)
           p == chan[1]
<1>1. /\ n \in Nat /\ n # 0 /\ Len(chan') = n - 1 /\ 1 \in 1 .. n
      /\ \A j \in 1 .. n - 1 : chan'[j] = chan[j + 1] /\ j + 1 \in 1 .. n
      /\ \A j \in 1 .. n : IsPack(chan[j]) /\ chan[j].src \in Nat /\ chan[j].n \in Nat /\ chan[j].id \in Nat
      /\ chan' \in Seq(PackType) /\ p \in PackType
  BY TypedFacts, TakeFacts
<1>2. /\ w \in Nat /\ \A i \in 1 .. w : whole[i] \in 1 .. MaxFrames /\ whole[i] \in Nat
      /\ got \in Seq(Handed) /\ g \in Nat
      /\ \A i \in 1 .. g : got[i].id \in 1 .. MaxFrames /\ got[i].id \in Nat
  BY WrittenTyped
<1>3. \A i \in 1 .. n : Behind(chan[i]) /\ \A j \in 1 .. n : i < j => Before(chan[i], chan[j])
  BY DEF InOrder
<1>4. p.n \in Nat /\ p.src \in Nat /\ p.id \in Nat /\ p.src + p.n \in Nat /\ Read(p.len) \in Nat
  BY <1>1 DEF IsPack
<1> HIDE DEF n, w, g
<1>5. /\ \A i \in 1 .. w : Past(whole[i]) /\ \A j \in 1 .. w : i < j => whole[i] < whole[j]
      /\ \A i \in 1 .. g : /\ Past(got[i].id)
                           /\ \A j \in 1 .. g : i < j => got[i].id < got[j].id
                           /\ \A j \in 1 .. n : got[i].id < chan[j].id
      /\ \A m \in 1 .. MaxFrames :
           (\E i \in 1 .. w : whole[i] = m) <=>
              \/ \E i \in 1 .. g : got[i].id = m
              \/ \E j \in 1 .. n : chan[j].id = m /\ Final(chan[j])
  BY DEF Written, n, w, g
<1>6. /\ n - 1 \in Nat
      /\ \A j \in 1 .. n : j = 1 \/ (j - 1 \in 1 .. n - 1 /\ chan'[j - 1] = chan[j])
  <2> SUFFICES ASSUME NEW j \in 1 .. n, j # 1
               PROVE  j - 1 \in 1 .. n - 1 /\ chan'[j - 1] = chan[j]
    BY <1>1
  <2>1. j - 1 \in 1 .. n - 1 /\ j - 1 + 1 = j
    BY <1>1
  <2>2. QED
    BY <1>1, <2>1
<1>7. \A i \in 1 .. w : Past(whole[i])'
  BY <1>5 DEF Past, Sending
<1>8. ASSUME NEW m \in 1 .. MaxFrames
      PROVE  (\E j \in 1 .. n : chan[j].id = m /\ Final(chan[j])) <=>
                \/ p.id = m /\ Final(p)
                \/ \E j \in 1 .. n - 1 : chan'[j].id = m /\ Final(chan'[j])
  <2>1. ASSUME \E j \in 1 .. n : chan[j].id = m /\ Final(chan[j])
        PROVE  \/ p.id = m /\ Final(p)
               \/ \E j \in 1 .. n - 1 : chan'[j].id = m /\ Final(chan'[j])
    BY <1>6, <2>1
  <2>2. ASSUME p.id = m /\ Final(p)
        PROVE  \E j \in 1 .. n : chan[j].id = m /\ Final(chan[j])
    BY <1>1, <2>2
  <2>3. ASSUME \E j \in 1 .. n - 1 : chan'[j].id = m /\ Final(chan'[j])
        PROVE  \E j \in 1 .. n : chan[j].id = m /\ Final(chan[j])
    BY <1>1, <2>3
  <2>4. QED
    BY <2>1, <2>2, <2>3
<1>9. CASE ~Final(p)
  <2>1. p.src + p.n < Read(p.len)
    BY <1>4, <1>9 DEF Final
  <2>2. got' = got
    <3>1. ~(p.src + p.n >= Read(p.len))
      BY <1>9 DEF Final
    <3>2. QED
      BY <3>1 DEF Collect
  <2>3. \A i \in 1 .. g : /\ Past(got[i].id)'
                          /\ \A j \in 1 .. n - 1 : got[i].id < chan'[j].id
    BY <1>1, <1>5, <2>2 DEF Past, Sending
  <2>4. ASSUME NEW m \in 1 .. MaxFrames
        PROVE  (\E i \in 1 .. w : whole[i] = m) <=>
                 \/ \E i \in 1 .. g : got[i].id = m
                 \/ \E j \in 1 .. n - 1 : chan'[j].id = m /\ Final(chan'[j])
    <3>1. (\E j \in 1 .. n : chan[j].id = m /\ Final(chan[j])) <=>
             \E j \in 1 .. n - 1 : chan'[j].id = m /\ Final(chan'[j])
      BY <1>8, <1>9
    <3>2. (\E i \in 1 .. w : whole[i] = m) <=>
             \/ \E i \in 1 .. g : got[i].id = m
             \/ \E j \in 1 .. n : chan[j].id = m /\ Final(chan[j])
      BY <1>5
    <3>3. QED
      BY <3>1, <3>2
  <2>5. Len(got') = g /\ Len(whole') = w
    BY <2>2 DEF g, w
  <2>6. ASSUME NEW i \in 1 .. g
        PROVE  /\ Past(got[i].id)'
               /\ \A j \in 1 .. g : i < j => got'[i].id < got'[j].id
               /\ \A j \in 1 .. n - 1 : got'[i].id < chan'[j].id
    BY <1>5, <2>2, <2>3
  <2>7. ASSUME NEW i \in 1 .. w
        PROVE  Past(whole[i])' /\ \A j \in 1 .. w : i < j => whole'[i] < whole'[j]
    BY <1>5, <1>7
  <2>8. ASSUME NEW m \in 1 .. MaxFrames
        PROVE  (\E i \in 1 .. w : whole'[i] = m) <=>
                 \/ \E i \in 1 .. g : got'[i].id = m
                 \/ \E j \in 1 .. n - 1 : chan'[j].id = m /\ Final(chan'[j])
    BY <2>2, <2>4
  <2>9. QED
    BY <1>1, <2>5, <2>6, <2>7, <2>8 DEF Written
<1>10. CASE Final(p)
  <2>1. HandOn(p, b)
    <3>1. ~(p.src + p.n < Read(p.len))
      BY <1>4, <1>10 DEF Final
    <3>2. QED
      BY <3>1 DEF Collect
  <2>2. PICK h : Hands(p, h)
    <3> HIDE DEF p
    <3>1. QED
      BY <1>1, <2>1, HandOnFacts
  <2>3. /\ h.id = p.id /\ Len(got') = g + 1 /\ got'[g + 1] = h
        /\ \A i \in 1 .. g : got'[i] = got[i]
    BY <1>2, <2>2, AppendFacts DEF Hands, g
  <2>4. \A i \in 1 .. g + 1 : i \in 1 .. g \/ i = g + 1
    BY <1>2
  <2>5. Past(p.id)
    <3>1. /\ phone.id \in Nat /\ phone.src \in Nat /\ phone.len \in Nat /\ phone.src <= phone.len
          /\ phone.len <= MaxFrame
      BY TypedFacts
    <3>2. Behind(p)
      BY <1>1, <1>3
    <3>3. Read(Digits(phone.len)) \in Nat /\ Read(Digits(phone.len)) >= phone.len
      BY <3>1, DigitsFacts
    <3> DEFINE r == Read(p.len)
    <3>4. p.len = Digits(phone.len) => r >= phone.len
      BY <3>3
    <3>5. p.src + p.n >= r /\ r \in Nat
      BY <1>4, <1>10 DEF Final
    <3> HIDE DEF p, r
    <3>6. QED
      BY <1>4, <3>1, <3>2, <3>4, <3>5 DEF Past, Behind, Sending
  <2>6. ASSUME NEW j \in 1 .. n - 1 PROVE p.id < chan'[j].id
    <3> DEFINE q == chan[j + 1]
    <3>1. j + 1 \in 1 .. n /\ chan'[j] = q /\ 1 < j + 1
      BY <1>1
    <3>2. Before(p, q)
      BY <1>1, <1>3, <3>1
    <3>3. IsPack(q) /\ q.src \in Nat /\ q.n \in Nat /\ q.id \in Nat
      BY <1>1, <3>1
    <3> HIDE DEF p, q
    <3>4. ~(p.src + p.n <= q.src /\ p.len = q.len)
      BY <1>4, <1>10, <3>3 DEF Final, IsPack
    <3>5. QED
      BY <3>1, <3>2, <3>4 DEF Before
  <2>7. ASSUME NEW i \in 1 .. g + 1
        PROVE  /\ Past(got[i].id)'
               /\ \A j \in 1 .. g + 1 : i < j => got'[i].id < got'[j].id
               /\ \A j \in 1 .. n - 1 : got'[i].id < chan'[j].id
    <3>1. CASE i \in 1 .. g
      <4>1. got'[i] = got[i] /\ got[i].id < p.id
        BY <1>1, <1>5, <2>3, <3>1
      <4>2. Past(got[i].id)'
        BY <1>5, <3>1, <4>1 DEF Past, Sending
      <4>3. \A j \in 1 .. g + 1 : i < j => got'[i].id < got'[j].id
        BY <1>5, <2>3, <2>4, <3>1, <4>1
      <4>4. \A j \in 1 .. n - 1 : got'[i].id < chan'[j].id
        BY <1>1, <1>5, <3>1, <4>1
      <4>5. QED
        BY <4>2, <4>3, <4>4
    <3>2. CASE i = g + 1
      <4>1. got'[i].id = p.id
        BY <2>3, <3>2
      <4>2. Past(got[i].id)'
        BY <2>5, <4>1 DEF Past, Sending
      <4>3. \A j \in 1 .. g + 1 : ~(i < j)
        BY <1>2, <3>2
      <4>4. QED
        BY <2>6, <4>1, <4>2, <4>3
    <3>3. QED
      BY <2>4, <3>1, <3>2
  <2>8. ASSUME NEW m \in 1 .. MaxFrames
        PROVE  (\E i \in 1 .. w : whole[i] = m) <=>
                 \/ \E i \in 1 .. g + 1 : got'[i].id = m
                 \/ \E j \in 1 .. n - 1 : chan'[j].id = m /\ Final(chan'[j])
    <3>1. (\E i \in 1 .. g + 1 : got'[i].id = m) <=> (\E i \in 1 .. g : got[i].id = m) \/ p.id = m
      <4>1. g + 1 \in 1 .. g + 1 /\ \A i \in 1 .. g : i \in 1 .. g + 1
        BY <1>2
      <4>2. QED
        BY <2>3, <2>4, <4>1
    <3>2. (\E j \in 1 .. n : chan[j].id = m /\ Final(chan[j])) <=>
             \/ p.id = m
             \/ \E j \in 1 .. n - 1 : chan'[j].id = m /\ Final(chan'[j])
      BY <1>8, <1>10
    <3>3. (\E i \in 1 .. w : whole[i] = m) <=>
             \/ \E i \in 1 .. g : got[i].id = m
             \/ \E j \in 1 .. n : chan[j].id = m /\ Final(chan[j])
      BY <1>5
    <3>4. QED
      BY <3>1, <3>2, <3>3
  <2>9. QED
    BY <1>1, <1>5, <1>7, <2>3, <2>7, <2>8 DEF Written, w
<1>11. QED
  BY <1>9, <1>10

LEMMA IKept ==
  ASSUME \A l \in FrameLens : l < 16384
  PROVE  IInv /\ [Next]_vars => IInv'
<1> SUFFICES ASSUME IInv, [Next]_vars PROVE IInv'
  OBVIOUS
<1>1. OrderInv /\ Typed /\ (Steady => Ordered) /\ (Steady => Written)
  BY DEF IInv, OrderInv, Ordered
<1>2. SUFFICES ASSUME Steady' PROVE Written'
  BY <1>1, OrderKept DEF IInv
<1>3. Ordered /\ InOrder /\ Written /\ ~lost'
  BY <1>1, <1>2, SteadyBack DEF Steady, Ordered
<1>4. CASE WritePack
  BY <1>1, <1>3, <1>4, WrittenWrite
<1>5. CASE WriteStray
  BY <1>1, <1>2, <1>5 DEF WriteStray, Steady, Typed, TypeOK
<1>6. CASE Leave
  BY <1>1, <1>3, <1>6, WrittenLeave
<1>7. CASE FirstPack
  <2> DEFINE p == Head(chan)
  <2>1. chan # <<>> /\ chan' = Tail(chan) /\ UNCHANGED <<phone, whole>> /\ Read(p.seq) = 0
    BY <1>7 DEF FirstPack
  <2>2. Collect(p, {Segment(p, 0)}, p.n, Read(p.len))
    BY <1>3, <1>7 DEF FirstPack
  <2>3. p = chan[1] /\ p \in PackType /\ IsPack(p)
    BY <2>1, TakeFacts, <1>1, TypedFacts
  <2> HIDE DEF p
  <2>4. p.src = 0 /\ p.n \in Nat
    BY <2>1, <2>3 DEF IsPack, PackType
  <2>5. p.src + p.n = p.n
    BY <2>4
  <2>6. Collect(chan[1], {Segment(p, 0)}, chan[1].src + chan[1].n, Read(chan[1].len))
    BY <2>2, <2>3, <2>5
  <2>7. QED
    BY <1>1, <1>3, <2>1, <2>6, WrittenRead
<1>8. CASE NextPack
  <2> DEFINE p == Head(chan)
             b == buf \cup {Segment(p, FRAME_HEAD * offset)}
  <2>1. chan # <<>> /\ chan' = Tail(chan) /\ UNCHANGED <<phone, whole>>
    BY <1>8 DEF NextPack
  <2>2. crashed' # "no" \/ Collect(p, b, offset + p.n, frameLen)
    BY <1>8 DEF NextPack
  <2> HIDE DEF p, b
  <2>3. p = chan[1] /\ offset = p.src /\ frameLen = Read(p.len)
    BY <1>1, <1>3, <1>8, NextPackReady DEF Ordered, p
  <2>4. Collect(chan[1], b, chan[1].src + chan[1].n, Read(chan[1].len))
    BY <1>2, <2>2, <2>3 DEF Steady, Running
  <2>5. QED
    BY <1>1, <1>3, <2>1, <2>4, WrittenRead
<1>9. CASE UNCHANGED vars
  BY <1>3, <1>9 DEF vars, Written, Past, Sending
<1>10. QED
  BY <1>4, <1>5, <1>6, <1>7, <1>8, <1>9 DEF Next

LEMMA IFirst == Init => IInv
<1> SUFFICES ASSUME Init PROVE IInv
  OBVIOUS
<1>1. Len(<<>>) = 0 /\ 1 .. 0 = {} /\ chan = <<>> /\ got = <<>> /\ whole = <<>>
  BY DEF Init
<1>2. Written
  BY <1>1 DEF Written
<1>3. QED
  BY <1>2, OrderFirst DEF IInv

Increasing(s) == \A i, j \in 1 .. Len(s) : i < j => s[i] < s[j]

SameNumbers(S, s, t) ==
  \A m \in S : (\E i \in 1 .. Len(s) : s[i] = m) <=> (\E j \in 1 .. Len(t) : t[j] = m)

(* Two increasing sequences of the same numbers are the same. *)
LEMMA SameIncreasing ==
  ASSUME NEW S, S \subseteq Nat, NEW a \in Seq(S), NEW c \in Seq(S), Increasing(a), Increasing(c),
         SameNumbers(S, a, c)
  PROVE  a = c
<1> DEFINE n == Len(a)
           l == Len(c)
           bad == {k \in Nat \ {0} : (k <= n \/ k <= l) /\ ~(k <= n /\ k <= l /\ a[k] = c[k])}
<1>1. /\ n \in Nat /\ l \in Nat /\ a = [i \in 1 .. n |-> a[i]] /\ c = [i \in 1 .. l |-> c[i]]
      /\ \A i \in 1 .. n : a[i] \in S /\ a[i] \in Nat
      /\ \A i \in 1 .. l : c[i] \in S /\ c[i] \in Nat
  BY ElementOfSeq, LenProperties
<1>2. /\ \A i, j \in 1 .. n : i < j => a[i] < a[j]
      /\ \A i, j \in 1 .. l : i < j => c[i] < c[j]
  BY DEF Increasing
<1>3. /\ \A i \in 1 .. n : \E j \in 1 .. l : c[j] = a[i]
      /\ \A j \in 1 .. l : \E i \in 1 .. n : a[i] = c[j]
  BY <1>1 DEF SameNumbers
<1> HIDE DEF n, l
<1>4. bad = {}
  <2>1. SUFFICES ASSUME bad # {} PROVE FALSE
    OBVIOUS
  <2>2. PICK k \in bad : \A y \in bad : k <= y
    <3>1. bad \subseteq Nat
      OBVIOUS
    <3> HIDE DEF bad
    <3>2. QED
      BY <2>1, <3>1, LeastOf
  <2>3. k \in Nat /\ k # 0 /\ (k <= n \/ k <= l) /\ ~(k <= n /\ k <= l /\ a[k] = c[k])
    OBVIOUS
  <2>4. ASSUME NEW i \in Nat \ {0}, i < k PROVE i \in 1 .. n /\ i \in 1 .. l /\ a[i] = c[i]
    <3>1. ~(k <= i) /\ (i <= n \/ i <= l)
      BY <1>1, <2>3, <2>4
    <3>2. i \notin bad
      <4> HIDE DEF bad
      <4>1. QED
        BY <2>2, <3>1
    <3>3. i <= n /\ i <= l /\ a[i] = c[i]
      BY <2>4, <3>1, <3>2
    <3>4. QED
      BY <1>1, <2>4, <3>3
  <2> HIDE DEF bad
  <2>5. ASSUME k <= n PROVE k <= l /\ a[k] >= c[k] /\ k \in 1 .. n /\ k \in 1 .. l
    <3>1. k \in 1 .. n
      BY <1>1, <2>3, <2>5
    <3>2. PICK j \in 1 .. l : c[j] = a[k]
      BY <1>3, <3>1
    <3>3. j \in Nat \ {0} /\ ~(j < k)
      <4>1. j \in Nat \ {0}
        BY <1>1
      <4>2. ASSUME j < k PROVE FALSE
        <5>1. j \in 1 .. n /\ a[j] = c[j]
          BY <2>4, <4>1, <4>2
        <5>2. a[j] < a[k] /\ a[j] = a[k] /\ a[k] \in Nat
          BY <1>1, <1>2, <3>1, <3>2, <4>2, <5>1
        <5>3. QED
          BY <5>2
      <4>3. QED
        BY <4>1, <4>2
    <3>4. k <= l /\ k \in 1 .. l /\ (k = j \/ k < j)
      BY <1>1, <2>3, <3>3
    <3>5. c[k] = c[j] \/ c[k] < c[j]
      BY <1>2, <3>4
    <3>6. QED
      BY <1>1, <3>1, <3>2, <3>4, <3>5
  <2>6. ASSUME k <= l PROVE k <= n /\ c[k] >= a[k] /\ k \in 1 .. n /\ k \in 1 .. l
    <3>1. k \in 1 .. l
      BY <1>1, <2>3, <2>6
    <3>2. PICK j \in 1 .. n : a[j] = c[k]
      BY <1>3, <3>1
    <3>3. j \in Nat \ {0} /\ ~(j < k)
      <4>1. j \in Nat \ {0}
        BY <1>1
      <4>2. ASSUME j < k PROVE FALSE
        <5>1. j \in 1 .. l /\ a[j] = c[j]
          BY <2>4, <4>1, <4>2
        <5>2. c[j] < c[k] /\ c[j] = c[k] /\ c[k] \in Nat
          BY <1>1, <1>2, <3>1, <3>2, <4>2, <5>1
        <5>3. QED
          BY <5>2
      <4>3. QED
        BY <4>1, <4>2
    <3>4. k <= n /\ k \in 1 .. n /\ (k = j \/ k < j)
      BY <1>1, <2>3, <3>3
    <3>5. a[k] = a[j] \/ a[k] < a[j]
      BY <1>2, <3>4
    <3>6. QED
      BY <1>1, <3>1, <3>2, <3>4, <3>5
  <2>7. k <= n /\ k <= l
    BY <2>3, <2>5, <2>6
  <2>8. a[k] = c[k]
    BY <1>1, <2>5, <2>6, <2>7
  <2>9. QED
    BY <2>3, <2>7, <2>8
<1>5. \A k \in Nat \ {0} : k <= n \/ k <= l => k <= n /\ k <= l /\ a[k] = c[k]
  BY <1>4
<1>6. n = l
  <2>1. ASSUME n > l PROVE FALSE
    <3>1. n \in Nat \ {0} /\ n <= n /\ ~(n <= l)
      BY <1>1, <2>1
    <3>2. QED
      BY <1>5, <3>1
  <2>2. ASSUME l > n PROVE FALSE
    <3>1. l \in Nat \ {0} /\ l <= l /\ ~(l <= n)
      BY <1>1, <2>2
    <3>2. QED
      BY <1>5, <3>1
  <2>3. QED
    BY <1>1, <2>1, <2>2
<1>7. ASSUME NEW i \in 1 .. n PROVE a[i] = c[i]
  <2>1. i \in Nat \ {0} /\ i <= n
    BY <1>1
  <2>2. QED
    BY <1>5, <2>1
<1>8. QED
  BY <1>1, <1>6, <1>7

LEMMA SameFrames ==
  ASSUME Typed, Written, chan = <<>>
  PROVE  [i \in DOMAIN got |-> got[i].id] = whole
<1> DEFINE Numbers == 1 .. MaxFrames
           s == [i \in DOMAIN got |-> got[i].id]
           n == Len(got)
<1>1. /\ whole \in Seq(Numbers) /\ Numbers \subseteq Nat
      /\ got \in Seq(Handed) /\ n \in Nat
      /\ \A i \in 1 .. n : got[i].id \in Numbers
  BY WrittenTyped, FrameConstants
<1>2. s = [i \in 1 .. n |-> got[i].id]
  BY <1>1, LenProperties
<1>3. s \in [1 .. n -> Numbers] /\ \A i \in 1 .. n : s[i] = got[i].id
  BY <1>1, <1>2
<1>4. Len(chan) = 0 /\ 1 .. 0 = {}
  OBVIOUS
<1> HIDE DEF s
<1>5. s \in Seq(Numbers) /\ Len(s) = n
  <2> HIDE DEF Numbers, n
  <2>1. s \in Seq(Numbers)
    BY <1>1, <1>3, IsASeq
  <2>2. QED
    BY <1>1, <1>3, <2>1, LenProperties
<1>6. Len(s) = n /\ \A i \in 1 .. n : s[i] = got[i].id
  BY <1>3, <1>5
<1>7. Increasing(whole) /\ Increasing(s)
  BY <1>6 DEF Written, Increasing
<1>8. SameNumbers(Numbers, s, whole)
  BY <1>4, <1>6, SMTT(30) DEF Written, SameNumbers
<1> HIDE DEF Numbers, n
<1>9. s = whole
  BY <1>1, <1>5, <1>7, <1>8, SameIncreasing
<1>10. QED
  BY <1>9 DEF s

(* Frames whose length two digits can say are handed on once each and in    *)
(* their order, whichever phone left in the middle of one, as long as       *)
(* nothing is lost, no pack is stray and the program runs                   *)
(* (ble_recv_data_unpack, ble_recv_data_process).  A longer one never ends  *)
(* for the reader, which takes its length for more.                         *)
THEOREM FramesStayInOrder ==
  ASSUME \A l \in FrameLens : l < 16384
  PROVE  Spec => []FramesInOrder
<1>1. IInv => FramesInOrder
  BY SameFrames DEF IInv, OrderInv, FramesInOrder
<1>2. QED
  BY <1>1, IFirst, IKept, PTL DEF Spec
================================================================================
