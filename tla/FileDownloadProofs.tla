--------------------------- MODULE FileDownloadProofs ---------------------------
(***************************************************************************)
(* Proofs about FileDownload, for any file sizes, range length, number of   *)
(* retries and bounds: that bytes are put at their place, that a download   *)
(* ends once and goes on until then, and that the periodic check goes on.   *)
(*                                                                          *)
(* Nothing in the code counts the requests of a download.  It makes one at  *)
(* a time because a callback, or the retry timer, is what makes the next:   *)
(* the download is carried by a request in the list or by the timer, and a  *)
(* request carries what the download has received so far.                   *)
(***************************************************************************)
EXTENDS FileDownload, ListFacts

Req == [id : Nat, kind : Kinds, file : Nat, from : Nat, len : Nat]
Contexts == [list : Seq(Req), idCnt : Nat, answers : SUBSET Req]
Downloads == [state : States, nextstate : States, size : Nat, received : Nat,
              retry : Nat, file : Nat, ended : Nat]
TimerLists == {<<>>, <<"retry">>, <<"check">>, <<"retry", "check">>, <<"check", "retry">>}

Typed ==
  /\ dl \in Downloads /\ matop \in Contexts /\ timers \in TimerLists
  /\ crossed \in BOOLEAN /\ dropped \in BOOLEAN /\ truncated \in BOOLEAN
  /\ oversized \in BOOLEAN /\ intact \in BOOLEAN

(* Ids name requests: an answer whose id is in the list is to that request. *)
Named(m) ==
  /\ \A i \in DOMAIN m.list : m.list[i].id <= m.idCnt
  /\ \A a \in m.answers : a.id <= m.idCnt
  /\ \A a \in m.answers : \A i \in DOMAIN m.list : a.id = m.list[i].id => a = m.list[i]

Own(m, i) == i \in DOMAIN m.list /\ m.list[i].kind \in OwnKinds

(* One request of the download, or the retry timer, carries it; one that    *)
(* has ended is carried by none.                                            *)
Carried(d, m, t) ==
  /\ \A i, j \in DOMAIN m.list : Own(m, i) /\ Own(m, j) => i = j
  /\ \A i \in DOMAIN m.list : Own(m, i) => ~InList("retry", t) /\ d.ended = 0
  /\ InList("retry", t) => d.ended = 0

(* A request for a range asks for the bytes that come next, within the file. *)
AsksForNext(d, m) ==
  \A i \in DOMAIN m.list : m.list[i].kind = "range" =>
    /\ m.list[i].file = d.file
    /\ m.list[i].from = d.received
    /\ d.received + m.list[i].len <= d.size

(* A download that is in an end state has ended, once. *)
EndsOnce(d) ==
  /\ d.ended <= 1
  /\ d.state \in {"complete", "fault"} \/ d.nextstate \in {"complete", "fault"} => d.ended = 1
  /\ d.state = "complete" => d.received >= d.size

Within == ~oversized => dl.received <= dl.size

Straight == /\ Named(matop) /\ Carried(dl, matop, timers)
            /\ AsksForNext(dl, matop) /\ EndsOnce(dl) /\ Within /\ intact

IInv == Typed /\ CheckGoesOn /\ (~crossed => Straight)

NoOwn(m) == \A i \in DOMAIN m.list : m.list[i].kind \notin OwnKinds

-----------------------------------------------------------------------------
(* The context of Matop. *)

LEMMA ContextFacts ==
  ASSUME NEW m \in Contexts
  PROVE  /\ m.list \in Seq(Req) /\ m.idCnt \in Nat /\ m.answers \subseteq Req
         /\ Len(m.list) \in Nat /\ DOMAIN m.list = 1 .. Len(m.list)
         /\ \A i \in DOMAIN m.list : m.list[i] \in Req
         /\ m = [list |-> m.list, idCnt |-> m.idCnt, answers |-> m.answers]
BY DEF Contexts

LEMMA MakeContext ==
  ASSUME NEW l \in Seq(Req), NEW c \in Nat, NEW a, a \subseteq Req
  PROVE  LET n == [list |-> l, idCnt |-> c, answers |-> a]
         IN n \in Contexts /\ n.list = l /\ n.idCnt = c /\ n.answers = a
BY DEF Contexts

(* An answer finds an entry with its id, or none. *)
LEMMA PlaceFacts ==
  ASSUME NEW m \in Contexts, NEW id, PlaceOf(m, id) # 0
  PROVE  PlaceOf(m, id) \in DOMAIN m.list /\ m.list[PlaceOf(m, id)].id = id
<1> DEFINE places == {i \in DOMAIN m.list : m.list[i].id = id}
<1>1. places # {} /\ PlaceOf(m, id) = CHOOSE i \in places : \A j \in places : i <= j
  BY DEF PlaceOf
<1>2. places \subseteq Nat
  BY ContextFacts
<1>3. \E i \in places : \A j \in places : i <= j
  <2> HIDE DEF places
  <2>1. QED
    BY <1>1, <1>2, LeastOf
<1>4. PlaceOf(m, id) \in places
  <2> HIDE DEF places
  <2>1. QED
    BY <1>1, <1>3
<1>5. QED
  BY <1>4

(* What a request leaves. *)
LEMMA RequestFacts ==
  ASSUME NEW m \in Contexts, NEW kind \in Kinds, NEW file \in Nat, NEW from \in Nat, NEW len \in Nat,
         NEW published \in BOOLEAN
  PROVE  LET r == [id |-> m.idCnt + 1, kind |-> kind, file |-> file, from |-> from, len |-> len]
             n == Request(m, kind, file, from, len, published)
         IN /\ n \in Contexts /\ n.idCnt = m.idCnt + 1
            /\ n.list = IF published THEN Append(m.list, r) ELSE m.list
            /\ n.answers = IF published THEN m.answers \cup {r} ELSE m.answers
<1> DEFINE r == [id |-> m.idCnt + 1, kind |-> kind, file |-> file, from |-> from, len |-> len]
           n == Request(m, kind, file, from, len, published)
<1>1. m.idCnt + 1 \in Nat /\ r \in Req /\ Append(m.list, r) \in Seq(Req)
  <2>1. m.idCnt + 1 \in Nat
    BY ContextFacts
  <2>2. r \in Req
    BY <2>1 DEF Req
  <2> HIDE DEF r
  <2>3. Append(m.list, r) \in Seq(Req)
    BY <2>2, ContextFacts
  <2>4. QED
    BY <2>1, <2>2, <2>3
<1>2. n = IF published
          THEN [list |-> Append(m.list, r), idCnt |-> m.idCnt + 1, answers |-> m.answers \cup {r}]
          ELSE [list |-> m.list, idCnt |-> m.idCnt + 1, answers |-> m.answers]
  <2>1. [m EXCEPT !.idCnt = @ + 1]
          = [list |-> m.list, idCnt |-> m.idCnt + 1, answers |-> m.answers]
    BY ContextFacts
  <2>2. QED
    BY <2>1 DEF Request
<1> HIDE DEF n, r
<1>3. m.list \in Seq(Req) /\ m.answers \subseteq Req /\ m.answers \cup {r} \subseteq Req
  BY <1>1, ContextFacts
<1>4. /\ n \in Contexts /\ n.idCnt = m.idCnt + 1
      /\ n.list = IF published THEN Append(m.list, r) ELSE m.list
      /\ n.answers = IF published THEN m.answers \cup {r} ELSE m.answers
  <2>1. CASE published
    BY <1>1, <1>2, <1>3, <2>1, MakeContext
  <2>2. CASE ~published
    BY <1>1, <1>2, <1>3, <2>2, MakeContext
  <2>3. QED
    BY <2>1, <2>2
<1>5. QED
  BY <1>4 DEF n, r

(* A list with one more entry. *)
LEMMA LongerFacts ==
  ASSUME NEW m \in Contexts, NEW r \in Req
  PROVE  LET l == Append(m.list, r)
             k == Len(m.list) + 1
         IN /\ \A i \in DOMAIN l : (i \in DOMAIN m.list /\ l[i] = m.list[i]) \/ i = k
            /\ \A i \in DOMAIN m.list : i # k
            /\ k \in DOMAIN l /\ l[k] = r
<1> DEFINE s == m.list
<1>1. s \in Seq(Req)
  BY ContextFacts
<1> HIDE DEF s
<1>2. /\ Len(s) \in Nat /\ DOMAIN s = 1 .. Len(s) /\ DOMAIN Append(s, r) = 1 .. Len(s) + 1
      /\ Append(s, r)[Len(s) + 1] = r
      /\ \A i \in 1 .. Len(s) : Append(s, r)[i] = s[i]
  BY <1>1
<1>3. QED
  BY <1>2 DEF s

LEMMA NamedAfterRequest ==
  ASSUME NEW m \in Contexts, NEW kind \in Kinds, NEW file \in Nat, NEW from \in Nat, NEW len \in Nat,
         NEW published \in BOOLEAN, Named(m)
  PROVE  Named(Request(m, kind, file, from, len, published))
<1> DEFINE r == [id |-> m.idCnt + 1, kind |-> kind, file |-> file, from |-> from, len |-> len]
           n == Request(m, kind, file, from, len, published)
<1>1. /\ n.idCnt = m.idCnt + 1
      /\ n.list = IF published THEN Append(m.list, r) ELSE m.list
      /\ n.answers = IF published THEN m.answers \cup {r} ELSE m.answers
  BY RequestFacts
<1>2. m.idCnt \in Nat /\ r \in Req /\ r.id = m.idCnt + 1
  BY ContextFacts DEF Req
<1>3. /\ \A i \in DOMAIN m.list : m.list[i].id \in Nat
      /\ \A a \in m.answers : a.id \in Nat
  BY ContextFacts DEF Req
<1> HIDE DEF n, r
<1>4. ASSUME ~published PROVE Named(n)
  <2>1. n.list = m.list /\ n.answers = m.answers /\ n.idCnt = m.idCnt + 1
    BY <1>1, <1>4
  <2>2. \A i \in DOMAIN m.list : m.list[i].id <= m.idCnt + 1
    BY <1>2, <1>3 DEF Named
  <2>3. \A a \in m.answers : a.id <= m.idCnt + 1
    BY <1>2, <1>3 DEF Named
  <2>4. \A a \in m.answers : \A i \in DOMAIN m.list : a.id = m.list[i].id => a = m.list[i]
    BY DEF Named
  <2>5. QED
    BY <2>1, <2>2, <2>3, <2>4 DEF Named
<1>5. ASSUME published PROVE Named(n)
  <2>1. /\ \A i \in DOMAIN n.list : (i \in DOMAIN m.list /\ n.list[i] = m.list[i]) \/ n.list[i] = r
        /\ n.answers = m.answers \cup {r}
    BY <1>1, <1>2, <1>5, LongerFacts
  <2>2. \A a \in m.answers : a.id # r.id
    BY <1>2, <1>3 DEF Named
  <2>3. \A i \in DOMAIN m.list : m.list[i].id # r.id
    BY <1>2, <1>3 DEF Named
  <2>4. \A i \in DOMAIN n.list : n.list[i].id <= n.idCnt
    BY <1>1, <1>2, <1>3, <2>1 DEF Named
  <2>5. \A a \in n.answers : a.id <= n.idCnt
    BY <1>1, <1>2, <1>3, <2>1 DEF Named
  <2>6. ASSUME NEW a \in n.answers, NEW i \in DOMAIN n.list, a.id = n.list[i].id
        PROVE  a = n.list[i]
    BY <2>1, <2>2, <2>3, <2>6 DEF Named
  <2>7. QED
    BY <2>4, <2>5, <2>6 DEF Named
<1>6. QED
  BY <1>4, <1>5 DEF n

(* What a request does to the one that carries the download. *)
LEMMA OwnAsked ==
  ASSUME NEW m \in Contexts, NEW d \in Downloads, NEW t, NEW kind \in OwnKinds,
         NEW file \in Nat, NEW from \in Nat, NEW len \in Nat,
         NoOwn(m), ~InList("retry", t), d.ended = 0,
         kind = "range" => file = d.file /\ from = d.received /\ d.received + len <= d.size
  PROVE  LET n == Request(m, kind, file, from, len, TRUE)
         IN Carried(d, n, t) /\ AsksForNext(d, n)
<1> DEFINE r == [id |-> m.idCnt + 1, kind |-> kind, file |-> file, from |-> from, len |-> len]
           n == Request(m, kind, file, from, len, TRUE)
<1>1. kind \in Kinds
  BY DEF Kinds
<1>2. n.list = Append(m.list, r)
  BY DEF Request
<1>3. r \in Req /\ r.kind = kind /\ r.file = file /\ r.from = from /\ r.len = len
  BY <1>1, ContextFacts DEF Req
<1> HIDE DEF n, r
<1> DEFINE k == Len(m.list) + 1
<1>4. \A i \in DOMAIN n.list : (i \in DOMAIN m.list /\ n.list[i] = m.list[i]) \/ (i = k /\ n.list[i] = r)
  BY <1>2, <1>3, LongerFacts
<1> HIDE DEF k
<1>5. \A i \in DOMAIN n.list : n.list[i].kind \in OwnKinds => i = k /\ n.list[i] = r
  BY <1>4 DEF NoOwn
<1>6. Carried(d, n, t)
  BY <1>5 DEF Carried, Own
<1>7. AsksForNext(d, n)
  BY <1>3, <1>5 DEF AsksForNext, OwnKinds
<1>8. QED
  BY <1>6, <1>7 DEF n

LEMMA OtherAsked ==
  ASSUME NEW m \in Contexts, NEW kind \in Kinds \ OwnKinds,
         NEW file \in Nat, NEW from \in Nat, NEW len \in Nat, NEW published \in BOOLEAN
  PROVE  LET n == Request(m, kind, file, from, len, published)
         IN /\ NoOwn(m) => NoOwn(n)
            /\ \A d, t : Carried(d, m, t) => Carried(d, n, t)
            /\ \A d : AsksForNext(d, m) => AsksForNext(d, n)
<1> DEFINE r == [id |-> m.idCnt + 1, kind |-> kind, file |-> file, from |-> from, len |-> len]
           n == Request(m, kind, file, from, len, published)
<1>0. kind \in Kinds
  OBVIOUS
<1>1. n.list = IF published THEN Append(m.list, r) ELSE m.list
  BY ContextFacts DEF Request
<1>2. r \in Req /\ r.kind = kind
  BY <1>0, ContextFacts DEF Req
<1> HIDE DEF n, r
<1>3. \A i \in DOMAIN n.list : (i \in DOMAIN m.list /\ n.list[i] = m.list[i]) \/ n.list[i] = r
  BY <1>1, <1>2, LongerFacts
<1>4. \A i \in DOMAIN n.list : n.list[i].kind \in OwnKinds => i \in DOMAIN m.list /\ n.list[i] = m.list[i]
  BY <1>2, <1>3
<1>5. NoOwn(m) => NoOwn(n)
  BY <1>4 DEF NoOwn
<1>6. ASSUME NEW d, NEW t, Carried(d, m, t) PROVE Carried(d, n, t)
  BY <1>4, <1>6 DEF Carried, Own
<1>7. ASSUME NEW d, AsksForNext(d, m) PROVE AsksForNext(d, n)
  BY <1>4, <1>7 DEF AsksForNext, OwnKinds
<1>8. QED
  BY <1>5, <1>6, <1>7 DEF n

LEMMA NotPublished ==
  ASSUME NEW m \in Contexts, NEW kind \in Kinds, NEW file \in Nat, NEW from \in Nat, NEW len \in Nat
  PROVE  NoOwn(m) => NoOwn(Request(m, kind, file, from, len, FALSE))
<1> DEFINE n == Request(m, kind, file, from, len, FALSE)
<1>1. n.list = m.list
  BY ContextFacts DEF Request
<1> HIDE DEF n
<1>2. NoOwn(m) => NoOwn(n)
  BY <1>1 DEF NoOwn
<1>3. QED
  BY <1>2 DEF n

(* matop_serice_init: nothing is left but what is on its way. *)
LEMMA InitialisedFacts ==
  ASSUME NEW m \in Contexts
  PROVE  LET c == Initialised(m)
         IN c \in Contexts /\ c.list = <<>> /\ c.answers = m.answers
<1> DEFINE c == Initialised(m)
           empty == <<>>
<1>1. c = [list |-> empty, idCnt |-> 0, answers |-> m.answers]
  <2>1. c = [m EXCEPT !.list = empty, !.idCnt = 0]
    BY DEF Initialised
  <2> HIDE DEF c, empty
  <2>2. QED
    BY <2>1 DEF Contexts
<1>2. empty \in Seq(Req) /\ 0 \in Nat /\ m.answers \subseteq Req
  BY ContextFacts
<1> HIDE DEF c, empty
<1>3. c \in Contexts /\ c.list = empty /\ c.answers = m.answers
  BY <1>1, <1>2, MakeContext
<1>4. QED
  BY <1>3 DEF c, empty

(* A download whose requests have all been answered or given up. *)
LEMMA NotCarried ==
  ASSUME NEW m, NoOwn(m), NEW d, NEW t, InList("retry", t) => d.ended = 0
  PROVE  Carried(d, m, t) /\ AsksForNext(d, m)
BY DEF NoOwn, Carried, AsksForNext, Own, OwnKinds

(* An entry is removed. *)
LEMMA RemovedFacts ==
  ASSUME NEW m \in Contexts, NEW p \in DOMAIN m.list
  PROVE  LET n == RemovedAt(m, p)
         IN /\ n \in Contexts /\ n.idCnt = m.idCnt /\ n.answers = m.answers
            /\ \A i \in DOMAIN n.list : \E j \in DOMAIN m.list : j # p /\ n.list[i] = m.list[j]
            /\ \A i, k \in DOMAIN n.list : i # k =>
                 \E j, l \in DOMAIN m.list : j # l /\ n.list[i] = m.list[j] /\ n.list[k] = m.list[l]
<1> DEFINE s == m.list
           r == SubSeq(s, 1, p - 1) \o SubSeq(s, p + 1, Len(s))
           n == RemovedAt(m, p)
<1>1. s \in Seq(Req) /\ Len(s) \in Nat /\ DOMAIN s = 1 .. Len(s) /\ p \in 1 .. Len(s)
  BY ContextFacts
<1>2. n = [list |-> r, idCnt |-> m.idCnt, answers |-> m.answers]
  <2>1. n = [m EXCEPT !.list = r]
    BY DEF RemovedAt
  <2> HIDE DEF s, r, n
  <2>2. QED
    BY <2>1 DEF Contexts
<1> HIDE DEF s, n
<1>3. /\ r \in Seq(Req) /\ Len(r) = Len(s) - 1
      /\ \A k \in 1 .. Len(s) - 1 : r[k] = IF k < p THEN s[k] ELSE s[k + 1]
  BY <1>1, CutFacts
<1> HIDE DEF r
<1>4. n \in Contexts /\ n.list = r /\ n.idCnt = m.idCnt /\ n.answers = m.answers
  BY <1>2, <1>3, ContextFacts, MakeContext
<1>5. DOMAIN r = 1 .. Len(s) - 1
  BY <1>1, <1>3
<1> DEFINE at(i) == IF i < p THEN i ELSE i + 1
<1>6. \A i \in DOMAIN r : at(i) \in DOMAIN s /\ at(i) # p /\ r[i] = s[at(i)]
  BY <1>1, <1>3, <1>5
<1>7. \A i, k \in DOMAIN r : i # k => at(i) # at(k)
  BY <1>1, <1>5
<1> HIDE DEF at
<1>8. QED
  BY <1>4, <1>6, <1>7 DEF n, s

LEMMA AfterRemoval ==
  ASSUME NEW m \in Contexts, NEW p \in DOMAIN m.list
  PROVE  LET n == RemovedAt(m, p)
         IN /\ Named(m) => Named(n)
            /\ \A d, t : Carried(d, m, t) => Carried(d, n, t)
            /\ \A d : AsksForNext(d, m) => AsksForNext(d, n)
            /\ \A d, t : Carried(d, m, t) /\ m.list[p].kind \in OwnKinds => NoOwn(n)
<1> DEFINE n == RemovedAt(m, p)
<1>1. /\ n.idCnt = m.idCnt /\ n.answers = m.answers
      /\ \A i \in DOMAIN n.list : \E j \in DOMAIN m.list : j # p /\ n.list[i] = m.list[j]
      /\ \A i, k \in DOMAIN n.list : i # k =>
           \E j, l \in DOMAIN m.list : j # l /\ n.list[i] = m.list[j] /\ n.list[k] = m.list[l]
  BY RemovedFacts
<1> HIDE DEF n
<1>2. Named(m) => Named(n)
  BY <1>1 DEF Named
<1>3. ASSUME NEW d, NEW t, Carried(d, m, t) PROVE Carried(d, n, t)
  <2>1. \A i, k \in DOMAIN n.list : Own(n, i) /\ Own(n, k) => i = k
    BY <1>1, <1>3 DEF Carried, Own
  <2>2. \A i \in DOMAIN n.list : Own(n, i) => \E j \in DOMAIN m.list : Own(m, j)
    BY <1>1 DEF Own
  <2>3. QED
    BY <1>3, <2>1, <2>2 DEF Carried
<1>4. ASSUME NEW d, AsksForNext(d, m) PROVE AsksForNext(d, n)
  BY <1>1, <1>4 DEF AsksForNext
<1>5. ASSUME NEW d, NEW t, Carried(d, m, t), m.list[p].kind \in OwnKinds PROVE NoOwn(n)
  <2>1. \A j \in DOMAIN m.list : j # p => m.list[j].kind \notin OwnKinds
    BY <1>5 DEF Carried, Own
  <2>2. QED
    BY <1>1, <2>1 DEF NoOwn
<1>6. QED
  BY <1>2, <1>3, <1>4, <1>5 DEF n

(* The answer is read. *)
LEMMA AfterReading ==
  ASSUME NEW m \in Contexts, NEW a
  PROVE  LET n == Read(m, a)
         IN /\ n \in Contexts /\ n.list = m.list /\ n.answers \subseteq m.answers
            /\ Named(m) => Named(n)
            /\ NoOwn(m) => NoOwn(n)
            /\ \A d, t : Carried(d, m, t) => Carried(d, n, t)
            /\ \A d : AsksForNext(d, m) => AsksForNext(d, n)
<1> DEFINE n == Read(m, a)
<1>1. n = [list |-> m.list, idCnt |-> m.idCnt, answers |-> m.answers \ {a}]
  <2> DEFINE rest == m.answers \ {a}
  <2>1. n = [m EXCEPT !.answers = rest]
    BY DEF Read
  <2> HIDE DEF rest, n
  <2>2. n = [list |-> m.list, idCnt |-> m.idCnt, answers |-> rest]
    BY <2>1 DEF Contexts
  <2>3. QED
    BY <2>2 DEF rest
<1> HIDE DEF n
<1>2. n \in Contexts /\ n.list = m.list /\ n.idCnt = m.idCnt /\ n.answers = m.answers \ {a}
  BY <1>1, ContextFacts, MakeContext
<1>3. Named(m) => Named(n)
  BY <1>2 DEF Named
<1>4. /\ NoOwn(m) => NoOwn(n)
      /\ \A d, t : Carried(d, m, t) => Carried(d, n, t)
      /\ \A d : AsksForNext(d, m) => AsksForNext(d, n)
  BY <1>2 DEF NoOwn, Carried, AsksForNext, Own
<1>5. QED
  BY <1>2, <1>3, <1>4 DEF n

-----------------------------------------------------------------------------
(* The timers. *)
Timers == {"retry", "check"}

(* The lists in which no timer is linked twice are the five. *)
LEMMA FiveLists ==
  /\ \A t \in TimerLists : t \in Seq(Timers) /\ Len(t) \in 0 .. 2 /\ (Len(t) = 2 => t[1] # t[2])
  /\ \A t \in Seq(Timers) : Len(t) \in 0 .. 2 /\ (Len(t) = 2 => t[1] # t[2]) => t \in TimerLists
<1>1. ASSUME NEW t \in TimerLists
      PROVE  t \in Seq(Timers) /\ Len(t) \in 0 .. 2 /\ (Len(t) = 2 => t[1] # t[2])
  <2>1. CASE t = <<>>
    BY <2>1
  <2>2. CASE t = <<"retry">> \/ t = <<"check">>
    <3>1. PICK x \in Timers : t = <<x>>
      BY <2>2 DEF Timers
    <3>2. QED
      BY <3>1
  <2>3. CASE t = <<"retry", "check">> \/ t = <<"check", "retry">>
    <3>1. PICK x \in Timers, y \in Timers : x # y /\ t = <<x, y>>
      BY <2>3 DEF Timers
    <3>2. QED
      BY <3>1
  <2>4. QED
    BY <2>1, <2>2, <2>3 DEF TimerLists
<1>2. ASSUME NEW t \in Seq(Timers), Len(t) = 0 PROVE t \in TimerLists
  BY <1>2 DEF TimerLists
<1>3. ASSUME NEW t \in Seq(Timers), Len(t) = 1 PROVE t \in TimerLists
  <2>1. t[1] \in Timers /\ t = <<t[1]>>
    <3>1. t[1] \in Timers
      BY <1>3
    <3>2. <<t[1]>> \in Seq(Timers) /\ Len(<<t[1]>>) = 1 /\ <<t[1]>>[1] = t[1]
      BY <3>1
    <3>3. t = <<t[1]>>
      BY <1>3, <3>2, SeqEqual
    <3>4. QED
      BY <3>1, <3>3
  <2>2. QED
    BY <2>1 DEF TimerLists, Timers
<1>4. ASSUME NEW t \in Seq(Timers), Len(t) = 2, t[1] # t[2] PROVE t \in TimerLists
  <2>1. t[1] \in Timers /\ t[2] \in Timers /\ t = <<t[1], t[2]>>
    BY <1>4
  <2>2. QED
    BY <1>4, <2>1 DEF TimerLists, Timers
<1>5. QED
  BY <1>1, <1>2, <1>3, <1>4

LEMMA UnlinkedFacts ==
  ASSUME NEW t \in TimerLists, NEW x \in Timers
  PROVE  /\ Unlinked(x, t) \in Seq(Timers) /\ Len(Unlinked(x, t)) \in 0 .. 1
         /\ ~InList(x, Unlinked(x, t))
         /\ \A y \in Timers : y # x => (InList(y, Unlinked(x, t)) <=> InList(y, t))
<1>0. t \in Seq(Timers) /\ Len(t) \in 0 .. 2 /\ (Len(t) = 2 => t[1] # t[2])
      /\ DOMAIN t = 1 .. Len(t) /\ \A i \in DOMAIN t : t[i] \in Timers
  BY FiveLists
<1>1. CASE ~InList(x, t)
  <2>1. Unlinked(x, t) = t
    BY <1>1 DEF Unlinked
  <2>2. Len(t) # 2
    BY <1>0, <1>1 DEF InList, Timers
  <2>3. QED
    BY <1>0, <1>1, <2>1, <2>2
<1>2. CASE InList(x, t)
  <2> DEFINE p == PlaceIn(x, t)
             r == SubSeq(t, 1, p - 1) \o SubSeq(t, p + 1, Len(t))
  <2>1. p \in DOMAIN t /\ t[p] = x
    BY <1>2 DEF InList, PlaceIn
  <2>2. Unlinked(x, t) = r
    BY <1>2 DEF Unlinked
  <2> HIDE DEF p
  <2>3. /\ r \in Seq(Timers) /\ Len(r) = Len(t) - 1
        /\ \A k \in 1 .. Len(t) - 1 : r[k] = IF k < p THEN t[k] ELSE t[k + 1]
    BY <1>0, <2>1, CutFacts
  <2> HIDE DEF r
  <2>4. DOMAIN r = 1 .. Len(t) - 1
    BY <1>0, <2>3
  <2>5. CASE Len(t) = 1
    <3>1. p = 1 /\ DOMAIN r = {} /\ DOMAIN t = {1}
      BY <1>0, <2>1, <2>4, <2>5
    <3>2. QED
      BY <2>1, <2>2, <2>3, <2>5, <3>1 DEF InList
  <2>6. CASE Len(t) = 2
    <3>1. DOMAIN r = {1} /\ DOMAIN t = {1, 2} /\ r[1] = (IF 1 < p THEN t[1] ELSE t[2])
      BY <1>0, <2>1, <2>3, <2>4, <2>6
    <3>2. r[1] # x /\ \E i \in DOMAIN t : t[i] = r[1]
      BY <1>0, <2>1, <2>6, <3>1
    <3>3. r[1] \in Timers /\ \A i \in DOMAIN t : t[i] = x \/ t[i] = r[1]
      BY <1>0, <3>1, <3>2 DEF Timers
    <3>4. QED
      BY <2>2, <2>3, <2>6, <3>1, <3>2, <3>3 DEF InList
  <2>7. Len(t) # 0
    BY <1>0, <2>1
  <2>8. QED
    BY <1>0, <2>5, <2>6, <2>7
<1>3. QED
  BY <1>1, <1>2

LEMMA StartedFacts ==
  ASSUME NEW t \in TimerLists, NEW x \in Timers, NEW u \in Started(x, t)
  PROVE  /\ u \in TimerLists /\ InList(x, u)
         /\ \A y \in Timers : y # x => (InList(y, u) <=> InList(y, t))
<1> DEFINE s == Unlinked(x, t)
<1>1. /\ s \in Seq(Timers) /\ Len(s) \in 0 .. 1 /\ DOMAIN s = 1 .. Len(s)
      /\ ~InList(x, s)
      /\ \A y \in Timers : y # x => (InList(y, s) <=> InList(y, t))
  BY UnlinkedFacts
<1>2. PICK n \in 0 .. Len(s) : u = Put(s, x, n)
  BY DEF Started, Put
<1> HIDE DEF s
<1>3. /\ u \in Seq(Timers) /\ Len(u) = Len(s) + 1
      /\ \A k \in 1 .. Len(s) + 1 :
           u[k] = IF k <= n THEN s[k] ELSE IF k = n + 1 THEN x ELSE s[k - 1]
  <2>0. s \in Seq(Timers) /\ n \in 0 .. Len(s) /\ x \in Timers
    BY <1>1, <1>2
  <2>1. /\ Put(s, x, n) \in Seq(Timers) /\ Len(Put(s, x, n)) = Len(s) + 1
        /\ \A k \in 1 .. Len(s) + 1 :
             Put(s, x, n)[k] = IF k <= n THEN s[k] ELSE IF k = n + 1 THEN x ELSE s[k - 1]
    BY <2>0, PutFacts
  <2>2. QED
    BY <1>2, <2>1
<1>4. CASE Len(s) = 0
  <2>1. n = 0 /\ DOMAIN u = {1} /\ DOMAIN s = {} /\ u[1] = x /\ Len(u) = 1
    BY <1>1, <1>2, <1>3, <1>4
  <2>2. QED
    BY <1>1, <1>3, <2>1, FiveLists DEF InList
<1>5. CASE Len(s) = 1
  <2>1. /\ n \in {0, 1} /\ DOMAIN u = {1, 2} /\ DOMAIN s = {1} /\ Len(u) = 2
        /\ u[n + 1] = x /\ u[2 - n] = s[1]
    BY <1>1, <1>2, <1>3, <1>5
  <2>2. s[1] # x
    BY <1>1, <2>1 DEF InList
  <2>3. (u[1] = x /\ u[2] = s[1]) \/ (u[1] = s[1] /\ u[2] = x)
    BY <2>1
  <2>4. u \in TimerLists
    BY <1>3, <2>1, <2>2, <2>3, FiveLists
  <2>5. \A y : InList(y, u) <=> y = x \/ y = s[1]
    BY <2>1, <2>3 DEF InList
  <2>6. \A y : InList(y, s) <=> y = s[1]
    BY <2>1 DEF InList
  <2>7. QED
    BY <1>1, <2>4, <2>5, <2>6
<1>6. QED
  BY <1>1, <1>4, <1>5

(* What a timer is cleared from stays linked up to that timer. *)
LEMMA ClearedFacts ==
  ASSUME NEW t \in TimerLists, NEW x \in Timers
  PROVE  /\ Cleared(x, t) \in TimerLists
         /\ ~InList(x, t) => Cleared(x, t) = t
<1>0. t \in Seq(Timers) /\ Len(t) \in 0 .. 2 /\ (Len(t) = 2 => t[1] # t[2])
      /\ DOMAIN t = 1 .. Len(t)
  BY FiveLists
<1>1. CASE ~InList(x, t)
  BY <1>1 DEF Cleared
<1>2. CASE InList(x, t)
  <2> DEFINE p == PlaceIn(x, t)
             r == SubSeq(t, 1, p)
  <2>1. p \in DOMAIN t
    BY <1>2 DEF InList, PlaceIn
  <2>2. Cleared(x, t) = r
    BY <1>2 DEF Cleared
  <2> HIDE DEF p
  <2>3. p \in 1 .. Len(t)
    BY <1>0, <2>1
  <2>4. r \in Seq(Timers) /\ Len(r) = p /\ \A k \in 1 .. p : r[k] = t[k]
    BY <1>0, <2>3
  <2> HIDE DEF r
  <2>5. Len(r) \in 0 .. 2 /\ (Len(r) = 2 => r[1] # r[2])
    BY <1>0, <2>3, <2>4
  <2>6. QED
    BY <1>2, <2>2, <2>4, <2>5, FiveLists
<1>3. QED
  BY <1>1, <1>2

-----------------------------------------------------------------------------
(* file_download_yield: the types of what it leaves. *)

LEMMA SendingFacts ==
  ASSUME NEW m, NEW kind, NEW published \in Sending(m, kind)
  PROVE  published \in BOOLEAN
BY DEF Sending

(* The file, its size and what has been received stay as they are. *)
Same(e, d) == e.file = d.file /\ e.size = d.size /\ e.received = d.received

TypedAfter(d, t) ==
  /\ dl' \in Downloads /\ Same(dl', d) /\ matop' \in Contexts /\ timers' \in TimerLists
  /\ InList("check", t) => InList("check", timers')

LEMMA AsksTypes ==
  ASSUME NEW m \in Contexts, NEW kind \in Kinds, NEW d \in Downloads, Asks(m, kind, d, 0, 0)
  PROVE  matop' \in Contexts
<1>1. PICK published \in Sending(m, kind) : matop' = Request(m, kind, d.file, 0, 0, published)
  BY DEF Asks
<1>2. d.file \in Nat /\ 0 \in Nat /\ published \in BOOLEAN
  BY <1>1, SendingFacts DEF Downloads
<1>3. QED
  BY <1>1, <1>2, RequestFacts

LEMMA EndsTypes ==
  ASSUME NEW m \in Contexts, NEW d \in Downloads, NEW t \in TimerLists, Ends(d, m, t)
  PROVE  TypedAfter(d, t)
<1>1. dl' \in Downloads /\ Same(dl', d)
  BY DEF Ends, Downloads, Same
<1>2. matop' \in Contexts /\ timers' = t
  BY AsksTypes DEF Ends, Kinds
<1>3. QED
  BY <1>1, <1>2 DEF TypedAfter

LEMMA RetryTypes ==
  ASSUME NEW d \in Downloads, NEW t \in TimerLists, Retry(d, t), matop' \in Contexts
  PROVE  TypedAfter(d, t)
<1>1. dl' \in Downloads /\ Same(dl', d)
  BY DEF Retry, Downloads, Same
<1>2. timers' \in Started("retry", t)
  BY DEF Retry
<1>3. timers' \in TimerLists /\ (InList("check", t) => InList("check", timers'))
  BY <1>2, StartedFacts DEF Timers
<1>4. QED
  BY <1>1, <1>3 DEF TypedAfter

LEMMA NextLenFacts ==
  ASSUME NEW d \in Downloads, d.received < d.size
  PROVE  NextLen(d) \in Nat /\ d.received + NextLen(d) <= d.size
<1>1. d.received \in Nat /\ d.size \in Nat /\ RangeLength \in Nat
  BY DownloadAssumption DEF Downloads
<1>2. QED
  BY <1>1 DEF NextLen

LEMMA DataGetTypes ==
  ASSUME NEW m \in Contexts, NEW d \in Downloads, NEW t \in TimerLists, DataGet(d, m, t)
  PROVE  TypedAfter(d, t)
<1>1. CASE d.received < d.size
  <2>1. PICK published \in Sending(m, "range") :
          /\ matop' = Request(m, "range", d.file, d.received, NextLen(d), published)
          /\ IF published THEN dl' = d /\ timers' = t ELSE Retry(d, t)
    BY <1>1 DEF DataGet
  <2>2. matop' \in Contexts
    <3>1. d.file \in Nat /\ d.received \in Nat /\ NextLen(d) \in Nat /\ "range" \in Kinds
          /\ published \in BOOLEAN
      BY <1>1, <2>1, NextLenFacts, SendingFacts DEF Downloads, Kinds, OwnKinds
    <3>2. QED
      BY <2>1, <3>1, RequestFacts
  <2>3. CASE published
    BY <2>1, <2>2, <2>3 DEF TypedAfter, Same
  <2>4. CASE ~published
    BY <2>1, <2>2, <2>4, RetryTypes
  <2>5. QED
    BY <2>3, <2>4
<1>2. CASE ~(d.received < d.size)
  <2> DEFINE e == [d EXCEPT !.state = "complete"]
  <2>1. Ends(e, m, t)
    BY <1>2 DEF DataGet
  <2>2. e \in Downloads /\ Same(e, d)
    BY DEF Downloads, States, Same
  <2> HIDE DEF e
  <2>3. TypedAfter(e, t)
    BY <2>1, <2>2, EndsTypes
  <2>4. QED
    BY <2>2, <2>3 DEF TypedAfter, Same
<1>3. QED
  BY <1>1, <1>2

LEMMA FilesizeGetTypes ==
  ASSUME NEW m \in Contexts, NEW d \in Downloads, NEW t \in TimerLists, FilesizeGet(d, m, t)
  PROVE  TypedAfter(d, t)
<1>1. CASE d.size = 0
  <2>1. Asks(m, "size", d, 0, 0) /\ dl' = d /\ timers' = t
    BY <1>1 DEF FilesizeGet
  <2>2. matop' \in Contexts
    BY <2>1, AsksTypes DEF Kinds, OwnKinds
  <2>3. QED
    BY <2>1, <2>2 DEF TypedAfter, Same
<1>2. CASE d.size # 0
  <2> DEFINE e == [d EXCEPT !.state = "data_get", !.retry = 0]
  <2>1. DataGet(e, m, t)
    BY <1>2 DEF FilesizeGet
  <2>2. e \in Downloads /\ Same(e, d)
    BY DEF Downloads, States, Same
  <2> HIDE DEF e
  <2>3. TypedAfter(e, t)
    BY <2>1, <2>2, DataGetTypes
  <2>4. QED
    BY <2>2, <2>3 DEF TypedAfter, Same
<1>3. QED
  BY <1>1, <1>2

LEMMA YieldTypes ==
  ASSUME NEW m \in Contexts, NEW d \in Downloads, NEW t \in TimerLists, Yield(d, m, t)
  PROVE  TypedAfter(d, t)
<1>1. CASE d.state = "idle"
  <2>1. dl' = d /\ matop' = m /\ timers' = t
    BY <1>1 DEF Yield
  <2>2. QED
    BY <2>1 DEF TypedAfter, Same
<1>2. CASE d.state = "start"
  <2> DEFINE e == [d EXCEPT !.state = "filesize_get"]
  <2>1. StartState(d, m, t)
    BY <1>2 DEF Yield
  <2>2. PICK published \in Sending(m, "report") :
          FilesizeGet(e, Request(m, "report", d.file, 0, 0, published), t)
    BY <2>1 DEF StartState
  <2>3. e \in Downloads /\ Same(e, d)
    BY DEF Downloads, States, Same
  <2> HIDE DEF e
  <2> DEFINE n == Request(m, "report", d.file, 0, 0, published)
  <2>4. n \in Contexts
    <3>1. d.file \in Nat /\ 0 \in Nat /\ "report" \in Kinds /\ published \in BOOLEAN
      BY <2>2, SendingFacts DEF Downloads, Kinds
    <3>2. QED
      BY <3>1, RequestFacts
  <2>5. FilesizeGet(e, n, t)
    BY <2>2
  <2> HIDE DEF n
  <2>6. TypedAfter(e, t)
    BY <2>3, <2>4, <2>5, FilesizeGetTypes
  <2>7. QED
    BY <2>3, <2>6 DEF TypedAfter, Same
<1>3. CASE d.state = "filesize_get"
  BY <1>3, FilesizeGetTypes DEF Yield
<1>4. CASE d.state = "data_get"
  BY <1>4, DataGetTypes DEF Yield
<1>5. CASE d.state \in {"complete", "fault"}
  BY <1>5, EndsTypes DEF Yield
<1>6. QED
  BY <1>1, <1>2, <1>3, <1>4, <1>5 DEF Yield

-----------------------------------------------------------------------------
(* file_download_yield, called when nothing else carries the download.      *)

Free(d, m, t) ==
  /\ Named(m) /\ NoOwn(m) /\ ~InList("retry", t)
  /\ d.ended = 0
  /\ d.state # "complete" /\ d.nextstate \notin {"complete", "fault"}

StraightAfter ==
  /\ Named(matop') /\ Carried(dl', matop', timers')
  /\ AsksForNext(dl', matop') /\ EndsOnce(dl')

LEMMA EndsStraight ==
  ASSUME NEW m \in Contexts, NEW d \in Downloads, NEW t \in TimerLists, Ends(d, m, t),
         Named(m), NoOwn(m), ~InList("retry", t), d.ended = 0,
         d.state = "complete" => d.received >= d.size
  PROVE  StraightAfter
<1>1. /\ dl' = [d EXCEPT !.ended = 1] /\ timers' = t
      /\ \E published \in Sending(m, "report") : matop' = Request(m, "report", d.file, 0, 0, published)
  BY DEF Ends, Asks
<1>2. PICK published \in BOOLEAN : matop' = Request(m, "report", d.file, 0, 0, published)
  BY <1>1, SendingFacts
<1>3. d.file \in Nat /\ 0 \in Nat /\ "report" \in Kinds \ OwnKinds /\ "report" \in Kinds
  BY DEF Downloads, Kinds, OwnKinds
<1>4. Named(matop')
  BY <1>2, <1>3, NamedAfterRequest
<1>5. NoOwn(matop')
  BY <1>2, <1>3, OtherAsked
<1>6. Carried(dl', matop', timers') /\ AsksForNext(dl', matop')
  BY <1>1, <1>5, NotCarried
<1>7. EndsOnce(dl')
  BY <1>1 DEF EndsOnce, Downloads
<1>8. QED
  BY <1>4, <1>6, <1>7 DEF StraightAfter

LEMMA DataGetStraight ==
  ASSUME NEW m \in Contexts, NEW d \in Downloads, NEW t \in TimerLists, DataGet(d, m, t),
         Free(d, m, t), d.state # "fault"
  PROVE  StraightAfter
<1>1. CASE d.received < d.size
  <2>1. PICK published \in Sending(m, "range") :
          /\ matop' = Request(m, "range", d.file, d.received, NextLen(d), published)
          /\ IF published THEN dl' = d /\ timers' = t ELSE Retry(d, t)
    BY <1>1 DEF DataGet
  <2>2. /\ d.file \in Nat /\ d.received \in Nat /\ NextLen(d) \in Nat
        /\ d.received + NextLen(d) <= d.size
        /\ "range" \in Kinds /\ "range" \in OwnKinds /\ published \in BOOLEAN
    BY <1>1, <2>1, NextLenFacts, SendingFacts DEF Downloads, Kinds, OwnKinds
  <2> DEFINE len == NextLen(d)
  <2> HIDE DEF len
  <2>3. Named(m) /\ NoOwn(m) /\ ~InList("retry", t) /\ d.ended = 0
    BY DEF Free
  <2>4. Named(matop')
    BY <2>1, <2>2, <2>3, NamedAfterRequest
  <2>5. CASE published
    <3>1. matop' = Request(m, "range", d.file, d.received, NextLen(d), TRUE)
      BY <2>1, <2>2, <2>5
    <3>2. Carried(d, matop', t) /\ AsksForNext(d, matop')
      BY <2>2, <2>3, <3>1, OwnAsked
    <3>3. EndsOnce(d)
      BY DEF Free, EndsOnce
    <3>4. QED
      BY <2>1, <2>4, <2>5, <3>2, <3>3 DEF StraightAfter
  <2>6. CASE ~published
    <3>1. matop' = Request(m, "range", d.file, d.received, NextLen(d), FALSE)
      BY <2>1, <2>2, <2>6
    <3>2. NoOwn(matop')
      BY <2>2, <2>3, <3>1, NotPublished
    <3>3. /\ dl'.ended = 0 /\ dl'.received = d.received /\ dl'.size = d.size
          /\ dl'.state = d.state /\ dl'.nextstate = d.nextstate
      BY <2>1, <2>3, <2>6 DEF Retry, Downloads
    <3>4. Carried(dl', matop', timers') /\ AsksForNext(dl', matop')
      BY <3>2, <3>3, NotCarried
    <3>5. EndsOnce(dl')
      BY <3>3 DEF Free, EndsOnce
    <3>6. QED
      BY <2>4, <3>4, <3>5 DEF StraightAfter
  <2>7. QED
    BY <2>5, <2>6
<1>2. CASE ~(d.received < d.size)
  <2> DEFINE e == [d EXCEPT !.state = "complete"]
  <2>1. Ends(e, m, t)
    BY <1>2 DEF DataGet
  <2>2. e \in Downloads /\ e.received = d.received /\ e.size = d.size /\ e.ended = d.ended
    BY DEF Downloads, States
  <2> HIDE DEF e
  <2>3. e.received >= e.size
    BY <1>2, <2>2 DEF Downloads
  <2>4. QED
    BY <2>1, <2>2, <2>3, EndsStraight DEF Free, Downloads
<1>3. QED
  BY <1>1, <1>2

LEMMA FilesizeGetStraight ==
  ASSUME NEW m \in Contexts, NEW d \in Downloads, NEW t \in TimerLists, FilesizeGet(d, m, t),
         Free(d, m, t), d.state # "fault"
  PROVE  StraightAfter
<1>1. CASE d.size = 0
  <2>1. PICK published \in BOOLEAN : matop' = Request(m, "size", d.file, 0, 0, published)
    BY <1>1, SendingFacts DEF FilesizeGet, Asks
  <2>2. dl' = d /\ timers' = t
    BY <1>1 DEF FilesizeGet
  <2>3. d.file \in Nat /\ 0 \in Nat /\ "size" \in OwnKinds /\ "size" \in Kinds /\ "size" # "range"
    BY DEF Downloads, Kinds, OwnKinds
  <2>4. Named(m) /\ NoOwn(m) /\ ~InList("retry", t) /\ d.ended = 0
    BY DEF Free
  <2>5. Named(matop')
    BY <2>1, <2>3, <2>4, NamedAfterRequest
  <2>6. Carried(d, matop', t) /\ AsksForNext(d, matop')
    <3>1. CASE published
      <4>1. matop' = Request(m, "size", d.file, 0, 0, TRUE)
        BY <2>1, <3>1
      <4>2. QED
        BY <2>3, <2>4, <4>1, OwnAsked
    <3>2. CASE ~published
      <4>1. matop' = Request(m, "size", d.file, 0, 0, FALSE)
        BY <2>1, <3>2
      <4>2. NoOwn(matop')
        BY <2>3, <2>4, <4>1, NotPublished
      <4>3. QED
        BY <2>4, <4>2, NotCarried
    <3>3. QED
      BY <3>1, <3>2
  <2>7. EndsOnce(d)
    BY DEF Free, EndsOnce
  <2>8. QED
    BY <2>2, <2>5, <2>6, <2>7 DEF StraightAfter
<1>2. CASE d.size # 0
  <2> DEFINE e == [d EXCEPT !.state = "data_get", !.retry = 0]
  <2>1. DataGet(e, m, t)
    BY <1>2 DEF FilesizeGet
  <2>2. e \in Downloads /\ e.state = "data_get"
    BY DEF Downloads, States
  <2>3. Free(e, m, t)
    BY DEF Free, Downloads
  <2> HIDE DEF e
  <2>4. QED
    BY <2>1, <2>2, <2>3, DataGetStraight
<1>3. QED
  BY <1>1, <1>2

LEMMA YieldStraight ==
  ASSUME NEW m \in Contexts, NEW d \in Downloads, NEW t \in TimerLists, Yield(d, m, t),
         Free(d, m, t)
  PROVE  StraightAfter
<1>0. Named(m) /\ NoOwn(m) /\ ~InList("retry", t) /\ d.ended = 0
  BY DEF Free
<1>1. CASE d.state = "idle"
  <2>1. dl' = d /\ matop' = m /\ timers' = t
    BY <1>1 DEF Yield
  <2>2. Carried(d, m, t) /\ AsksForNext(d, m)
    BY <1>0, NotCarried
  <2>3. EndsOnce(d)
    BY <1>1 DEF Free, EndsOnce
  <2>4. QED
    BY <1>0, <2>1, <2>2, <2>3 DEF StraightAfter
<1>2. CASE d.state = "start"
  <2> DEFINE e == [d EXCEPT !.state = "filesize_get"]
  <2>1. StartState(d, m, t)
    BY <1>2 DEF Yield
  <2>2. PICK published \in Sending(m, "report") :
          FilesizeGet(e, Request(m, "report", d.file, 0, 0, published), t)
    BY <2>1 DEF StartState
  <2>3. /\ e \in Downloads /\ e.state = "filesize_get" /\ e.nextstate = d.nextstate
        /\ e.received = d.received /\ e.size = d.size /\ e.ended = d.ended
    BY DEF Downloads, States
  <2> HIDE DEF e
  <2> DEFINE n == Request(m, "report", d.file, 0, 0, published)
  <2>4. d.file \in Nat /\ 0 \in Nat /\ "report" \in Kinds \ OwnKinds /\ "report" \in Kinds
        /\ published \in BOOLEAN
    BY <2>2, SendingFacts DEF Downloads, Kinds, OwnKinds
  <2>5. n \in Contexts
    BY <2>4, RequestFacts
  <2>6. Named(n) /\ NoOwn(n)
    BY <1>0, <2>4, NamedAfterRequest, OtherAsked
  <2>7. FilesizeGet(e, n, t)
    BY <2>2
  <2> HIDE DEF n
  <2>8. Free(e, n, t)
    BY <2>3, <2>6 DEF Free
  <2>9. QED
    BY <2>3, <2>5, <2>7, <2>8, FilesizeGetStraight
<1>3. CASE d.state = "filesize_get"
  BY <1>3, FilesizeGetStraight DEF Yield
<1>4. CASE d.state = "data_get"
  BY <1>4, DataGetStraight DEF Yield
<1>5. CASE d.state \in {"complete", "fault"}
  BY <1>0, <1>5, EndsStraight DEF Yield, Free
<1>6. QED
  BY <1>1, <1>2, <1>3, <1>4, <1>5 DEF Yield

-----------------------------------------------------------------------------
(* The callbacks, called with the context m that an entry of the given kind *)
(* has been removed from.                                                   *)

Removed(m, kind) ==
  /\ m \in Contexts
  /\ Named(matop) => Named(m)
  /\ NoOwn(matop) => NoOwn(m)
  /\ Carried(dl, matop, timers) => Carried(dl, m, timers)
  /\ Carried(dl, matop, timers) /\ kind \in OwnKinds =>
       NoOwn(m) /\ ~InList("retry", timers) /\ dl.ended = 0
  /\ AsksForNext(dl, matop) => AsksForNext(dl, m)

LEMMA EntryRemoved ==
  ASSUME Typed, NEW i \in DOMAIN matop.list, NEW a
  PROVE  /\ Removed(RemovedAt(matop, i), matop.list[i].kind)
         /\ Removed(Read(RemovedAt(matop, i), a), matop.list[i].kind)
         /\ Removed(RemovedAt(Read(matop, a), i), matop.list[i].kind)
<1> DEFINE kind == matop.list[i].kind
           m == RemovedAt(matop, i)
<1>0. matop \in Contexts
  BY DEF Typed
<1>1. Carried(dl, matop, timers) /\ kind \in OwnKinds => ~InList("retry", timers) /\ dl.ended = 0
  BY DEF Carried, Own
<1>2. /\ m \in Contexts
      /\ Named(matop) => Named(m)
      /\ Carried(dl, matop, timers) => Carried(dl, m, timers)
      /\ AsksForNext(dl, matop) => AsksForNext(dl, m)
      /\ Carried(dl, matop, timers) /\ kind \in OwnKinds => NoOwn(m)
  BY <1>0, RemovedFacts, AfterRemoval
<1>3. NoOwn(matop) => NoOwn(m)
  <2>1. \A k \in DOMAIN m.list : \E j \in DOMAIN matop.list : m.list[k] = matop.list[j]
    BY <1>0, RemovedFacts
  <2> HIDE DEF m
  <2>2. QED
    BY <2>1 DEF NoOwn
<1> HIDE DEF m
<1>4. Removed(m, kind)
  BY <1>1, <1>2, <1>3 DEF Removed
<1>5. Removed(Read(m, a), kind)
  <2> DEFINE n == Read(m, a)
  <2>1. /\ n \in Contexts
        /\ Named(m) => Named(n)
        /\ NoOwn(m) => NoOwn(n)
        /\ \A d, t : Carried(d, m, t) => Carried(d, n, t)
        /\ \A d : AsksForNext(d, m) => AsksForNext(d, n)
    BY <1>2, AfterReading
  <2> HIDE DEF n
  <2>2. Removed(n, kind)
    BY <1>1, <1>2, <1>3, <2>1 DEF Removed
  <2>3. QED
    BY <2>2 DEF n
<1>6. RemovedAt(Read(matop, a), i) = Read(m, a)
  <2> DEFINE l == SubSeq(matop.list, 1, i - 1) \o SubSeq(matop.list, i + 1, Len(matop.list))
             r == matop.answers \ {a}
  <2>1. /\ m = [matop EXCEPT !.list = l] /\ Read(matop, a) = [matop EXCEPT !.answers = r]
        /\ Read(matop, a).list = matop.list /\ m.answers = matop.answers
    BY <1>0, <1>2, AfterReading, RemovedFacts DEF m, RemovedAt, Read
  <2>2. /\ RemovedAt(Read(matop, a), i) = [Read(matop, a) EXCEPT !.list = l]
        /\ Read(m, a) = [m EXCEPT !.answers = r]
    BY <2>1 DEF RemovedAt, Read
  <2> HIDE DEF l, r
  <2>3. QED
    BY <1>0, <2>1, <2>2 DEF Contexts
<1>7. QED
  BY <1>4, <1>5, <1>6 DEF m

LEMMA FreeOnceRemoved ==
  ASSUME Typed, Straight, NEW m, NEW kind \in OwnKinds, Removed(m, kind)
  PROVE  Free(dl, m, timers)
<1>1. Named(m) /\ NoOwn(m) /\ ~InList("retry", timers) /\ dl.ended = 0
  BY DEF Removed, Straight
<1>2. dl.state # "complete" /\ dl.nextstate \notin {"complete", "fault"}
  <2>1. EndsOnce(dl) /\ dl.ended # 1
    BY <1>1 DEF Straight
  <2>2. QED
    BY <2>1 DEF EndsOnce
<1>3. QED
  BY <1>1, <1>2 DEF Free

(* What is left to show when file_download_yield has been called. *)
LEMMA AfterYield ==
  ASSUME IInv, NEW d \in Downloads, TypedAfter(d, timers), UNCHANGED <<truncated, dropped>>,
         crossed' \in BOOLEAN, oversized' \in BOOLEAN, intact' \in BOOLEAN,
         ~crossed' => StraightAfter /\ intact' /\ (~oversized' => d.received <= d.size)
  PROVE  IInv'
<1>1. Typed'
  BY DEF IInv, Typed, TypedAfter
<1>2. CheckGoesOn'
  BY DEF IInv, CheckGoesOn, TypedAfter
<1>3. ~crossed' => Straight'
  BY DEF Straight, StraightAfter, Within, TypedAfter, Same
<1>4. QED
  BY <1>1, <1>2, <1>3 DEF IInv

LEMMA AfterYieldSame ==
  ASSUME IInv, NEW d \in Downloads, Same(d, dl), TypedAfter(d, timers), UNCHANGED history,
         ~crossed => StraightAfter
  PROVE  IInv'
<1>1. /\ crossed \in BOOLEAN /\ oversized \in BOOLEAN /\ intact \in BOOLEAN
      /\ ~crossed => intact /\ (~oversized => d.received <= d.size)
  BY DEF IInv, Typed, Straight, Within, Same
<1>2. /\ crossed' = crossed /\ oversized' = oversized /\ intact' = intact
      /\ UNCHANGED <<truncated, dropped>>
  BY DEF history
<1>3. QED
  BY <1>1, <1>2, AfterYield

LEMMA AfterOther ==
  ASSUME IInv, UNCHANGED <<dl, timers, history>>, matop' \in Contexts,
         Straight => Named(matop') /\ Carried(dl, matop', timers) /\ AsksForNext(dl, matop')
  PROVE  IInv'
<1>1. Typed'
  BY DEF IInv, Typed, history
<1>2. CheckGoesOn'
  BY DEF IInv, CheckGoesOn, history
<1>3. ~crossed' => Straight'
  BY DEF IInv, Straight, Within, history
<1>4. QED
  BY <1>1, <1>2, <1>3 DEF IInv

LEMMA AfterAsking ==
  ASSUME IInv, UNCHANGED <<dl, timers, history>>, NEW m \in Contexts, NEW kind \in Kinds \ OwnKinds,
         Asks(m, kind, dl, 0, 0),
         Straight => Named(m) /\ Carried(dl, m, timers) /\ AsksForNext(dl, m)
  PROVE  IInv'
<1>1. PICK published \in BOOLEAN : matop' = Request(m, kind, dl.file, 0, 0, published)
  BY SendingFacts DEF Asks
<1>2. dl.file \in Nat /\ 0 \in Nat /\ kind \in Kinds
  BY DEF IInv, Typed, Downloads
<1>3. matop' \in Contexts
  BY <1>1, <1>2, RequestFacts
<1>4. Straight => Named(matop')
  BY <1>1, <1>2, NamedAfterRequest
<1>5. Straight => Carried(dl, matop', timers) /\ AsksForNext(dl, matop')
  BY <1>1, <1>2, OtherAsked
<1>6. QED
  BY <1>3, <1>4, <1>5, AfterOther

(* A request failed or was not answered in time. *)
LEMMA FailedStep ==
  ASSUME IInv, NEW kind \in Kinds, NEW m, Removed(m, kind), Failed(kind, m)
  PROVE  IInv'
<1>0. /\ Typed /\ dl \in Downloads /\ timers \in TimerLists /\ m \in Contexts
      /\ crossed \in BOOLEAN /\ intact \in BOOLEAN
  BY DEF IInv, Typed, Removed
<1>1. CASE kind = "range" /\ Retry(dl, timers) /\ matop' = m /\ UNCHANGED history
  <2>1. TypedAfter(dl, timers)
    BY <1>0, <1>1, RetryTypes
  <2>2. ASSUME ~crossed PROVE StraightAfter
    <3>1. Free(dl, m, timers) /\ EndsOnce(dl)
      BY <1>0, <1>1, <2>2, FreeOnceRemoved DEF IInv, OwnKinds, Straight
    <3>2. /\ dl'.ended = 0 /\ dl'.received = dl.received /\ dl'.size = dl.size
          /\ dl'.state = dl.state /\ dl'.nextstate = dl.nextstate
      BY <1>0, <1>1, <3>1 DEF Retry, Downloads, Free
    <3>3. Named(matop') /\ Carried(dl', matop', timers') /\ AsksForNext(dl', matop')
      BY <1>1, <3>1, <3>2, NotCarried DEF Free
    <3>4. EndsOnce(dl')
      BY <3>1, <3>2 DEF EndsOnce, Free
    <3>5. QED
      BY <3>3, <3>4 DEF StraightAfter
  <2>3. QED
    BY <1>0, <1>1, <2>1, <2>2, AfterYieldSame DEF Same, history
<1>2. CASE kind = "size" /\ Yield(dl, m, timers) /\ UNCHANGED history
  <2>1. TypedAfter(dl, timers)
    BY <1>0, <1>2, YieldTypes
  <2>2. ASSUME ~crossed PROVE StraightAfter
    <3>1. Free(dl, m, timers)
      BY <1>0, <1>2, <2>2, FreeOnceRemoved DEF IInv, OwnKinds
    <3>2. QED
      BY <1>0, <1>2, <3>1, YieldStraight
  <2>3. QED
    BY <1>0, <1>2, <2>1, <2>2, AfterYieldSame DEF Same, history
<1>3. CASE Asks(m, "report", dl, 0, 0) /\ UNCHANGED <<dl, timers, history>>
  <2>1. "report" \in Kinds \ OwnKinds
    BY DEF Kinds, OwnKinds
  <2>2. QED
    BY <1>0, <1>3, <2>1, AfterAsking DEF Removed, Straight
<1>4. CASE matop' = m /\ UNCHANGED <<dl, timers, history>>
  BY <1>0, <1>4, AfterOther DEF Removed, Straight
<1>5. QED
  BY <1>1, <1>2, <1>3, <1>4 DEF Failed

(* An answer reached the callback of the download. *)
LEMMA DataOnStep ==
  ASSUME IInv, NEW a, NEW n \in Nat, NEW m, Removed(m, "range"), DataOn(a, n, m),
         a.len \in Nat,
         ~crossed => /\ n <= a.len => dl.received + n <= dl.size \/ oversized
                     /\ n = 0 \/ (a.file = dl.file /\ a.from = dl.received)
  PROVE  IInv'
<1>0. /\ Typed /\ dl \in Downloads /\ timers \in TimerLists /\ m \in Contexts
      /\ crossed \in BOOLEAN /\ intact \in BOOLEAN
  BY DEF IInv, Typed, Removed
<1>1. CASE Restarts(m)
  <2> DEFINE c == Initialised(m)
  <2>3. c \in Contexts /\ c.list = <<>> /\ c.answers = m.answers
    BY <1>0, InitialisedFacts
  <2> HIDE DEF c
  <2>4. /\ matop' = c /\ timers' = <<"check">> /\ dl' = [Zero EXCEPT !.file = dl.file]
        /\ crossed' = (m.answers # {}) /\ dropped' = FALSE /\ truncated' = FALSE /\ oversized' = FALSE /\ intact' = TRUE
    BY <1>1 DEF Restarts, c
  <2>5. dl' \in Downloads /\ dl'.received = 0 /\ dl'.size = 0 /\ dl'.ended = 0
        /\ dl'.state = "idle" /\ dl'.nextstate = "idle"
    BY <1>0, <2>4 DEF Zero, Downloads, States
  <2>6. Typed'
    BY <2>3, <2>4, <2>5 DEF Typed, TimerLists
  <2>7. InList("check", timers') /\ ~InList("retry", timers')
    BY <2>4 DEF InList
  <2>8. ASSUME ~crossed' PROVE Straight'
    <3>1. c.answers = {} /\ DOMAIN c.list = {}
      <4>1. m.answers = {}
        BY <2>4, <2>8
      <4>2. QED
        BY <2>3, <4>1
    <3>2. Named(c) /\ NoOwn(c)
      BY <3>1 DEF Named, NoOwn
    <3>3. Carried(dl', c, timers') /\ AsksForNext(dl', c)
      BY <2>7, <3>2, NotCarried
    <3>4. EndsOnce(dl')
      BY <2>5 DEF EndsOnce
    <3>5. QED
      BY <2>4, <2>5, <3>2, <3>3, <3>4 DEF Straight, Within
  <2>9. QED
    BY <2>6, <2>7, <2>8 DEF IInv, CheckGoesOn
<1>2. CASE /\ Yield([dl EXCEPT !.received = @ + n, !.retry = 0], m, timers)
           /\ intact' = (intact /\ (n = 0 \/ (a.file = dl.file /\ a.from = dl.received)))
           /\ oversized' = (oversized \/ n > a.len)
           /\ UNCHANGED <<crossed, dropped, truncated>>
  <2> DEFINE d == [dl EXCEPT !.received = @ + n, !.retry = 0]
  <2>1. /\ d \in Downloads /\ d.received = dl.received + n /\ d.size = dl.size
        /\ d.ended = dl.ended /\ d.state = dl.state /\ d.nextstate = dl.nextstate
    <3>1. dl.received + n \in Nat
      BY <1>0 DEF Downloads
    <3> DEFINE sum == dl.received + n
    <3>2. d = [dl EXCEPT !.received = sum, !.retry = 0]
      BY <1>0 DEF Downloads
    <3> HIDE DEF sum, d
    <3>3. /\ d \in Downloads /\ d.received = sum /\ d.size = dl.size
          /\ d.ended = dl.ended /\ d.state = dl.state /\ d.nextstate = dl.nextstate
      <4>1. sum \in Nat
        BY <3>1 DEF sum
      <4>2. QED
        BY <1>0, <3>2, <4>1 DEF Downloads
    <3>4. QED
      BY <3>3 DEF sum
  <2>2. Yield(d, m, timers)
    BY <1>2
  <2> HIDE DEF d
  <2>3. TypedAfter(d, timers)
    BY <1>0, <2>1, <2>2, YieldTypes
  <2>4. ASSUME ~crossed PROVE StraightAfter /\ intact'
    <3>1. Straight /\ Free(dl, m, timers)
      BY <1>0, <2>4, FreeOnceRemoved DEF IInv, OwnKinds
    <3>2. Free(d, m, timers)
      BY <2>1, <2>4, <3>1 DEF Free
    <3>3. StraightAfter
      BY <1>0, <2>1, <2>2, <3>2, YieldStraight
    <3>4. intact'
      BY <1>2, <2>4, <3>1 DEF Straight
    <3>5. QED
      BY <3>3, <3>4
  <2>5. intact' \in BOOLEAN /\ oversized' \in BOOLEAN
    BY <1>2 DEF IInv, Typed
  <2>6. ASSUME ~crossed, ~oversized' PROVE d.received <= d.size
    <3>1. ~oversized /\ ~(n > a.len)
      BY <1>2, <2>6
    <3>2. dl.received + n <= dl.size
      BY <2>6, <3>1
    <3>3. QED
      BY <2>1, <3>2
  <2>7. QED
    BY <1>0, <1>2, <2>1, <2>3, <2>4, <2>5, <2>6, AfterYield
<1>3. QED
  BY <1>1, <1>2 DEF DataOn

(* The application begins an upgrade. *)
LEMMA BeginStep ==
  ASSUME IInv, NEW kind \in Kinds, NEW m, Removed(m, kind), Begin(m)
  PROVE  IInv'
<1>0. /\ Typed /\ dl \in Downloads /\ dl.file \in Nat /\ timers \in TimerLists /\ m \in Contexts
      /\ crossed \in BOOLEAN /\ truncated \in BOOLEAN
  BY DEF IInv, Typed, Removed, Downloads
<1>1. PICK size \in Sizes :
        Yield([state |-> "start", nextstate |-> "start", size |-> size, received |-> 0,
               retry |-> 0, file |-> dl.file + 1, ended |-> 0],
              m, Cleared("retry", timers))
  BY DEF Begin
<1> DEFINE d == [state |-> "start", nextstate |-> "start", size |-> size, received |-> 0,
                 retry |-> 0, file |-> dl.file + 1, ended |-> 0]
           t == Cleared("retry", timers)
<1>2. /\ d \in Downloads /\ d.state = "start" /\ d.nextstate = "start"
      /\ d.received = 0 /\ d.size \in Nat /\ d.ended = 0
  BY <1>0, DownloadAssumption DEF Downloads, States
<1>3. t \in TimerLists
  BY <1>0, ClearedFacts DEF Timers
<1>4. Yield(d, m, t)
  BY <1>1
<1>5. ~InList("retry", timers) => t = timers
  BY <1>0, ClearedFacts DEF Timers
<1>7. /\ crossed' = (crossed \/ Crossing) /\ truncated' = (truncated \/ t # timers)
      /\ dropped' = FALSE /\ oversized' = FALSE /\ intact' = TRUE
  BY DEF Begin
<1> HIDE DEF d, t
<1>6. TypedAfter(d, t)
  BY <1>0, <1>2, <1>3, <1>4, YieldTypes
<1>8. Typed'
  <2>1. crossed' \in BOOLEAN /\ truncated' \in BOOLEAN
    BY <1>7
  <2>2. dl' \in Downloads /\ matop' \in Contexts /\ timers' \in TimerLists
    BY <1>6 DEF TypedAfter
  <2>3. QED
    BY <1>7, <2>1, <2>2 DEF Typed
<1>9. CheckGoesOn'
  BY <1>6, <1>7 DEF CheckGoesOn, IInv, TypedAfter
<1>10. ASSUME ~crossed' PROVE Straight'
  <2>1. ~crossed /\ ~InList("retry", timers) /\ NoOwn(matop)
    BY <1>7, <1>10 DEF Crossing, Pending, NoOwn
  <2>2. Named(m) /\ NoOwn(m)
    BY <2>1 DEF IInv, Straight, Removed
  <2>3. Free(d, m, t)
    BY <1>2, <1>5, <2>1, <2>2 DEF Free
  <2>4. StraightAfter
    BY <1>0, <1>2, <1>3, <1>4, <2>3, YieldStraight
  <2>5. QED
    BY <1>2, <1>6, <1>7, <2>4 DEF Straight, StraightAfter, Within, TypedAfter, Same
<1>11. QED
  BY <1>8, <1>9, <1>10 DEF IInv

(* An answer reached the callback of an entry; in one connection, its own. *)
LEMMA SucceededStep ==
  ASSUME IInv, NEW kind \in Kinds, NEW a \in Req, NEW m, Removed(m, kind), Succeeded(kind, a, m),
         ~crossed => /\ a.kind = kind
                     /\ kind = "range" => /\ a.file = dl.file /\ a.from = dl.received
                                          /\ dl.received + a.len <= dl.size
  PROVE  IInv'
<1>0. /\ Typed /\ dl \in Downloads /\ timers \in TimerLists /\ m \in Contexts
      /\ crossed \in BOOLEAN /\ intact \in BOOLEAN /\ a.len \in Nat
      /\ dl.received \in Nat /\ dl.size \in Nat
  BY DEF IInv, Typed, Removed, Req, Downloads
<1>1. CASE kind = "range" /\ \E n \in Held(a) : DataOn(a, n, m)
  <2>1. PICK n \in Held(a) : DataOn(a, n, m)
    BY <1>1
  <2>2. n \in Nat
    BY <1>0, <2>1, DownloadAssumption DEF Held
  <2>3. ~crossed => /\ n <= a.len => dl.received + n <= dl.size \/ oversized
                    /\ a.file = dl.file /\ a.from = dl.received
    BY <1>0, <1>1, <2>2
  <2>4. QED
    BY <1>0, <1>1, <2>1, <2>2, <2>3, DataOnStep
<1>2. CASE kind = "size" /\ Yield(dl, m, timers) /\ UNCHANGED history
  <2>1. TypedAfter(dl, timers)
    BY <1>0, <1>2, YieldTypes
  <2>2. ASSUME ~crossed PROVE StraightAfter
    <3>1. Free(dl, m, timers)
      BY <1>0, <1>2, <2>2, FreeOnceRemoved DEF IInv, OwnKinds
    <3>2. QED
      BY <1>0, <1>2, <3>1, YieldStraight
  <2>3. QED
    BY <1>0, <1>2, <2>1, <2>2, AfterYieldSame DEF Same, history
<1>3. CASE Begin(m)
  BY <1>3, BeginStep
<1>4. CASE matop' = m /\ UNCHANGED <<dl, timers, history>>
  BY <1>0, <1>4, AfterOther DEF Removed, Straight
<1>5. QED
  BY <1>1, <1>2, <1>3, <1>4 DEF Succeeded

-----------------------------------------------------------------------------
(* The steps. *)

LEMMA InitEstablishes == Init => IInv
<1> SUFFICES ASSUME Init PROVE IInv
  OBVIOUS
<1>1. /\ dl = Zero /\ matop = EmptyMatop /\ timers = <<"check">>
      /\ crossed = FALSE /\ dropped = FALSE /\ truncated = FALSE /\ oversized = FALSE
      /\ intact = TRUE
  BY DEF Init
<1>2. dl \in Downloads /\ EndsOnce(dl) /\ Within
  BY <1>1 DEF Zero, Downloads, States, EndsOnce, Within
<1>3. matop \in Contexts /\ matop.list = <<>> /\ matop.answers = {}
  <2>1. <<>> \in Seq(Req) /\ 0 \in Nat /\ {} \subseteq Req
    OBVIOUS
  <2>2. QED
    BY <1>1, <2>1, MakeContext DEF EmptyMatop
<1>4. InList("check", timers) /\ ~InList("retry", timers) /\ timers \in TimerLists
  BY <1>1 DEF InList, TimerLists
<1>5. Named(matop) /\ NoOwn(matop)
  BY <1>3 DEF Named, NoOwn
<1>6. Carried(dl, matop, timers) /\ AsksForNext(dl, matop)
  BY <1>4, <1>5, NotCarried
<1>7. QED
  BY <1>1, <1>2, <1>3, <1>4, <1>5, <1>6 DEF IInv, Typed, CheckGoesOn, Straight

LEMMA AnswerStep ==
  ASSUME IInv, NEW a \in matop.answers, Answer(a)
  PROVE  IInv'
<1> DEFINE i == PlaceOf(matop, a.id)
           m == RemovedAt(Read(matop, a), i)
<1>0. Typed /\ matop \in Contexts /\ a \in Req
  BY ContextFacts DEF IInv, Typed
<1>1. CASE i = 0
  <2>1. matop' = Read(matop, a) /\ UNCHANGED <<dl, timers, history>>
    <3>1. \/ matop' = Read(matop, a) /\ UNCHANGED <<dl, timers, history>>
          \/ i # 0
      BY DEF Answer
    <3>2. QED
      BY <1>1, <3>1
  <2>2. /\ matop' \in Contexts
        /\ Straight => Named(matop') /\ Carried(dl, matop', timers) /\ AsksForNext(dl, matop')
    BY <1>0, <2>1, AfterReading DEF Straight
  <2>3. QED
    BY <2>1, <2>2, AfterOther
<1>2. CASE i # 0
  <2>1. i \in DOMAIN matop.list /\ matop.list[i].id = a.id
    BY <1>0, <1>2, PlaceFacts
  <2>2. Succeeded(matop.list[i].kind, a, m) \/ Failed(matop.list[i].kind, m)
    BY <1>2 DEF Answer
  <2> HIDE DEF i
  <2>3. Removed(m, matop.list[i].kind)
    BY <1>0, <2>1, EntryRemoved
  <2>4. matop.list[i].kind \in Kinds
    BY <1>0, <2>1, ContextFacts DEF Req
  <2>5. ~crossed => /\ a = matop.list[i]
                    /\ a.kind = "range" => /\ a.file = dl.file /\ a.from = dl.received
                                           /\ dl.received + a.len <= dl.size
    <3>1. ~crossed => a = matop.list[i]
      BY <2>1 DEF IInv, Straight, Named
    <3>2. QED
      BY <2>1, <3>1 DEF IInv, Straight, AsksForNext
  <2> HIDE DEF m
  <2>6. QED
    BY <1>0, <2>2, <2>3, <2>4, <2>5, SucceededStep, FailedStep
<1>3. QED
  BY <1>1, <1>2

LEMMA TimeoutStep ==
  ASSUME IInv, NEW i \in DOMAIN matop.list, Timeout(i)
  PROVE  IInv'
<1> DEFINE r == matop.list[i]
           m == RemovedAt(matop, i)
<1>1. Typed /\ r.kind \in Kinds
  BY ContextFacts DEF IInv, Typed, Req
<1>2. Failed(r.kind, Read(m, r)) \/ Failed(r.kind, m)
  BY DEF Timeout
<1>3. Removed(m, r.kind) /\ Removed(Read(m, r), r.kind)
  BY <1>1, EntryRemoved
<1> HIDE DEF r, m
<1>4. QED
  BY <1>1, <1>2, <1>3, FailedStep

LEMMA PauseStep ==
  ASSUME IInv, Pause
  PROVE  IInv'
<1>1. /\ dl \in Downloads /\ dl' = [dl EXCEPT !.nextstate = dl.state, !.state = "idle"]
      /\ UNCHANGED <<matop, timers, history>>
  BY DEF IInv, Typed, Pause
<1>2. /\ dl' \in Downloads /\ dl'.received = dl.received /\ dl'.size = dl.size
      /\ dl'.ended = dl.ended /\ dl'.file = dl.file
      /\ dl'.state = "idle" /\ dl'.nextstate = dl.state
  BY <1>1 DEF Downloads, States
<1>3. Typed'
  BY <1>1, <1>2 DEF IInv, Typed, history
<1>4. CheckGoesOn'
  BY <1>1 DEF IInv, CheckGoesOn, history
<1>5. ASSUME ~crossed' PROVE Straight'
  <2>1. Straight /\ UNCHANGED <<matop, timers, intact>>
    BY <1>1, <1>5 DEF IInv, history
  <2>2. Carried(dl', matop, timers)
    BY <1>2, <2>1 DEF Straight, Carried
  <2>3. AsksForNext(dl', matop)
    BY <1>2, <2>1 DEF Straight, AsksForNext
  <2>4. EndsOnce(dl')
    BY <1>2, <2>1 DEF Straight, EndsOnce
  <2>5. Within'
    BY <1>1, <1>2, <2>1 DEF Straight, Within, history
  <2>6. QED
    BY <2>1, <2>2, <2>3, <2>4, <2>5 DEF Straight
<1>6. QED
  BY <1>3, <1>4, <1>5 DEF IInv

LEMMA ResumeStep ==
  ASSUME IInv, Resume
  PROVE  IInv'
<1> DEFINE d == [dl EXCEPT !.state = dl.nextstate]
<1>0. /\ Typed /\ dl \in Downloads /\ timers \in TimerLists /\ matop \in Contexts
      /\ crossed \in BOOLEAN /\ intact \in BOOLEAN
  BY DEF IInv, Typed
<1>1. /\ Yield(d, matop, timers)
      /\ crossed' = (crossed \/ Crossing \/ dl.ended > 0)
      /\ UNCHANGED <<dropped, truncated, oversized, intact>>
  BY DEF Resume
<1>2. /\ d \in Downloads /\ d.received = dl.received /\ d.size = dl.size /\ d.ended = dl.ended
      /\ d.state = dl.nextstate /\ d.nextstate = dl.nextstate
  BY <1>0 DEF Downloads
<1> HIDE DEF d
<1>3. TypedAfter(d, timers)
  BY <1>0, <1>1, <1>2, YieldTypes
<1>4. ASSUME ~crossed'
      PROVE  StraightAfter /\ intact' /\ (~oversized' => d.received <= d.size)
  <2>1. ~crossed /\ ~InList("retry", timers) /\ NoOwn(matop) /\ ~(dl.ended > 0)
    BY <1>1, <1>4 DEF Crossing, Pending, NoOwn
  <2>2. Straight
    BY <2>1 DEF IInv
  <2>3. dl.ended = 0
    BY <1>0, <2>1 DEF Downloads
  <2>4. dl.nextstate \notin {"complete", "fault"}
    <3>1. EndsOnce(dl) /\ dl.ended # 1
      BY <2>2, <2>3 DEF Straight
    <3>2. QED
      BY <3>1 DEF EndsOnce
  <2>5. Free(d, matop, timers)
    BY <1>2, <2>1, <2>2, <2>3, <2>4 DEF Free, Straight
  <2>6. StraightAfter
    BY <1>0, <1>1, <1>2, <2>5, YieldStraight
  <2>7. QED
    BY <1>1, <1>2, <2>2, <2>6 DEF Straight, Within
<1>5. /\ crossed' \in BOOLEAN /\ oversized' \in BOOLEAN /\ intact' \in BOOLEAN
      /\ UNCHANGED <<truncated, dropped>>
  BY <1>0, <1>1 DEF Typed
<1>6. QED
  BY <1>2, <1>3, <1>4, <1>5, AfterYield

LEMMA RetryTimerStep ==
  ASSUME IInv, RetryTimer
  PROVE  IInv'
<1> DEFINE d == IF dl.retry > MaxRetryTimes THEN [dl EXCEPT !.state = "fault"] ELSE dl
           t == Tail(timers)
<1>0. /\ Typed /\ dl \in Downloads /\ timers \in TimerLists /\ matop \in Contexts
      /\ crossed \in BOOLEAN /\ intact \in BOOLEAN
  BY DEF IInv, Typed
<1>1. timers # <<>> /\ Head(timers) = "retry" /\ Yield(d, matop, t) /\ UNCHANGED history
  BY DEF RetryTimer
<1>2. /\ d \in Downloads /\ d.received = dl.received /\ d.size = dl.size /\ d.ended = dl.ended
      /\ d.file = dl.file
      /\ d.state \in {dl.state, "fault"} /\ d.nextstate = dl.nextstate
  BY <1>0 DEF Downloads, States
<1>3. timers = <<"retry">> \/ timers = <<"retry", "check">>
  BY <1>0, <1>1 DEF TimerLists
<1>4. /\ InList("retry", timers) /\ ~InList("retry", t) /\ t \in TimerLists
      /\ InList("check", timers) => InList("check", t)
  <2>1. CASE timers = <<"retry">>
    <3>1. t = <<>>
      BY <2>1
    <3>2. QED
      BY <2>1, <3>1 DEF InList, TimerLists
  <2>2. CASE timers = <<"retry", "check">>
    <3>1. t = <<"check">>
      BY <2>2
    <3>2. QED
      BY <2>2, <3>1 DEF InList, TimerLists
  <2>3. QED
    BY <1>3, <2>1, <2>2
<1> HIDE DEF d, t
<1>5. TypedAfter(d, timers)
  <2>1. TypedAfter(d, t)
    BY <1>0, <1>1, <1>2, <1>4, YieldTypes
  <2>2. QED
    BY <1>4, <2>1 DEF TypedAfter
<1>6. ASSUME ~crossed PROVE StraightAfter
  <2>1. Straight
    BY <1>6 DEF IInv
  <2>2. NoOwn(matop) /\ dl.ended = 0
    BY <1>4, <2>1 DEF Straight, Carried, Own, NoOwn
  <2>3. dl.state # "complete" /\ dl.nextstate \notin {"complete", "fault"}
    <3>1. EndsOnce(dl) /\ dl.ended # 1
      BY <2>1, <2>2 DEF Straight
    <3>2. QED
      BY <3>1 DEF EndsOnce
  <2>4. Free(d, matop, t)
    BY <1>2, <1>4, <2>1, <2>2, <2>3 DEF Free, Straight
  <2>5. QED
    BY <1>0, <1>1, <1>2, <1>4, <2>4, YieldStraight
<1>7. Same(d, dl)
  BY <1>2 DEF Same
<1>8. QED
  BY <1>1, <1>2, <1>5, <1>6, <1>7, AfterYieldSame

LEMMA CheckTimerStep ==
  ASSUME IInv, CheckTimer
  PROVE  IInv'
<1>0. Typed /\ dl \in Downloads /\ dl.file \in Nat /\ timers \in TimerLists /\ matop \in Contexts
  BY DEF IInv, Typed, Downloads
<1>1. /\ timers # <<>> /\ Head(timers) = "check" /\ timers' = Append(Tail(timers), "check")
      /\ Asks(matop, "auto", dl, 0, 0) \/ UNCHANGED matop
      /\ UNCHANGED <<dl, history>>
  BY DEF CheckTimer
<1>2. timers = <<"check">> \/ timers = <<"check", "retry">>
  BY <1>0, <1>1 DEF TimerLists
<1>3. /\ timers' \in TimerLists /\ InList("check", timers')
      /\ InList("retry", timers') <=> InList("retry", timers)
  <2>1. CASE timers = <<"check">>
    <3>1. timers' = <<"check">>
      BY <1>1, <2>1
    <3>2. QED
      BY <2>1, <3>1 DEF InList, TimerLists
  <2>2. CASE timers = <<"check", "retry">>
    <3>1. timers' = <<"retry", "check">>
      <4>1. Tail(timers) = <<"retry">>
        BY <2>2
      <4>2. timers' = Append(<<"retry">>, "check")
        BY <1>1, <4>1
      <4>3. "retry" \in Timers /\ "check" \in Timers
        BY DEF Timers
      <4>4. Append(<<"retry">>, "check") = <<"retry", "check">>
        BY <4>3, PairFacts
      <4>5. QED
        BY <4>2, <4>4
    <3>2. QED
      BY <2>2, <3>1 DEF InList, TimerLists
  <2>3. QED
    BY <1>2, <2>1, <2>2
<1>4. /\ matop' \in Contexts
      /\ Named(matop) => Named(matop')
      /\ \A d, t : Carried(d, matop, t) => Carried(d, matop', t)
      /\ \A d : AsksForNext(d, matop) => AsksForNext(d, matop')
  <2>1. CASE UNCHANGED matop
    BY <1>0, <2>1
  <2>2. CASE Asks(matop, "auto", dl, 0, 0)
    <3>1. PICK published \in BOOLEAN : matop' = Request(matop, "auto", dl.file, 0, 0, published)
      BY <2>2, SendingFacts DEF Asks
    <3>2. "auto" \in Kinds \ OwnKinds /\ "auto" \in Kinds /\ 0 \in Nat
      BY DEF Kinds, OwnKinds
    <3>3. matop' \in Contexts
      BY <1>0, <3>1, <3>2, RequestFacts
    <3>4. Named(matop) => Named(matop')
      BY <1>0, <3>1, <3>2, NamedAfterRequest
    <3>5. QED
      BY <1>0, <3>1, <3>2, <3>3, <3>4, OtherAsked
  <2>3. QED
    BY <1>1, <2>1, <2>2
<1>5. Typed'
  BY <1>0, <1>1, <1>3, <1>4 DEF Typed, history
<1>6. CheckGoesOn'
  BY <1>3 DEF CheckGoesOn
<1>7. ASSUME ~crossed' PROVE Straight'
  <2>1. Straight /\ UNCHANGED <<dl, intact>>
    BY <1>1, <1>7 DEF IInv, history
  <2>2. Carried(dl, matop', timers)
    BY <1>4, <2>1 DEF Straight
  <2>3. Carried(dl, matop', timers')
    BY <1>3, <2>2 DEF Carried
  <2>4. Within'
    BY <1>1, <2>1 DEF Straight, Within, history
  <2>5. QED
    BY <1>4, <2>1, <2>3, <2>4 DEF Straight
<1>8. QED
  BY <1>5, <1>6, <1>7 DEF IInv

LEMMA NotifyStep ==
  ASSUME IInv, Notify
  PROVE  IInv'
<1>1. "notify" \in Kinds \ OwnKinds /\ matop \in Contexts
  BY DEF Kinds, OwnKinds, IInv, Typed
<1>2. Asks(matop, "notify", dl, 0, 0) /\ UNCHANGED <<dl, timers, history>>
  BY DEF Notify
<1>3. QED
  BY <1>1, <1>2, AfterAsking DEF Straight

LEMMA ReconnectStep ==
  ASSUME IInv, Reconnect
  PROVE  IInv'
<1> DEFINE c == Initialised(matop)
<1>0. Typed /\ timers \in TimerLists /\ matop \in Contexts
  BY DEF IInv, Typed
<1>1. c \in Contexts /\ c.list = <<>> /\ c.answers = matop.answers
  BY <1>0, InitialisedFacts
<1>2. /\ matop' = c
      /\ crossed' = (crossed \/ matop.answers # {})
      /\ dropped' = (dropped \/ Pending(matop, OwnKinds))
      /\ UNCHANGED <<dl, truncated, oversized, intact>>
      /\ timers' = timers \/ timers' \in Started("check", timers)
  BY DEF Reconnect
<1>3. /\ timers' \in TimerLists
      /\ InList("check", timers) => InList("check", timers')
      /\ InList("retry", timers') <=> InList("retry", timers)
  BY <1>0, <1>2, StartedFacts DEF Timers
<1> HIDE DEF c
<1>4. Typed'
  <2>1. crossed' \in BOOLEAN /\ dropped' \in BOOLEAN
    BY <1>2 DEF Pending
  <2>2. QED
    BY <1>0, <1>1, <1>2, <1>3, <2>1 DEF Typed
<1>5. CheckGoesOn'
  BY <1>2, <1>3 DEF CheckGoesOn, IInv
<1>6. ASSUME ~crossed' PROVE Straight'
  <2>1. Straight /\ matop.answers = {}
    BY <1>2, <1>6 DEF IInv
  <2>2. Named(c) /\ NoOwn(c)
    <3>1. c.answers = {} /\ DOMAIN c.list = {}
      BY <1>1, <2>1
    <3>2. QED
      BY <3>1 DEF Named, NoOwn
  <2>3. InList("retry", timers') => dl.ended = 0
    BY <1>3, <2>1 DEF Straight, Carried
  <2>4. Carried(dl, c, timers') /\ AsksForNext(dl, c)
    BY <2>2, <2>3, NotCarried
  <2>5. Within'
    BY <1>2, <2>1 DEF Straight, Within
  <2>6. QED
    BY <1>2, <2>1, <2>2, <2>4, <2>5 DEF Straight
<1>7. QED
  BY <1>4, <1>5, <1>6 DEF IInv

LEMMA StepPreserves == IInv /\ [Next]_vars => IInv'
<1> SUFFICES ASSUME IInv, [Next]_vars PROVE IInv'
  OBVIOUS
<1>1. CASE Pause
  BY <1>1, PauseStep
<1>2. CASE Resume
  BY <1>2, ResumeStep
<1>3. CASE AnyAnswer
  BY <1>3, AnswerStep DEF AnyAnswer
<1>4. CASE AnyTimeout
  BY <1>4, TimeoutStep DEF AnyTimeout
<1>5. CASE AnyTimer
  BY <1>5, RetryTimerStep, CheckTimerStep DEF AnyTimer
<1>6. CASE Notify
  BY <1>6, NotifyStep
<1>7. CASE Reconnect
  BY <1>7, ReconnectStep
<1>8. CASE Leave \/ UNCHANGED vars
  <2>1. UNCHANGED <<dl, timers, history>> /\ matop' = matop
    BY <1>8 DEF Leave, vars
  <2>2. QED
    BY <2>1, AfterOther DEF IInv, Typed, Straight
<1>9. QED
  BY <1>1, <1>2, <1>3, <1>4, <1>5, <1>6, <1>7, <1>8 DEF Next

LEMMA Invariance == Spec => []IInv
BY InitEstablishes, StepPreserves, PTL DEF Spec

LEMMA YieldingTyped == Spec => [](yielding \in BOOLEAN)
<1>1. Init => yielding \in BOOLEAN
  BY DEF Init
<1>2. yielding \in BOOLEAN /\ [Next]_vars => (yielding \in BOOLEAN)'
  BY DEF Next, vars, Pause, Resume, AnyAnswer, AnyTimeout, AnyTimer, Notify, Leave, Reconnect
<1>3. QED
  BY <1>1, <1>2, PTL DEF Spec

-----------------------------------------------------------------------------
(* The variables always hold values of their types; no timer is ever linked *)
(* twice, although requests fail, retry and start the timer again           *)
(* (file_download.c, MultiTimer.c:56-61).                                   *)
THEOREM TypeCorrect == Spec => []TypeOK
<1>1. IInv /\ yielding \in BOOLEAN => TypeOK
  <2> SUFFICES ASSUME IInv, yielding \in BOOLEAN PROVE TypeOK
    OBVIOUS
  <2>1. Typed
    BY DEF IInv
  <2>2. \A i \in DOMAIN matop.list : matop.list[i].kind \in Kinds
    BY <2>1, ContextFacts DEF Typed, Req
  <2>3. matop.idCnt \in Nat /\ \A a \in matop.answers : a.kind \in Kinds
    BY <2>1, ContextFacts DEF Typed, Req
  <2>4. QED
    BY <2>1, <2>2, <2>3 DEF TypeOK, Typed, Downloads, TimerLists
<1>2. QED
  BY <1>1, Invariance, YieldingTyped, PTL

(* Late, lost, failed, empty, short and long answers and any number of      *)
(* retries never put bytes at a wrong place, and a download is complete     *)
(* only with the whole file, unless it has met requests of an older one     *)
(* (file_download.c); it has no more than the file unless an answer was     *)
(* longer than asked.                                                       *)
THEOREM PlaceCorrect == Spec => []FileInPlace
<1>1. IInv => FileInPlace
  BY DEF IInv, Straight, Within, EndsOnce, FileInPlace
<1>2. QED
  BY <1>1, Invariance, PTL

(* The application is told at most once how a download ended: a download    *)
(* that has ended is carried by no request and by no timer.                 *)
THEOREM EndingCorrect == Spec => []OneEnding
<1>1. IInv => OneEnding
  BY DEF IInv, Straight, EndsOnce, OneEnding
<1>2. QED
  BY <1>1, Invariance, PTL

(* The periodic check for upgrades goes on for ever unless the memset of    *)
(* file_download_init has cut the list of timers (file_download.c:89).      *)
THEOREM CheckCorrect == Spec => []CheckGoesOn
<1>1. IInv => CheckGoesOn
  BY DEF IInv
<1>2. QED
  BY <1>1, Invariance, PTL
-----------------------------------------------------------------------------
(* That a download goes on: what makes the next request is there.           *)

Asked(m) == Pending(m, {"range"})

GoesOn(d, m, t) == d.state = "data_get" => Asked(m) \/ InList("retry", t)

(* The failure that is one too many ends the download when the timer fires. *)
RetryCounted(d, t) ==
  \/ d.retry <= MaxRetryTimes
  \/ d.retry = MaxRetryTimes + 1 /\ (InList("retry", t) \/ d.ended > 0)

JInv == /\ ~dropped => GoesOn(dl, matop, timers)
        /\ ~crossed => RetryCounted(dl, timers)

GoesOnAfter == GoesOn(dl', matop', timers')
CountedAfter == RetryCounted(dl', timers')

LEMMA AskedAfterRequest ==
  ASSUME NEW m \in Contexts, NEW kind \in Kinds, NEW file \in Nat, NEW from \in Nat, NEW len \in Nat,
         NEW published \in BOOLEAN, Asked(m) \/ (kind = "range" /\ published)
  PROVE  Asked(Request(m, kind, file, from, len, published))
<1> DEFINE r == [id |-> m.idCnt + 1, kind |-> kind, file |-> file, from |-> from, len |-> len]
           n == Request(m, kind, file, from, len, published)
<1>1. n.list = IF published THEN Append(m.list, r) ELSE m.list
  BY ContextFacts DEF Request
<1>2. r \in Req /\ r.kind = kind
  BY ContextFacts DEF Req
<1> HIDE DEF n, r
<1>3. CASE ~published
  <2>1. n.list = m.list /\ Asked(m)
    BY <1>1, <1>3
  <2>2. Asked(n)
    BY <2>1 DEF Asked, Pending
  <2>3. QED
    BY <2>2 DEF n
<1>4. CASE published
  <2> DEFINE l == Append(m.list, r)
  <2>1. n.list = l
    BY <1>1, <1>4
  <2>2. /\ m.list \in Seq(Req) /\ Len(m.list) \in Nat /\ DOMAIN m.list = 1 .. Len(m.list)
        /\ DOMAIN l = 1 .. Len(m.list) + 1 /\ l[Len(m.list) + 1] = r
        /\ \A i \in 1 .. Len(m.list) : l[i] = m.list[i]
    BY <1>2, ContextFacts
  <2> HIDE DEF l
  <2>3. CASE Asked(m)
    <3>1. PICK i \in DOMAIN m.list : m.list[i].kind = "range"
      BY <2>3 DEF Asked, Pending
    <3>2. i \in DOMAIN l /\ l[i] = m.list[i]
      BY <2>2, <3>1
    <3>3. Asked(n)
      BY <2>1, <3>1, <3>2 DEF Asked, Pending
    <3>4. QED
      BY <3>3 DEF n
  <2>4. CASE kind = "range"
    <3>1. Len(m.list) + 1 \in DOMAIN l /\ l[Len(m.list) + 1].kind = "range"
      BY <1>2, <2>2, <2>4
    <3>2. Asked(n)
      BY <2>1, <3>1 DEF Asked, Pending
    <3>3. QED
      BY <3>2 DEF n
  <2>5. QED
    BY <2>3, <2>4
<1>5. QED
  BY <1>3, <1>4

(* Only the removal of a range can leave none. *)
LEMMA AskedAfterRemoval ==
  ASSUME NEW m \in Contexts, NEW p \in DOMAIN m.list, m.list[p].kind # "range", Asked(m)
  PROVE  Asked(RemovedAt(m, p))
<1> DEFINE s == m.list
           r == SubSeq(s, 1, p - 1) \o SubSeq(s, p + 1, Len(s))
           n == RemovedAt(m, p)
<1>1. s \in Seq(Req) /\ Len(s) \in Nat /\ DOMAIN s = 1 .. Len(s) /\ p \in 1 .. Len(s)
  BY ContextFacts
<1>2. n.list = r
  <2>1. n = [m EXCEPT !.list = r]
    BY DEF RemovedAt
  <2> HIDE DEF s, r, n
  <2>2. QED
    BY <2>1 DEF Contexts
<1>3. PICK j \in DOMAIN s : s[j].kind = "range" /\ j # p
  BY DEF Asked, Pending
<1> HIDE DEF s, n
<1>4. /\ r \in Seq(Req) /\ Len(r) = Len(s) - 1
      /\ \A k \in 1 .. Len(s) - 1 : r[k] = IF k < p THEN s[k] ELSE s[k + 1]
  BY <1>1, CutFacts
<1> HIDE DEF r
<1>5. DOMAIN r = 1 .. Len(s) - 1
  BY <1>1, <1>4
<1>6. \E k \in DOMAIN r : r[k].kind = "range"
  <2>1. CASE j < p
    <3>1. j \in 1 .. Len(s) - 1 /\ r[j] = s[j]
      BY <1>1, <1>3, <1>4, <2>1
    <3>2. QED
      BY <1>3, <1>5, <3>1
  <2>2. CASE j > p
    <3>1. j - 1 \in 1 .. Len(s) - 1 /\ ~(j - 1 < p) /\ (j - 1) + 1 = j
      BY <1>1, <1>3, <2>2
    <3>2. r[j - 1] = s[j]
      BY <1>4, <3>1
    <3>3. QED
      BY <1>3, <1>5, <3>1, <3>2
  <2>3. QED
    BY <1>1, <1>3, <2>1, <2>2
<1>7. Asked(n)
  BY <1>2, <1>6 DEF Asked, Pending
<1>8. QED
  BY <1>7 DEF n

(* The entry removed is a range, or a range that was asked for still is. *)
Kept(m, kind) == kind # "range" /\ Asked(matop) => Asked(m)

LEMMA EntryKept ==
  ASSUME Typed, NEW i \in DOMAIN matop.list, NEW a
  PROVE  /\ Kept(RemovedAt(matop, i), matop.list[i].kind)
         /\ Kept(Read(RemovedAt(matop, i), a), matop.list[i].kind)
         /\ Kept(RemovedAt(Read(matop, a), i), matop.list[i].kind)
<1> DEFINE kind == matop.list[i].kind
           m == RemovedAt(matop, i)
           n == Read(matop, a)
<1>1. matop \in Contexts
  BY DEF Typed
<1>2. Kept(m, kind)
  BY <1>1, AskedAfterRemoval DEF Kept
<1>3. Kept(Read(m, a), kind)
  <2>1. m \in Contexts
    BY <1>1, RemovedFacts
  <2> HIDE DEF m
  <2>2. Read(m, a).list = m.list
    BY <2>1, AfterReading
  <2>3. QED
    BY <1>2, <2>2 DEF Kept, Asked, Pending
<1>4. Kept(RemovedAt(n, i), kind)
  <2>1. n \in Contexts /\ n.list = matop.list
    BY <1>1, AfterReading
  <2> HIDE DEF n
  <2>2. i \in DOMAIN n.list /\ n.list[i].kind = kind /\ (Asked(matop) => Asked(n))
    BY <2>1 DEF Asked, Pending
  <2>3. kind # "range" /\ Asked(n) => Asked(RemovedAt(n, i))
    BY <2>1, <2>2, AskedAfterRemoval
  <2>4. QED
    BY <2>2, <2>3 DEF Kept
<1>5. QED
  BY <1>2, <1>3, <1>4

(* What file_download_yield leaves: it asks for a range, starts the timer   *)
(* or has come to an end.                                                   *)
LEMMA RetryGoesOn ==
  ASSUME NEW d \in Downloads, NEW t \in TimerLists, Retry(d, t)
  PROVE  /\ InList("retry", timers')
         /\ d.retry <= MaxRetryTimes => CountedAfter
<1>1. InList("retry", timers')
  BY StartedFacts DEF Retry, Timers
<1>2. dl'.retry = d.retry + 1 /\ d.retry \in Nat /\ MaxRetryTimes \in Nat
  BY DownloadAssumption DEF Retry, Downloads
<1>3. ASSUME d.retry <= MaxRetryTimes
      PROVE  dl'.retry <= MaxRetryTimes \/ dl'.retry = MaxRetryTimes + 1
  BY <1>2, <1>3
<1>4. QED
  BY <1>1, <1>3 DEF CountedAfter, RetryCounted

LEMMA EndsGoesOn ==
  ASSUME NEW m, NEW d \in Downloads, NEW t, Ends(d, m, t)
  PROVE  /\ dl'.state = d.state
         /\ d.retry <= MaxRetryTimes + 1 => CountedAfter
<1>1. /\ dl'.state = d.state /\ dl'.retry = d.retry /\ dl'.ended = d.ended + 1
      /\ d.retry \in Nat /\ d.ended \in Nat /\ MaxRetryTimes \in Nat
  BY DownloadAssumption DEF Ends, Downloads
<1>2. dl'.ended > 0
  BY <1>1
<1>3. ASSUME d.retry <= MaxRetryTimes + 1
      PROVE  dl'.retry <= MaxRetryTimes \/ dl'.retry = MaxRetryTimes + 1
  BY <1>1, <1>3
<1>4. QED
  BY <1>1, <1>2, <1>3 DEF CountedAfter, RetryCounted

LEMMA DataGetGoesOn ==
  ASSUME NEW m \in Contexts, NEW d \in Downloads, NEW t \in TimerLists, DataGet(d, m, t)
  PROVE  /\ GoesOnAfter
         /\ d.retry <= MaxRetryTimes => CountedAfter
<1>1. CASE d.received < d.size
  <2>1. PICK published \in Sending(m, "range") :
          /\ matop' = Request(m, "range", d.file, d.received, NextLen(d), published)
          /\ IF published THEN dl' = d /\ timers' = t ELSE Retry(d, t)
    BY <1>1 DEF DataGet
  <2>2. CASE published
    <3>1. /\ d.file \in Nat /\ d.received \in Nat /\ NextLen(d) \in Nat /\ "range" \in Kinds
          /\ published \in BOOLEAN
      BY <1>1, <2>1, NextLenFacts, SendingFacts DEF Downloads, Kinds, OwnKinds
    <3>2. Asked(matop')
      BY <2>1, <2>2, <3>1, AskedAfterRequest
    <3>3. dl' = d
      BY <2>1, <2>2
    <3>4. QED
      BY <3>2, <3>3 DEF GoesOnAfter, GoesOn, CountedAfter, RetryCounted
  <2>3. CASE ~published
    <3>1. Retry(d, t)
      BY <2>1, <2>3
    <3>2. QED
      BY <3>1, RetryGoesOn DEF GoesOnAfter, GoesOn
  <2>4. QED
    BY <2>2, <2>3
<1>2. CASE ~(d.received < d.size)
  <2> DEFINE e == [d EXCEPT !.state = "complete"]
  <2>1. Ends(e, m, t)
    BY <1>2 DEF DataGet
  <2>2. e \in Downloads /\ e.state = "complete" /\ e.retry = d.retry
    BY DEF Downloads, States
  <2> HIDE DEF e
  <2>3. d.retry \in Nat /\ MaxRetryTimes \in Nat
    BY DownloadAssumption DEF Downloads
  <2>4. QED
    BY <2>1, <2>2, <2>3, EndsGoesOn DEF GoesOnAfter, GoesOn
<1>3. QED
  BY <1>1, <1>2

LEMMA FilesizeGetGoesOn ==
  ASSUME NEW m \in Contexts, NEW d \in Downloads, NEW t \in TimerLists, FilesizeGet(d, m, t),
         d.state = "filesize_get"
  PROVE  /\ GoesOnAfter
         /\ d.retry <= MaxRetryTimes => CountedAfter
<1>1. CASE d.size = 0
  <2>1. dl' = d
    BY <1>1 DEF FilesizeGet
  <2>2. QED
    BY <2>1 DEF GoesOnAfter, GoesOn, CountedAfter, RetryCounted
<1>2. CASE d.size # 0
  <2> DEFINE e == [d EXCEPT !.state = "data_get", !.retry = 0]
  <2>1. DataGet(e, m, t)
    BY <1>2 DEF FilesizeGet
  <2>2. e \in Downloads /\ e.retry = 0
    BY DEF Downloads, States
  <2> HIDE DEF e
  <2>3. e.retry <= MaxRetryTimes
    BY <2>2, DownloadAssumption
  <2>4. QED
    BY <2>1, <2>2, <2>3, DataGetGoesOn
<1>3. QED
  BY <1>1, <1>2

LEMMA YieldGoesOn ==
  ASSUME NEW m \in Contexts, NEW d \in Downloads, NEW t \in TimerLists, Yield(d, m, t)
  PROVE  /\ GoesOnAfter
         /\ d.retry <= MaxRetryTimes => CountedAfter
         /\ d.state = "fault" /\ d.retry <= MaxRetryTimes + 1 => CountedAfter
<1>0. d.retry \in Nat /\ MaxRetryTimes \in Nat
  BY DownloadAssumption DEF Downloads
<1>1. CASE d.state = "idle"
  <2>1. dl' = d
    BY <1>1 DEF Yield
  <2>2. QED
    BY <1>1, <2>1 DEF GoesOnAfter, GoesOn, CountedAfter, RetryCounted
<1>2. CASE d.state = "start"
  <2> DEFINE e == [d EXCEPT !.state = "filesize_get"]
  <2>1. PICK published \in Sending(m, "report") :
          FilesizeGet(e, Request(m, "report", d.file, 0, 0, published), t)
    BY <1>2 DEF Yield, StartState
  <2>2. e \in Downloads /\ e.state = "filesize_get" /\ e.retry = d.retry
    BY DEF Downloads, States
  <2> HIDE DEF e
  <2> DEFINE n == Request(m, "report", d.file, 0, 0, published)
  <2>3. n \in Contexts
    <3>1. d.file \in Nat /\ 0 \in Nat /\ "report" \in Kinds /\ published \in BOOLEAN
      BY <2>1, SendingFacts DEF Downloads, Kinds
    <3>2. QED
      BY <3>1, RequestFacts
  <2>4. FilesizeGet(e, n, t)
    BY <2>1
  <2> HIDE DEF n
  <2>5. QED
    BY <1>2, <2>2, <2>3, <2>4, FilesizeGetGoesOn
<1>3. CASE d.state = "filesize_get"
  BY <1>3, FilesizeGetGoesOn DEF Yield
<1>4. CASE d.state = "data_get"
  BY <1>4, DataGetGoesOn DEF Yield
<1>5. CASE d.state \in {"complete", "fault"}
  <2>1. Ends(d, m, t)
    BY <1>5 DEF Yield
  <2>2. QED
    BY <1>0, <1>5, <2>1, EndsGoesOn DEF GoesOnAfter, GoesOn
<1>6. QED
  BY <1>1, <1>2, <1>3, <1>4, <1>5 DEF Yield

(* The callbacks. *)

LEMMA AfterYieldGoesOn ==
  ASSUME GoesOnAfter, ~crossed' => CountedAfter
  PROVE  JInv'
BY DEF GoesOnAfter, CountedAfter, JInv

LEMMA AfterOtherGoesOn ==
  ASSUME JInv, UNCHANGED <<dl, timers, crossed, dropped>>, Asked(matop) => Asked(matop')
  PROVE  JInv'
<1>1. GoesOn(dl, matop, timers) => GoesOn(dl', matop', timers')
  BY DEF GoesOn
<1>2. QED
  BY <1>1 DEF JInv

LEMMA AfterAskingGoesOn ==
  ASSUME IInv, JInv, UNCHANGED <<dl, timers, crossed, dropped>>, NEW m \in Contexts,
         NEW kind \in Kinds, Asks(m, kind, dl, 0, 0), Asked(matop) => Asked(m)
  PROVE  JInv'
<1>1. PICK published \in BOOLEAN : matop' = Request(m, kind, dl.file, 0, 0, published)
  BY SendingFacts DEF Asks
<1>2. dl.file \in Nat /\ 0 \in Nat
  BY DEF IInv, Typed, Downloads
<1>3. Asked(m) => Asked(matop')
  BY <1>1, <1>2, AskedAfterRequest
<1>4. QED
  BY <1>3, AfterOtherGoesOn

(* A request of the download that is in the list is what carries it.        *)
LEMMA NotTooMany ==
  ASSUME IInv, JInv, ~crossed, ~InList("retry", timers), dl.ended = 0
  PROVE  dl.retry <= MaxRetryTimes
BY DEF JInv, RetryCounted

LEMMA FailedGoesOn ==
  ASSUME IInv, JInv, NEW kind \in Kinds, NEW m, Removed(m, kind), Kept(m, kind), Failed(kind, m)
  PROVE  JInv'
<1>0. dl \in Downloads /\ timers \in TimerLists /\ m \in Contexts
  BY DEF IInv, Typed, Removed
<1>1. ASSUME kind \in OwnKinds, ~crossed PROVE dl.retry <= MaxRetryTimes
  <2>1. ~InList("retry", timers) /\ dl.ended = 0
    BY <1>1 DEF IInv, Straight, Removed
  <2>2. QED
    BY <1>1, <2>1, NotTooMany
<1>2. CASE kind = "range" /\ Retry(dl, timers) /\ UNCHANGED history
  <2>1. InList("retry", timers') /\ (dl.retry <= MaxRetryTimes => CountedAfter)
    BY <1>0, <1>2, RetryGoesOn
  <2>2. GoesOnAfter
    BY <2>1 DEF GoesOnAfter, GoesOn
  <2>3. QED
    BY <1>1, <1>2, <2>1, <2>2, AfterYieldGoesOn DEF history, OwnKinds
<1>3. CASE kind = "size" /\ Yield(dl, m, timers) /\ UNCHANGED history
  <2>1. GoesOnAfter /\ (dl.retry <= MaxRetryTimes => CountedAfter)
    BY <1>0, <1>3, YieldGoesOn
  <2>2. QED
    BY <1>1, <1>3, <2>1, AfterYieldGoesOn DEF history, OwnKinds
<1>4. CASE kind = "notify" /\ Asks(m, "report", dl, 0, 0) /\ UNCHANGED <<dl, timers, history>>
  <2>1. "report" \in Kinds /\ (Asked(matop) => Asked(m))
    BY <1>4 DEF Kinds, Kept
  <2>2. QED
    BY <1>0, <1>4, <2>1, AfterAskingGoesOn DEF history
<1>5. CASE kind \in {"report", "auto"} /\ matop' = m /\ UNCHANGED <<dl, timers, history>>
  <2>1. Asked(matop) => Asked(matop')
    BY <1>5 DEF Kept
  <2>2. QED
    BY <1>5, <2>1, AfterOtherGoesOn DEF history
<1>6. QED
  BY <1>2, <1>3, <1>4, <1>5 DEF Failed

LEMMA DataOnGoesOn ==
  ASSUME IInv, NEW a, NEW n \in Nat, NEW m \in Contexts, DataOn(a, n, m)
  PROVE  JInv'
<1>0. dl \in Downloads /\ timers \in TimerLists /\ MaxRetryTimes \in Nat
  BY DownloadAssumption DEF IInv, Typed
<1>1. CASE Restarts(m)
  <2>1. dl' = [Zero EXCEPT !.file = dl.file]
    BY <1>1 DEF Restarts
  <2>2. dl'.state = "idle" /\ dl'.retry = 0
    BY <2>1 DEF Zero
  <2>3. QED
    BY <1>0, <2>2 DEF JInv, GoesOn, RetryCounted
<1>2. CASE Yield([dl EXCEPT !.received = @ + n, !.retry = 0], m, timers)
  <2> DEFINE sum == dl.received + n
             d == [dl EXCEPT !.received = sum, !.retry = 0]
  <2>1. sum \in Nat
    BY <1>0 DEF Downloads
  <2>2. Yield(d, m, timers)
    BY <1>2
  <2> HIDE DEF sum
  <2>3. d \in Downloads /\ d.retry = 0
    BY <1>0, <2>1 DEF Downloads
  <2> HIDE DEF d
  <2>4. GoesOnAfter /\ CountedAfter
    BY <1>0, <2>2, <2>3, YieldGoesOn
  <2>5. QED
    BY <2>4, AfterYieldGoesOn
<1>3. QED
  BY <1>1, <1>2 DEF DataOn

LEMMA BeginGoesOn ==
  ASSUME IInv, NEW m \in Contexts, Begin(m)
  PROVE  JInv'
<1>0. dl.file \in Nat /\ timers \in TimerLists /\ MaxRetryTimes \in Nat
  BY DownloadAssumption DEF IInv, Typed, Downloads
<1>1. PICK size \in Sizes :
        Yield([state |-> "start", nextstate |-> "start", size |-> size, received |-> 0,
               retry |-> 0, file |-> dl.file + 1, ended |-> 0],
              m, Cleared("retry", timers))
  BY DEF Begin
<1> DEFINE d == [state |-> "start", nextstate |-> "start", size |-> size, received |-> 0,
                 retry |-> 0, file |-> dl.file + 1, ended |-> 0]
           t == Cleared("retry", timers)
<1>2. d \in Downloads /\ d.retry = 0
  BY <1>0, DownloadAssumption DEF Downloads, States
<1>3. t \in TimerLists
  BY <1>0, ClearedFacts DEF Timers
<1>4. Yield(d, m, t)
  BY <1>1
<1> HIDE DEF d, t
<1>5. GoesOnAfter /\ CountedAfter
  BY <1>0, <1>2, <1>3, <1>4, YieldGoesOn
<1>6. QED
  BY <1>5, AfterYieldGoesOn

LEMMA SucceededGoesOn ==
  ASSUME IInv, JInv, NEW kind \in Kinds, NEW a \in Req, NEW m, Removed(m, kind), Kept(m, kind),
         Succeeded(kind, a, m)
  PROVE  JInv'
<1>0. dl \in Downloads /\ timers \in TimerLists /\ m \in Contexts /\ a.len \in Nat
  BY DEF IInv, Typed, Removed, Req
<1>1. CASE \E n \in Held(a) : DataOn(a, n, m)
  <2>1. PICK n \in Held(a) : DataOn(a, n, m)
    BY <1>1
  <2>2. n \in Nat
    BY <1>0, <2>1, DownloadAssumption DEF Held
  <2>3. QED
    BY <1>0, <2>1, <2>2, DataOnGoesOn
<1>2. CASE kind = "size" /\ Yield(dl, m, timers) /\ UNCHANGED history
  <2>1. GoesOnAfter /\ (dl.retry <= MaxRetryTimes => CountedAfter)
    BY <1>0, <1>2, YieldGoesOn
  <2>2. ~crossed => dl.retry <= MaxRetryTimes
    <3>1. ~crossed => ~InList("retry", timers) /\ dl.ended = 0
      BY <1>2 DEF IInv, Straight, Removed, OwnKinds
    <3>2. QED
      BY <3>1, NotTooMany
  <2>3. QED
    BY <1>2, <2>1, <2>2, AfterYieldGoesOn DEF history
<1>3. CASE Begin(m)
  BY <1>0, <1>3, BeginGoesOn
<1>4. CASE kind \in {"notify", "auto", "report"} /\ matop' = m /\ UNCHANGED <<dl, timers, history>>
  <2>1. Asked(matop) => Asked(matop')
    BY <1>4 DEF Kept
  <2>2. QED
    BY <1>4, <2>1, AfterOtherGoesOn DEF history
<1>5. QED
  BY <1>1, <1>2, <1>3, <1>4 DEF Succeeded

(* The steps. *)

LEMMA AnswerGoesOn ==
  ASSUME IInv, JInv, NEW a \in matop.answers, Answer(a)
  PROVE  JInv'
<1> DEFINE i == PlaceOf(matop, a.id)
           m == RemovedAt(Read(matop, a), i)
<1>0. Typed /\ matop \in Contexts /\ a \in Req
  BY ContextFacts DEF IInv, Typed
<1>1. CASE i = 0
  <2>1. matop' = Read(matop, a) /\ UNCHANGED <<dl, timers, history>>
    <3>1. \/ matop' = Read(matop, a) /\ UNCHANGED <<dl, timers, history>>
          \/ i # 0
      BY DEF Answer
    <3>2. QED
      BY <1>1, <3>1
  <2>2. matop'.list = matop.list
    BY <1>0, <2>1, AfterReading
  <2>3. Asked(matop) => Asked(matop')
    BY <2>2 DEF Asked, Pending
  <2>4. QED
    BY <2>1, <2>3, AfterOtherGoesOn DEF history
<1>2. CASE i # 0
  <2>1. i \in DOMAIN matop.list
    BY <1>0, <1>2, PlaceFacts
  <2>2. Succeeded(matop.list[i].kind, a, m) \/ Failed(matop.list[i].kind, m)
    BY <1>2 DEF Answer
  <2> HIDE DEF i
  <2>3. Removed(m, matop.list[i].kind) /\ Kept(m, matop.list[i].kind)
    BY <1>0, <2>1, EntryRemoved, EntryKept
  <2>4. matop.list[i].kind \in Kinds
    BY <1>0, <2>1, ContextFacts DEF Req
  <2> HIDE DEF m
  <2>5. QED
    BY <1>0, <2>2, <2>3, <2>4, SucceededGoesOn, FailedGoesOn
<1>3. QED
  BY <1>1, <1>2

LEMMA TimeoutGoesOn ==
  ASSUME IInv, JInv, NEW i \in DOMAIN matop.list, Timeout(i)
  PROVE  JInv'
<1> DEFINE r == matop.list[i]
           m == RemovedAt(matop, i)
<1>1. Typed /\ r.kind \in Kinds
  BY ContextFacts DEF IInv, Typed, Req
<1>2. Failed(r.kind, Read(m, r)) \/ Failed(r.kind, m)
  BY DEF Timeout
<1>3. /\ Removed(m, r.kind) /\ Removed(Read(m, r), r.kind)
      /\ Kept(m, r.kind) /\ Kept(Read(m, r), r.kind)
  BY <1>1, EntryRemoved, EntryKept
<1> HIDE DEF r, m
<1>4. QED
  BY <1>1, <1>2, <1>3, FailedGoesOn

LEMMA PauseGoesOn ==
  ASSUME IInv, JInv, Pause
  PROVE  JInv'
<1>1. /\ dl \in Downloads /\ dl' = [dl EXCEPT !.nextstate = dl.state, !.state = "idle"]
      /\ UNCHANGED <<matop, timers, history>>
  BY DEF IInv, Typed, Pause
<1>2. dl'.state = "idle" /\ dl'.retry = dl.retry /\ dl'.ended = dl.ended
  BY <1>1 DEF Downloads
<1>3. QED
  BY <1>1, <1>2 DEF JInv, GoesOn, RetryCounted, history

LEMMA ResumeGoesOn ==
  ASSUME IInv, JInv, Resume
  PROVE  JInv'
<1> DEFINE d == [dl EXCEPT !.state = dl.nextstate]
<1>0. dl \in Downloads /\ timers \in TimerLists /\ matop \in Contexts
  BY DEF IInv, Typed
<1>1. Yield(d, matop, timers) /\ crossed' = (crossed \/ Crossing \/ dl.ended > 0)
  BY DEF Resume
<1>2. d \in Downloads /\ d.retry = dl.retry
  BY <1>0 DEF Downloads
<1> HIDE DEF d
<1>3. GoesOnAfter /\ (d.retry <= MaxRetryTimes => CountedAfter)
  BY <1>0, <1>1, <1>2, YieldGoesOn
<1>4. ~crossed' => dl.retry <= MaxRetryTimes
  <2>1. dl.ended \in Nat /\ (~crossed' => ~(dl.ended > 0))
    BY <1>0, <1>1 DEF Downloads
  <2>2. ~crossed' => ~crossed /\ ~InList("retry", timers)
    BY <1>1 DEF Crossing
  <2>3. ~crossed' => dl.ended = 0
    BY <2>1
  <2>4. QED
    BY <2>2, <2>3, NotTooMany
<1>5. QED
  BY <1>2, <1>3, <1>4, AfterYieldGoesOn

LEMMA RetryTimerGoesOn ==
  ASSUME IInv, JInv, RetryTimer
  PROVE  JInv'
<1> DEFINE d == IF dl.retry > MaxRetryTimes THEN [dl EXCEPT !.state = "fault"] ELSE dl
           t == Tail(timers)
<1>0. /\ dl \in Downloads /\ timers \in TimerLists /\ matop \in Contexts
      /\ dl.retry \in Nat /\ MaxRetryTimes \in Nat
  BY DownloadAssumption DEF IInv, Typed, Downloads
<1>1. timers # <<>> /\ Head(timers) = "retry" /\ Yield(d, matop, t) /\ UNCHANGED history
  BY DEF RetryTimer
<1>2. /\ d \in Downloads /\ d.retry = dl.retry
      /\ d.retry > MaxRetryTimes => d.state = "fault"
  BY <1>0 DEF Downloads, States
<1>3. t \in TimerLists
  <2>1. timers = <<"retry">> \/ timers = <<"retry", "check">>
    BY <1>0, <1>1 DEF TimerLists
  <2>2. CASE timers = <<"retry">>
    <3>1. t = <<>>
      BY <2>2
    <3>2. QED
      BY <3>1 DEF TimerLists
  <2>3. CASE timers = <<"retry", "check">>
    <3>1. t = <<"check">>
      BY <2>3
    <3>2. QED
      BY <3>1 DEF TimerLists
  <2>4. QED
    BY <2>1, <2>2, <2>3
<1> HIDE DEF d, t
<1>4. /\ GoesOnAfter
      /\ d.retry <= MaxRetryTimes => CountedAfter
      /\ d.state = "fault" /\ d.retry <= MaxRetryTimes + 1 => CountedAfter
  BY <1>0, <1>1, <1>2, <1>3, YieldGoesOn
<1>5. ~crossed => d.retry <= MaxRetryTimes \/ (d.state = "fault" /\ d.retry <= MaxRetryTimes + 1)
  BY <1>0, <1>2 DEF JInv, RetryCounted
<1>6. QED
  BY <1>1, <1>4, <1>5, AfterYieldGoesOn DEF history

LEMMA CheckTimerGoesOn ==
  ASSUME IInv, JInv, CheckTimer
  PROVE  JInv'
<1>0. dl.file \in Nat /\ timers \in TimerLists /\ matop \in Contexts
  BY DEF IInv, Typed, Downloads
<1>1. /\ timers # <<>> /\ Head(timers) = "check" /\ timers' = Append(Tail(timers), "check")
      /\ Asks(matop, "auto", dl, 0, 0) \/ UNCHANGED matop
      /\ UNCHANGED <<dl, history>>
  BY DEF CheckTimer
<1>2. InList("retry", timers) => InList("retry", timers')
  <2>1. ASSUME InList("retry", timers) PROVE InList("retry", timers')
    <3>1. timers = <<"check", "retry">>
      <4>1. timers = <<"check">> \/ timers = <<"check", "retry">>
        BY <1>0, <1>1 DEF TimerLists
      <4>2. QED
        BY <2>1, <4>1 DEF InList
    <3>2. Tail(timers) = <<"retry">>
      BY <3>1
    <3>3. timers' = Append(<<"retry">>, "check") /\ "retry" \in Timers /\ "check" \in Timers
      BY <1>1, <3>2 DEF Timers
    <3>4. timers' = <<"retry", "check">>
      BY <3>3, PairFacts
    <3>5. QED
      BY <3>4 DEF InList
  <2>2. QED
    BY <2>1
<1>3. Asked(matop) => Asked(matop')
  <2>1. CASE UNCHANGED matop
    BY <2>1
  <2>2. CASE Asks(matop, "auto", dl, 0, 0)
    <3>1. PICK published \in BOOLEAN : matop' = Request(matop, "auto", dl.file, 0, 0, published)
      BY <2>2, SendingFacts DEF Asks
    <3>2. "auto" \in Kinds /\ 0 \in Nat
      BY DEF Kinds
    <3>3. QED
      BY <1>0, <3>1, <3>2, AskedAfterRequest
  <2>3. QED
    BY <1>1, <2>1, <2>2
<1>4. QED
  BY <1>1, <1>2, <1>3 DEF JInv, GoesOn, RetryCounted, history

LEMMA ReconnectGoesOn ==
  ASSUME IInv, JInv, Reconnect
  PROVE  JInv'
<1>0. timers \in TimerLists
  BY DEF IInv, Typed
<1>1. /\ crossed' = (crossed \/ matop.answers # {})
      /\ dropped' = (dropped \/ Pending(matop, OwnKinds))
      /\ UNCHANGED dl
      /\ timers' = timers \/ timers' \in Started("check", timers)
  BY DEF Reconnect
<1>2. InList("retry", timers') <=> InList("retry", timers)
  BY <1>0, <1>1, StartedFacts DEF Timers
<1>3. ~dropped' => ~dropped /\ ~Asked(matop)
  BY <1>1 DEF Asked, Pending, OwnKinds
<1>4. QED
  BY <1>1, <1>2, <1>3 DEF JInv, GoesOn, RetryCounted

LEMMA StepGoesOn == IInv /\ JInv /\ [Next]_vars => JInv'
<1> SUFFICES ASSUME IInv, JInv, [Next]_vars PROVE JInv'
  OBVIOUS
<1>1. CASE Pause
  BY <1>1, PauseGoesOn
<1>2. CASE Resume
  BY <1>2, ResumeGoesOn
<1>3. CASE AnyAnswer
  BY <1>3, AnswerGoesOn DEF AnyAnswer
<1>4. CASE AnyTimeout
  BY <1>4, TimeoutGoesOn DEF AnyTimeout
<1>5. CASE AnyTimer
  BY <1>5, RetryTimerGoesOn, CheckTimerGoesOn DEF AnyTimer
<1>6. CASE Notify
  <2>1. "notify" \in Kinds /\ matop \in Contexts
    BY DEF Kinds, IInv, Typed
  <2>2. Asks(matop, "notify", dl, 0, 0) /\ UNCHANGED <<dl, timers, crossed, dropped>>
    BY <1>6 DEF Notify, history
  <2>3. QED
    BY <2>1, <2>2, AfterAskingGoesOn
<1>7. CASE Reconnect
  BY <1>7, ReconnectGoesOn
<1>8. CASE Leave \/ UNCHANGED vars
  <2>1. UNCHANGED <<dl, timers, crossed, dropped>> /\ matop' = matop
    BY <1>8 DEF Leave, vars, history
  <2>2. QED
    BY <2>1, AfterOtherGoesOn
<1>9. QED
  BY <1>1, <1>2, <1>3, <1>4, <1>5, <1>6, <1>7, <1>8 DEF Next

(* A download that has data to come is waiting for a range, or for the      *)
(* timer that asks again, unless a reconnection has dropped its request;    *)
(* and it counts its failures in a row up to the one that ends it           *)
(* (file_download.c:57-61, 73-83, 178-199).                                        *)
THEOREM GoesOnCorrect == Spec => []DownloadGoesOn
<1>1. Init => JInv
  <2> SUFFICES ASSUME Init PROVE JInv
    OBVIOUS
  <2>1. dl = Zero /\ MaxRetryTimes \in Nat
    BY DownloadAssumption DEF Init
  <2>2. dl.state = "idle" /\ dl.retry = 0
    BY <2>1 DEF Zero
  <2>3. QED
    BY <2>1, <2>2 DEF JInv, GoesOn, RetryCounted
<1>2. IInv /\ JInv => DownloadGoesOn
  <2> SUFFICES ASSUME IInv, JInv PROVE DownloadGoesOn
    OBVIOUS
  <2>1. dl.retry \in Nat /\ MaxRetryTimes \in Nat
    BY DownloadAssumption DEF IInv, Typed, Downloads
  <2>2. QED
    BY <2>1 DEF JInv, GoesOn, RetryCounted, Asked, DownloadGoesOn
<1>3. QED
  BY <1>1, <1>2, StepGoesOn, Invariance, PTL DEF Spec
===============================================================================
