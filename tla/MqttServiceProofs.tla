--------------------------- MODULE MqttServiceProofs ---------------------------
(***************************************************************************)
(* Proofs about MqttService, for any number of reports, sessions and packet *)
(* ids, any timeout and any clock.                                          *)
(***************************************************************************)
EXTENDS MqttService, SequenceTheorems, FiniteSetTheorems, TLAPS

Pub == [report : Reports, id : 0 .. MaxId, timeout : Nat]
Ack == [id : 1 .. MaxId, report : Reports]

(* Outside of a scan there is no entry it is at; in one there is, or the end. *)
CurIdle == (pc \in {"idle", "yield"} => cur = 0) /\ (pc = "scan" => cur > 0)

(* A report is in the list once, and then has had no answer. *)
InListOnce ==
  /\ \A i, j \in DOMAIN pubs : pubs[i].report = pubs[j].report => i = j
  /\ \A i \in DOMAIN pubs : answers[pubs[i].report] = <<>>
  /\ \A r \in Reports : Len(answers[r]) <= 1

(* An acknowledgement is for a report the broker has received, and an entry *)
(* with its id is that report's.                                            *)
AcksMatch ==
  /\ \A a \in DOMAIN acks : /\ acks[a].report \in received
                            /\ acks[a].id < packetId
  /\ \A i \in DOMAIN pubs : pubs[i].id < packetId
  /\ \A a \in DOMAIN acks : \A i \in DOMAIN pubs :
       pubs[i].id = acks[a].id => pubs[i].report = acks[a].report

IInv == TypeOK /\ CurIdle /\ OneHandler /\ InListOnce /\ AcksMatch /\ OkWasReceived

-----------------------------------------------------------------------------
(* What is left of a list without one of its entries. *)
LEMMA WithoutFacts ==
  ASSUME NEW S, NEW s \in Seq(S), NEW i \in 1 .. Len(s)
  PROVE  /\ Without(s, i) \in Seq(S) /\ Len(Without(s, i)) = Len(s) - 1
         /\ \A k \in 1 .. Len(s) - 1 : Without(s, i)[k] = IF k < i THEN s[k] ELSE s[k + 1]
<1> DEFINE a == SubSeq(s, 1, i - 1)
           b == SubSeq(s, i + 1, Len(s))
<1>0. Len(s) \in Nat /\ i \in Nat
  BY LenProperties
<1>1. \A k \in 1 .. Len(s) : s[k] \in S
  BY ElementOfSeq
<1>2. /\ a \in Seq(S) /\ Len(a) = i - 1
      /\ \A k \in 1 .. i - 1 : a[k] = s[k]
  <2>1. \A k \in 1 .. i - 1 : s[k] \in S
    BY <1>0, <1>1
  <2>2. /\ a \in Seq(S) /\ Len(a) = IF 1 <= i - 1 THEN i - 1 - 1 + 1 ELSE 0
        /\ \A k \in 1 .. i - 1 - 1 + 1 : a[k] = s[1 + k - 1]
    BY <1>0, <2>1, SubSeqProperties
  <2>3. QED
    BY <1>0, <2>2
<1>3. /\ b \in Seq(S) /\ Len(b) = Len(s) - i
      /\ \A k \in 1 .. Len(s) - i : b[k] = s[i + k]
  <2>1. \A k \in i + 1 .. Len(s) : s[k] \in S
    BY <1>0, <1>1
  <2>2. /\ b \in Seq(S) /\ Len(b) = IF i + 1 <= Len(s) THEN Len(s) - (i + 1) + 1 ELSE 0
        /\ \A k \in 1 .. Len(s) - (i + 1) + 1 : b[k] = s[i + 1 + k - 1]
    BY <1>0, <2>1, SubSeqProperties
  <2>3. QED
    BY <1>0, <2>2
<1>4. /\ a \o b \in Seq(S) /\ Len(a \o b) = Len(a) + Len(b)
      /\ \A k \in 1 .. Len(a) + Len(b) : (a \o b)[k] = IF k <= Len(a) THEN a[k] ELSE b[k - Len(a)]
  BY <1>2, <1>3, ConcatProperties
<1>5. Without(s, i) = a \o b
  BY DEF Without
<1> HIDE DEF a, b
<1>6. \A k \in 1 .. Len(s) - 1 : (a \o b)[k] = IF k < i THEN s[k] ELSE s[k + 1]
  BY <1>0, <1>2, <1>3, <1>4
<1>7. Len(a \o b) = Len(s) - 1
  BY <1>0, <1>2, <1>3, <1>4
<1>8. QED
  BY <1>4, <1>5, <1>6, <1>7, Zenon

LEMMA Bounds == Timeout \in Nat /\ MaxTime \in Nat /\ MaxConn \in Nat /\ MaxId \in Nat
BY MqttAssumption

LEMMA InvInit == Init => IInv
<1> SUFFICES ASSUME Init PROVE IInv
  OBVIOUS
<1>1. TypeOK
  <2>1. /\ pubs \in Seq([report : Reports, id : 0 .. MaxId, timeout : Nat]) /\ Len(pubs) = 0
        /\ acks \in Seq([id : 1 .. MaxId, report : Reports])
    BY EmptySeq DEF Init
  <2>2. answers \in [Reports -> Seq({"OK", "TIMEOUT"})]
    BY EmptySeq DEF Init
  <2>3. session \in [n : 0 .. MaxConn, up : BOOLEAN]
    BY Bounds DEF Init
  <2>4. cur \in 0 .. Len(pubs) + 1 /\ packetId \in 1 .. MaxId + 1 /\ now \in 0 .. MaxTime
    BY Bounds, <2>1 DEF Init
  <2>5. QED
    BY <2>1, <2>2, <2>3, <2>4 DEF Init, TypeOK
<1>2. CurIdle /\ OneHandler /\ InListOnce /\ AcksMatch /\ OkWasReceived
  BY DEF Init, CurIdle, OneHandler, InListOnce, AcksMatch, OkWasReceived
<1>3. QED
  BY <1>1, <1>2 DEF IInv

(* The actions that change neither the list nor the answers. *)
LEMMA QuietSteps ==
  ASSUME IInv, UNCHANGED <<pubs, answers>>,
         \/ Start \/ Stop \/ LoopReconnect \/ LoopScan \/ ScanEnd
         \/ YieldEnd \/ YieldFail \/ Tick \/ LinkLost
  PROVE  IInv'
<1> USE DEF IInv, serviceVars, brokerVars
<1>0. Len(pubs) \in Nat
  BY LenProperties DEF TypeOK
<1>1. \/ acks' = acks
      \/ acks' = <<>>
  BY DEF Start, Stop, LoopReconnect, LoopScan, ScanEnd, YieldEnd, YieldFail, Tick, LinkLost,
         Connect, Connected, Refused, Disconnect
<1>2. UNCHANGED <<packetId, received>>
  BY DEF Start, Stop, LoopReconnect, LoopScan, ScanEnd, YieldEnd, YieldFail, Tick, LinkLost
<1>3. acks' \in Seq([id : 1 .. MaxId, report : Reports])
  <2>1. <<>> \in Seq([id : 1 .. MaxId, report : Reports])
    BY EmptySeq
  <2>2. QED
    BY <1>1, <2>1 DEF TypeOK
<1>4. /\ session' \in [n : 0 .. MaxConn, up : BOOLEAN] /\ sub' \in BOOLEAN /\ unhandled' \in BOOLEAN
      /\ connected' \in BOOLEAN /\ manual' \in BOOLEAN /\ handlers' \in Nat /\ OneHandler'
  <2>1. CASE Connect /\ (UNCHANGED manual \/ manual' = FALSE)
    <3>1. CASE Refused
      BY <2>1, <3>1 DEF Refused, TypeOK, OneHandler
    <3>2. CASE session.n < MaxConn /\ Connected
      <4>0. session.n + 1 \in 0 .. MaxConn
        BY <3>2, Bounds DEF TypeOK
      <4>1. session' \in [n : 0 .. MaxConn, up : BOOLEAN]
        BY <3>2, <4>0 DEF Connected
      <4>2. /\ connected' \in {TRUE, connected}
            /\ \/ sub' = TRUE /\ handlers' = (IF handlers = 0 THEN 1 ELSE handlers) /\ unhandled' = FALSE
               \/ sub' = FALSE /\ handlers' = handlers /\ unhandled' = FALSE
               \/ sub' = TRUE /\ handlers = 0 /\ handlers' = handlers /\ unhandled' = TRUE
        BY <3>2 DEF Connected, Subscribed
      <4>3. handlers' \in Nat /\ OneHandler'
        BY <4>2 DEF TypeOK, OneHandler
      <4>4. /\ manual' \in BOOLEAN /\ sub' \in BOOLEAN /\ connected' \in BOOLEAN
            /\ unhandled' \in BOOLEAN
        <5>1. manual \in BOOLEAN /\ connected \in BOOLEAN
          BY DEF TypeOK
        <5>2. QED
          BY <2>1, <4>2, <5>1, Zenon
      <4>5. QED
        BY <4>1, <4>3, <4>4
    <3>3. QED
      BY <2>1, <3>1, <3>2 DEF Connect
  <2>2. CASE Stop
    <3>1. /\ manual' = TRUE /\ handlers' = 0 /\ connected' = FALSE /\ sub' = FALSE
          /\ unhandled' = unhandled /\ unhandled \in BOOLEAN
          /\ session' = [session EXCEPT !.up = FALSE]
      BY <2>2 DEF Stop, Disconnect, TypeOK
    <3>2. session' \in [n : 0 .. MaxConn, up : BOOLEAN]
      BY <3>1 DEF TypeOK
    <3>3. handlers' \in Nat /\ OneHandler'
      BY <3>1 DEF OneHandler
    <3>4. QED
      BY <3>1, <3>2, <3>3, Zenon
  <2>3. CASE YieldFail
    BY <2>3 DEF YieldFail, Disconnect, TypeOK, OneHandler
  <2>4. CASE LinkLost
    BY <2>4 DEF LinkLost, TypeOK, OneHandler
  <2>5. CASE LoopScan \/ ScanEnd \/ YieldEnd \/ Tick
    BY <2>5 DEF LoopScan, ScanEnd, YieldEnd, Tick, TypeOK, OneHandler
  <2>6. CASE Start
    BY <2>1, <2>6, Zenon DEF Start
  <2>7. CASE LoopReconnect
    BY <2>1, <2>7, Zenon DEF LoopReconnect
  <2>8. QED
    BY <2>2, <2>3, <2>4, <2>5, <2>6, <2>7, Zenon
<1>5. /\ pc' \in {"idle", "scan", "yield", "crashed"} /\ cur' \in 0 .. Len(pubs) + 1
      /\ now' \in 0 .. MaxTime /\ CurIdle'
  <2>1. CASE Tick
    <3>1. now' \in 0 .. MaxTime
      BY <2>1, Bounds DEF Tick, TypeOK
    <3>2. QED
      BY <2>1, <3>1 DEF Tick, TypeOK, CurIdle
  <2>2. CASE LoopScan
    BY <1>0, <2>2 DEF LoopScan, TypeOK, CurIdle
  <2>3. CASE ScanEnd
    BY <1>0, <2>3 DEF ScanEnd, TypeOK, CurIdle
  <2>4. CASE YieldEnd
    BY <2>4 DEF YieldEnd, TypeOK, CurIdle
  <2>5. CASE YieldFail
    BY <2>5 DEF YieldFail, TypeOK, CurIdle
  <2>6. CASE Stop \/ LinkLost
    BY <2>6 DEF Stop, LinkLost, TypeOK, CurIdle
  <2>7. CASE Start \/ LoopReconnect
    <3>1. /\ pc' \in {pc, "crashed"} /\ cur' = cur /\ now' = now
      BY <2>7 DEF Start, LoopReconnect, Connect, Connected, Refused
    <3>2. QED
      BY <3>1 DEF TypeOK, CurIdle
  <2>8. QED
    BY <2>1, <2>2, <2>3, <2>4, <2>5, <2>6, <2>7
<1>6. TypeOK'
  BY <1>2, <1>3, <1>4, <1>5 DEF TypeOK
<1>7. (InListOnce /\ OkWasReceived)'
  BY <1>2 DEF InListOnce, OkWasReceived
<1>8. AcksMatch'
  BY <1>1, <1>2 DEF AcksMatch
<1>9. QED
  BY <1>4, <1>5, <1>6, <1>7, <1>8

(* What sending a report does to the ids and the acknowledgements. *)
LEMMA SendFacts ==
  ASSUME IInv, NEW r \in Reports, NEW id \in 0 .. MaxId, Send(r, id)
  PROVE  /\ packetId' \in 1 .. MaxId + 1 /\ packetId <= packetId' /\ id < packetId'
         /\ received \subseteq received' /\ received' \subseteq Reports
         /\ acks' \in Seq(Ack)
         /\ id = 0 \/ id = packetId
         /\ \A a \in DOMAIN acks' :
              \/ a \in DOMAIN acks /\ acks'[a] = acks[a]
              \/ /\ acks'[a].id = id /\ acks'[a].report = r
                 /\ r \in received' /\ id = packetId
<1>0. /\ packetId \in 1 .. MaxId + 1 /\ received \subseteq Reports /\ acks \in Seq(Ack)
      /\ MaxId \in Nat
  BY Bounds DEF IInv, TypeOK, Ack
<1>1. CASE id = 0 /\ UNCHANGED <<packetId, acks, received>>
  BY <1>0, <1>1
<1>2. CASE /\ id = packetId /\ packetId <= MaxId
           /\ packetId' = packetId + 1
           /\ UNCHANGED <<acks, received>>
  BY <1>0, <1>2
<1>3. CASE /\ id = packetId /\ packetId <= MaxId
           /\ packetId' = packetId + 1
           /\ acks' = Append(acks, [id |-> id, report |-> r])
           /\ received' = received \cup {r}
  <2>1. [id |-> id, report |-> r] \in Ack
    BY <1>0, <1>3 DEF Ack
  <2>2. /\ acks' \in Seq(Ack) /\ Len(acks') = Len(acks) + 1
        /\ \A a \in 1 .. Len(acks) : acks'[a] = acks[a]
        /\ acks'[Len(acks) + 1] = [id |-> id, report |-> r]
    BY <1>0, <1>3, <2>1, AppendProperties
  <2>3. /\ Len(acks) \in Nat /\ DOMAIN acks = 1 .. Len(acks)
        /\ DOMAIN acks' = 1 .. Len(acks) + 1
    BY <1>0, <2>2, LenProperties
  <2>4. \A a \in DOMAIN acks' :
          \/ a \in DOMAIN acks /\ acks'[a] = acks[a]
          \/ acks'[a] = [id |-> id, report |-> r]
    BY <2>2, <2>3
  <2>5. r \in received' /\ received \subseteq received' /\ received' \subseteq Reports
    BY <1>0, <1>3
  <2>6. packetId' \in 1 .. MaxId + 1 /\ packetId <= packetId' /\ id < packetId'
    BY <1>0, <1>3
  <2>7. QED
    BY <1>3, <2>2, <2>4, <2>5, <2>6
<1>4. QED
  BY <1>1, <1>2, <1>3 DEF Send

(* A report that is sent keeps ids and acknowledgements in agreement. *)
LEMMA SendKeepsMatch ==
  ASSUME IInv, NEW r \in Reports, NEW id \in 0 .. MaxId, Send(r, id),
         \A i \in DOMAIN pubs' :
           \/ pubs'[i].report = r /\ pubs'[i].id = id
           \/ i \in DOMAIN pubs /\ pubs'[i].id = pubs[i].id /\ pubs'[i].report = pubs[i].report
  PROVE  AcksMatch'
<1>0. packetId \in Nat /\ packetId' \in Nat /\ MaxId \in Nat
  BY SendFacts, Bounds DEF IInv, TypeOK
<1>1. \A a \in DOMAIN acks : acks[a].id \in 1 .. MaxId
  <2>1. acks \in Seq(Ack)
    BY DEF IInv, TypeOK, Ack
  <2>2. \A a \in DOMAIN acks : acks[a] \in Ack
    BY <2>1, ElementOfSeq, LenProperties
  <2>3. QED
    BY <2>2 DEF Ack
<1>2. \A i \in DOMAIN pubs : pubs[i].id \in 0 .. MaxId /\ pubs[i].id < packetId
  <2>1. pubs \in Seq(Pub)
    BY DEF IInv, TypeOK, Pub
  <2>2. \A i \in DOMAIN pubs : pubs[i] \in Pub
    BY <2>1, ElementOfSeq, LenProperties
  <2>3. QED
    BY <2>2 DEF Pub, IInv, AcksMatch
<1>3. ASSUME NEW a \in DOMAIN acks'
      PROVE  /\ acks'[a].report \in received' /\ acks'[a].id < packetId'
             /\ \A i \in DOMAIN pubs' :
                  pubs'[i].id = acks'[a].id => pubs'[i].report = acks'[a].report
  <2>1. CASE a \in DOMAIN acks /\ acks'[a] = acks[a]
    <3>1. acks[a].report \in received /\ acks[a].id < packetId /\ acks[a].id \in 1 .. MaxId
      BY <1>1, <2>1 DEF IInv, AcksMatch
    <3>2. ASSUME NEW i \in DOMAIN pubs', pubs'[i].id = acks'[a].id
          PROVE  pubs'[i].report = acks'[a].report
      <4>1. CASE pubs'[i].report = r /\ pubs'[i].id = id
        BY <1>0, <2>1, <3>1, <3>2, <4>1, SendFacts
      <4>2. CASE i \in DOMAIN pubs /\ pubs'[i].id = pubs[i].id /\ pubs'[i].report = pubs[i].report
        BY <2>1, <3>2, <4>2 DEF IInv, AcksMatch
      <4>3. QED
        BY <4>1, <4>2
    <3>3. acks'[a].report \in received' /\ acks'[a].id < packetId'
      BY <1>0, <2>1, <3>1, SendFacts
    <3>4. QED
      BY <3>2, <3>3
  <2>2. CASE acks'[a].id = id /\ acks'[a].report = r /\ r \in received' /\ id = packetId
    BY <1>0, <1>2, <2>2, SendFacts
  <2>3. QED
    BY <2>1, <2>2, SendFacts
<1>4. \A i \in DOMAIN pubs' : pubs'[i].id < packetId'
  BY <1>0, <1>2, SendFacts
<1>5. QED
  BY <1>3, <1>4 DEF AcksMatch

LEMMA PublishStep ==
  ASSUME IInv, Publish
  PROVE  IInv'
<1> USE DEF serviceVars, brokerVars
<1>1. PICK r \in Reports \ Submitted, id \in 0 .. MaxId :
        /\ Send(r, id)
        /\ pubs' = Append(pubs, [report |-> r, id |-> id, timeout |-> now + Timeout])
  BY DEF Publish, Send
<1> DEFINE e == [report |-> r, id |-> id, timeout |-> now + Timeout]
<1>2. e \in Pub
  BY Bounds DEF IInv, TypeOK, Pub
<1>3. pubs \in Seq(Pub) /\ Len(pubs) \in Nat /\ DOMAIN pubs = 1 .. Len(pubs)
  BY LenProperties DEF IInv, TypeOK, Pub
<1>4. /\ pubs' \in Seq(Pub) /\ Len(pubs') = Len(pubs) + 1
      /\ \A i \in 1 .. Len(pubs) : pubs'[i] = pubs[i]
      /\ pubs'[Len(pubs) + 1] = e
  BY <1>1, <1>2, <1>3, AppendProperties
<1>5. DOMAIN pubs' = 1 .. Len(pubs) + 1
  BY <1>4, LenProperties
<1>6. \A i \in DOMAIN pubs' : \/ i = Len(pubs) + 1 /\ pubs'[i].report = r /\ pubs'[i].id = id
                              \/ i \in DOMAIN pubs /\ pubs'[i] = pubs[i]
  BY <1>3, <1>4, <1>5
<1>7. UNCHANGED <<pc, cur, manual, connected, handlers, unhandled, now, session, sub, answers>>
  BY DEF Publish
<1>8. TypeOK'
  <2>1. cur \in 0 .. Len(pubs') + 1
    BY <1>3, <1>4 DEF IInv, TypeOK
  <2>2. packetId' \in 1 .. MaxId + 1 /\ received' \subseteq Reports /\ acks' \in Seq(Ack)
    BY <1>1, SendFacts
  <2>3. pubs' \in Seq([report : Reports, id : 0 .. MaxId, timeout : Nat])
    BY <1>4 DEF Pub
  <2>4. QED
    BY <1>7, <2>1, <2>2, <2>3 DEF IInv, TypeOK, Ack
<1>9. AcksMatch'
  BY <1>1, <1>6, SendKeepsMatch
<1>10. InListOnce'
  <2>1. answers[r] = <<>> /\ \A i \in DOMAIN pubs : pubs[i].report # r
    BY DEF Submitted
  <2>2. QED
    BY <1>6, <1>7, <2>1 DEF IInv, InListOnce
<1>11. CurIdle' /\ OneHandler'
  BY <1>7 DEF IInv, CurIdle, OneHandler
<1>12. OkWasReceived'
  BY <1>1, <1>7, SendFacts DEF IInv, OkWasReceived
<1>13. QED
  BY <1>8, <1>9, <1>10, <1>11, <1>12 DEF IInv

LEMMA ScanSendStep ==
  ASSUME IInv, ScanSend
  PROVE  IInv'
<1> USE DEF serviceVars, brokerVars
<1>0. /\ pubs \in Seq(Pub) /\ Len(pubs) \in Nat /\ DOMAIN pubs = 1 .. Len(pubs)
      /\ pc = "scan" /\ cur \in 0 .. Len(pubs) + 1 /\ cur <= Len(pubs)
  BY LenProperties DEF IInv, TypeOK, Pub, ScanSend, Scanning
<1>1. /\ UNCHANGED <<pc, manual, connected, handlers, unhandled, now, session, sub, answers>>
      /\ cur' = cur + 1
  BY DEF ScanSend
<1>2. CASE UNCHANGED <<pubs, packetId, acks, received>>
  <2>1. TypeOK'
    <3>1. cur' \in 0 .. Len(pubs') + 1
      BY <1>0, <1>1, <1>2
    <3>2. QED
      BY <1>1, <1>2, <3>1 DEF IInv, TypeOK
  <2>2. (InListOnce /\ AcksMatch /\ OneHandler /\ OkWasReceived)'
    BY <1>1, <1>2 DEF IInv, InListOnce, AcksMatch, OneHandler, OkWasReceived
  <2>3. CurIdle'
    BY <1>0, <1>1 DEF CurIdle
  <2>4. QED
    BY <2>1, <2>2, <2>3 DEF IInv
<1>3. CASE \E id \in 0 .. MaxId : Send(At.report, id) /\ pubs' = [pubs EXCEPT ![cur].id = id]
  <2>1. PICK id \in 0 .. MaxId : Send(At.report, id) /\ pubs' = [pubs EXCEPT ![cur].id = id]
    BY <1>3
  <2>2. cur \in DOMAIN pubs
    BY <1>0 DEF IInv, CurIdle
  <2>3. CASE cur \in DOMAIN pubs
    <3>0. At \in Pub /\ At.report \in Reports
      <4>1. pubs[cur] \in Pub
        BY <1>0, <2>3, ElementOfSeq
      <4>2. QED
        BY <4>1 DEF At, Pub
    <3>1. /\ DOMAIN pubs' = DOMAIN pubs
          /\ \A i \in DOMAIN pubs : i # cur => pubs'[i] = pubs[i]
          /\ pubs'[cur] = [At EXCEPT !.id = id]
      BY <1>0, <2>1, <2>3 DEF At
    <3>2. [At EXCEPT !.id = id] \in Pub
      BY <3>0 DEF Pub
    <3>3. pubs' \in Seq(Pub) /\ Len(pubs') = Len(pubs)
      <4>1. pubs' = [pubs EXCEPT ![cur] = [At EXCEPT !.id = id]]
        BY <2>1 DEF At
      <4>2. QED
        BY <1>0, <2>3, <3>2, <4>1, ExceptSeq
    <3>4. \A i \in DOMAIN pubs : pubs'[i].report = pubs[i].report
      BY <3>0, <3>1 DEF Pub, At
    <3>5. \A i \in DOMAIN pubs' :
            \/ pubs'[i].report = At.report /\ pubs'[i].id = id
            \/ i \in DOMAIN pubs /\ pubs'[i].id = pubs[i].id /\ pubs'[i].report = pubs[i].report
      BY <3>0, <3>1 DEF Pub
    <3>6. AcksMatch'
      BY <2>1, <3>0, <3>5, SendKeepsMatch
    <3>7. /\ packetId' \in 1 .. MaxId + 1 /\ received' \subseteq Reports /\ acks' \in Seq(Ack)
          /\ received \subseteq received'
      BY <2>1, <3>0, SendFacts
    <3>8. TypeOK'
      <4>1. cur' \in 0 .. Len(pubs') + 1
        BY <1>0, <1>1, <3>3
      <4>2. pubs' \in Seq([report : Reports, id : 0 .. MaxId, timeout : Nat])
        BY <3>3 DEF Pub
      <4>3. QED
        BY <1>1, <3>7, <4>1, <4>2 DEF IInv, TypeOK, Ack
    <3>9. InListOnce'
      BY <1>1, <3>1, <3>4 DEF IInv, InListOnce
    <3>10. (OneHandler /\ OkWasReceived)'
      BY <1>1, <3>7 DEF IInv, OneHandler, OkWasReceived
    <3>11. CurIdle'
      BY <1>0, <1>1 DEF CurIdle
    <3>12. QED
      BY <3>6, <3>8, <3>9, <3>10, <3>11 DEF IInv
  <2>4. QED
    BY <2>2, <2>3
<1>4. QED
  BY <1>2, <1>3 DEF ScanSend

(* An entry is answered and leaves the list. *)
LEMMA Answered ==
  ASSUME IInv, NEW k \in DOMAIN pubs, NEW result \in {"OK", "TIMEOUT"},
         Answer(pubs[k].report, result), pubs' = Without(pubs, k)
  PROVE  /\ pubs' \in Seq(Pub) /\ Len(pubs') = Len(pubs) - 1
         /\ answers' \in [Reports -> Seq({"OK", "TIMEOUT"})]
         /\ \A i \in DOMAIN pubs' : \E j \in DOMAIN pubs : pubs'[i] = pubs[j]
         /\ answers'[pubs[k].report] = <<result>>
         /\ \A r \in Reports : r # pubs[k].report => answers'[r] = answers[r]
         /\ InListOnce'
<1>0. /\ pubs \in Seq(Pub) /\ Len(pubs) \in Nat /\ DOMAIN pubs = 1 .. Len(pubs)
      /\ k \in 1 .. Len(pubs)
  BY LenProperties DEF IInv, TypeOK, Pub
<1>1. /\ pubs' \in Seq(Pub) /\ Len(pubs') = Len(pubs) - 1
      /\ \A i \in 1 .. Len(pubs) - 1 : pubs'[i] = IF i < k THEN pubs[i] ELSE pubs[i + 1]
  BY <1>0, WithoutFacts
<1>2. DOMAIN pubs' = 1 .. Len(pubs) - 1
  BY <1>1, LenProperties
<1> DEFINE from(i) == IF i < k THEN i ELSE i + 1
<1>3. \A i \in DOMAIN pubs' : from(i) \in DOMAIN pubs /\ from(i) # k /\ pubs'[i] = pubs[from(i)]
  BY <1>0, <1>1, <1>2
<1>4. \A i, j \in DOMAIN pubs' : from(i) = from(j) => i = j
  BY <1>0, <1>2
<1> HIDE DEF from
<1>5. pubs[k].report \in Reports
  <2>1. pubs[k] \in Pub
    BY <1>0, ElementOfSeq
  <2>2. QED
    BY <2>1 DEF Pub
<1>6. answers[pubs[k].report] = <<>>
  BY DEF IInv, InListOnce
<1>7. answers \in [Reports -> Seq({"OK", "TIMEOUT"})]
  BY DEF IInv, TypeOK
<1>8. /\ <<>> \in Seq({"OK", "TIMEOUT"}) /\ Len(<<>>) = 0
  BY EmptySeq
<1>9. Append(<<>>, result) = <<result>> /\ <<result>> \in Seq({"OK", "TIMEOUT"}) /\ Len(<<result>>) = 1
  OBVIOUS
<1>10. answers' = [answers EXCEPT ![pubs[k].report] = <<result>>]
  BY <1>5, <1>6, <1>7, <1>9 DEF Answer
<1>11. /\ answers' \in [Reports -> Seq({"OK", "TIMEOUT"})]
       /\ answers'[pubs[k].report] = <<result>>
       /\ \A r \in Reports : r # pubs[k].report => answers'[r] = answers[r]
  BY <1>5, <1>7, <1>9, <1>10
<1>12. InListOnce'
  <2>1. \A i, j \in DOMAIN pubs' : pubs'[i].report = pubs'[j].report => i = j
    BY <1>3, <1>4 DEF IInv, InListOnce
  <2>2. ASSUME NEW i \in DOMAIN pubs'
        PROVE  answers'[pubs'[i].report] = <<>>
    <3>1. from(i) \in DOMAIN pubs /\ from(i) # k /\ pubs'[i] = pubs[from(i)]
      BY <1>3
    <3>2. pubs[from(i)].report # pubs[k].report /\ answers[pubs[from(i)].report] = <<>>
      BY <3>1 DEF IInv, InListOnce
    <3>3. pubs[from(i)].report \in Reports
      <4>1. pubs[from(i)] \in Pub
        BY <1>0, <3>1, ElementOfSeq
      <4>2. QED
        BY <4>1 DEF Pub
    <3>4. QED
      BY <1>11, <3>1, <3>2, <3>3
  <2>3. \A r \in Reports : Len(answers'[r]) <= 1
    <3>1. ASSUME NEW r \in Reports PROVE Len(answers'[r]) <= 1
      <4>1. CASE r = pubs[k].report
        <5>1. answers'[r] = <<result>>
          BY <1>11, <4>1, Zenon
        <5>2. Len(answers'[r]) = 1
          BY <1>9, <5>1, Zenon
        <5>3. QED
          BY <5>2
      <4>2. CASE r # pubs[k].report
        BY <1>11, <4>2 DEF IInv, InListOnce
      <4>3. QED
        BY <4>1, <4>2
    <3>2. QED
      BY <3>1
  <2>4. QED
    BY <2>1, <2>2, <2>3 DEF InListOnce
<1>13. \A i \in DOMAIN pubs' : \E j \in DOMAIN pubs : pubs'[i] = pubs[j]
  BY <1>3
<1>14. QED
  BY <1>1, <1>11, <1>12, <1>13

LEMMA ScanTimeoutStep ==
  ASSUME IInv, ScanTimeout
  PROVE  IInv'
<1> USE DEF serviceVars, brokerVars
<1>0. /\ pubs \in Seq(Pub) /\ Len(pubs) \in Nat /\ DOMAIN pubs = 1 .. Len(pubs)
      /\ pc = "scan" /\ cur \in 0 .. Len(pubs) + 1 /\ cur <= Len(pubs) /\ cur > 0
  BY LenProperties DEF IInv, TypeOK, Pub, ScanTimeout, Scanning, CurIdle
<1>1. /\ cur \in DOMAIN pubs
      /\ Answer(pubs[cur].report, "TIMEOUT") /\ pubs' = Without(pubs, cur)
      /\ UNCHANGED <<manual, connected, handlers, unhandled, packetId, now, session, sub, acks, received>>
  <2>1. cur \in DOMAIN pubs
    BY <1>0
  <2>2. Answer(pubs[cur].report, "TIMEOUT") /\ pubs' = Without(pubs, cur)
    BY Zenon DEF ScanTimeout, At
  <2>3. UNCHANGED <<manual, connected, handlers, unhandled, packetId, now, session, sub, acks, received>>
    BY DEF ScanTimeout
  <2>4. QED
    BY <2>1, <2>2, <2>3
<1>2. /\ pubs' \in Seq(Pub) /\ Len(pubs') = Len(pubs) - 1
      /\ answers' \in [Reports -> Seq({"OK", "TIMEOUT"})]
      /\ \A i \in DOMAIN pubs' : \E j \in DOMAIN pubs : pubs'[i] = pubs[j]
      /\ answers'[pubs[cur].report] = <<"TIMEOUT">>
      /\ \A r \in Reports : r # pubs[cur].report => answers'[r] = answers[r]
      /\ InListOnce'
  BY <1>1, Answered
<1>3. /\ pc' \in {"scan", "crashed"} /\ cur' \in 0 .. Len(pubs') + 1
      /\ pc' = "scan" => cur' > 0
  <2>1. CASE cur = Len(pubs)
    <3>1. pc' = "crashed" /\ cur' = cur
      BY <2>1 DEF ScanTimeout
    <3>2. QED
      BY <1>0, <1>2, <2>1, <3>1
  <2>2. CASE cur # Len(pubs)
    <3>1. pc' = pc /\ cur' = cur + 1
      BY <2>2 DEF ScanTimeout
    <3>2. QED
      <4>1. Len(pubs') = Len(pubs) - 1
        BY <1>2
      <4>2. pc = "scan" /\ Len(pubs) \in Nat /\ cur \in 0 .. Len(pubs) + 1 /\ cur <= Len(pubs)
        BY <1>0, Zenon
      <4> DEFINE n == Len(pubs)
                 m == Len(pubs')
      <4>3. n \in Nat /\ cur \in 0 .. n + 1 /\ cur <= n /\ cur # n /\ m = n - 1
        BY <2>2, <4>1, <4>2, Zenon
      <4> HIDE DEF n, m
      <4>4. cur + 1 \in 0 .. m + 1 /\ cur + 1 > 0
        BY <4>3
      <4>5. cur' \in 0 .. m + 1 /\ cur' > 0 /\ pc' = "scan"
        BY <3>1, <4>2, <4>4
      <4>6. QED
        BY <4>5 DEF m
  <2>3. QED
    BY <2>1, <2>2
<1>4. TypeOK'
  <2>1. pubs' \in Seq([report : Reports, id : 0 .. MaxId, timeout : Nat])
    BY <1>2 DEF Pub
  <2>2. QED
    BY <1>1, <1>2, <1>3, <2>1 DEF IInv, TypeOK
<1>5. CurIdle' /\ OneHandler'
  BY <1>1, <1>3 DEF IInv, CurIdle, OneHandler
<1>6. AcksMatch'
  BY <1>1, <1>2 DEF IInv, AcksMatch
<1>7. OkWasReceived'
  <2>1. <<"TIMEOUT">> # <<"OK">>
    OBVIOUS
  <2>2. QED
    BY <1>1, <1>2, <2>1 DEF IInv, OkWasReceived
<1>8. QED
  BY <1>2, <1>4, <1>5, <1>6, <1>7 DEF IInv

LEMMA PubackStep ==
  ASSUME IInv, Puback
  PROVE  IInv'
<1> USE DEF serviceVars, brokerVars
<1>0. /\ pubs \in Seq(Pub) /\ Len(pubs) \in Nat /\ DOMAIN pubs = 1 .. Len(pubs)
      /\ acks \in Seq(Ack) /\ acks # <<>> /\ pc = "yield" /\ cur = 0
  BY LenProperties DEF IInv, TypeOK, Pub, Ack, Puback, CurIdle
<1>1. /\ acks' \in Seq(Ack) /\ Len(acks) \in Nat
      /\ DOMAIN acks = 1 .. Len(acks) /\ DOMAIN acks' = 1 .. Len(acks) - 1
      /\ \A a \in 1 .. Len(acks) - 1 : acks'[a] = acks[a + 1]
  <2>1. acks' = Tail(acks)
    BY DEF Puback
  <2>2. /\ Tail(acks) \in Seq(Ack) /\ Len(Tail(acks)) = Len(acks) - 1
        /\ \A a \in 1 .. Len(acks) - 1 : Tail(acks)[a] = acks[a + 1]
    BY <1>0, HeadTailProperties
  <2>3. QED
    BY <1>0, <2>1, <2>2, LenProperties
<1>2. \A a \in DOMAIN acks' : \E b \in DOMAIN acks : acks'[a] = acks[b]
  <2>1. \A a \in DOMAIN acks' : a + 1 \in DOMAIN acks /\ acks'[a] = acks[a + 1]
    BY <1>1
  <2>2. QED
    BY <2>1
<1>3. 1 \in DOMAIN acks /\ Head(acks) = acks[1]
  BY <1>0, <1>1
<1>4. UNCHANGED <<pc, cur, manual, connected, handlers, unhandled, packetId, now, session, sub, received>>
  BY DEF Puback
<1>5. CurIdle' /\ OneHandler'
  BY <1>4 DEF IInv, CurIdle, OneHandler
<1>6. CASE UNCHANGED <<pubs, answers>>
  <2>1. TypeOK'
    BY <1>1, <1>4, <1>6 DEF IInv, TypeOK, Ack
  <2>2. InListOnce' /\ OkWasReceived'
    BY <1>4, <1>6 DEF IInv, InListOnce, OkWasReceived
  <2>3. AcksMatch'
    BY <1>2, <1>4, <1>6 DEF IInv, AcksMatch
  <2>4. QED
    BY <1>5, <2>1, <2>2, <2>3 DEF IInv
<1>7. CASE \E i \in Matching(Head(acks).id) :
             Answer(pubs[i].report, "OK") /\ pubs' = Without(pubs, i)
  <2>1. PICK k \in Matching(Head(acks).id) :
          Answer(pubs[k].report, "OK") /\ pubs' = Without(pubs, k)
    BY <1>7
  <2>2. k \in DOMAIN pubs /\ pubs[k].id = acks[1].id
    BY <1>3 DEF Matching
  <2>3. pubs[k].report \in received
    BY <1>3, <2>2 DEF IInv, AcksMatch
  <2>4. /\ pubs' \in Seq(Pub) /\ Len(pubs') = Len(pubs) - 1
        /\ answers' \in [Reports -> Seq({"OK", "TIMEOUT"})]
        /\ \A i \in DOMAIN pubs' : \E j \in DOMAIN pubs : pubs'[i] = pubs[j]
        /\ answers'[pubs[k].report] = <<"OK">>
        /\ \A r \in Reports : r # pubs[k].report => answers'[r] = answers[r]
        /\ InListOnce'
    BY <2>1, <2>2, Answered
  <2>5. TypeOK'
    <3>1. pubs' \in Seq([report : Reports, id : 0 .. MaxId, timeout : Nat])
      BY <2>4 DEF Pub
    <3>2. acks' \in Seq([id : 1 .. MaxId, report : Reports])
      BY <1>1 DEF Ack
    <3>3. cur' \in 0 .. Len(pubs') + 1
      BY <1>0, <1>4, <2>2, <2>4
    <3>4. QED
      BY <1>4, <2>4, <3>1, <3>2, <3>3 DEF IInv, TypeOK
  <2>6. OkWasReceived'
    BY <1>4, <2>3, <2>4 DEF IInv, OkWasReceived
  <2>7. AcksMatch'
    <3>1. \A a \in DOMAIN acks' : acks'[a].report \in received' /\ acks'[a].id < packetId'
      BY <1>2, <1>4 DEF IInv, AcksMatch
    <3>2. \A i \in DOMAIN pubs' : pubs'[i].id < packetId'
      BY <1>4, <2>4 DEF IInv, AcksMatch
    <3>3. ASSUME NEW a \in DOMAIN acks', NEW i \in DOMAIN pubs', pubs'[i].id = acks'[a].id
          PROVE  pubs'[i].report = acks'[a].report
      <4>1. PICK b \in DOMAIN acks : acks'[a] = acks[b]
        BY <1>2
      <4>2. PICK j \in DOMAIN pubs : pubs'[i] = pubs[j]
        BY <2>4
      <4>3. QED
        BY <3>3, <4>1, <4>2 DEF IInv, AcksMatch
    <3>4. QED
      BY <3>1, <3>2, <3>3 DEF AcksMatch
  <2>8. QED
    BY <1>5, <2>4, <2>5, <2>6, <2>7 DEF IInv
<1>8. QED
  BY <1>6, <1>7 DEF Puback

LEMMA InvNext == IInv /\ [Next]_vars => IInv'
<1> SUFFICES ASSUME IInv, [Next]_vars PROVE IInv'
  OBVIOUS
<1>1. CASE Publish
  BY <1>1, PublishStep
<1>2. CASE ScanSend
  BY <1>2, ScanSendStep
<1>3. CASE ScanTimeout
  BY <1>3, ScanTimeoutStep
<1>4. CASE Puback
  BY <1>4, PubackStep
<1>5. CASE \/ Start \/ Stop \/ LoopReconnect \/ LoopScan \/ ScanEnd
           \/ YieldEnd \/ YieldFail \/ Tick \/ LinkLost
  <2>1. UNCHANGED <<pubs, answers>>
    BY <1>5 DEF Start, Stop, LoopReconnect, LoopScan, ScanEnd, YieldEnd, YieldFail, Tick, LinkLost
  <2>2. QED
    BY <1>5, <2>1, QuietSteps
<1>6. CASE UNCHANGED vars
  BY <1>6 DEF vars, serviceVars, brokerVars, IInv, TypeOK, CurIdle, OneHandler, InListOnce,
              AcksMatch, OkWasReceived
<1>7. QED
  BY <1>1, <1>2, <1>3, <1>4, <1>5, <1>6 DEF Next, Application, Loop

LEMMA InductiveInvariant == Spec => []IInv
BY InvInit, InvNext, PTL DEF Spec

-----------------------------------------------------------------------------
(* TypeOK for any constants: the variables of the service keep their types, *)
(* and tuya_mqtt_loop never scans past the end of its list.                 *)
THEOREM TypeCorrect == Spec => []TypeOK
<1>1. IInv => TypeOK
  BY DEF IInv
<1>2. QED
  BY <1>1, InductiveInvariant, PTL

(* OneHandler for any number of sessions: the repetition filter of the      *)
(* subscription keeps at most one entry for the device's topic, and while   *)
(* the broker sends there is one unless the allocation of the entry failed  *)
(* in this very session (mqtt_service.c:186-222, :360).                     *)
THEOREM HandlerCorrect == Spec => []OneHandler
<1>1. IInv => OneHandler
  BY DEF IInv
<1>2. QED
  BY <1>1, InductiveInvariant, PTL

(* OkWasReceived: an answer of OPRT_OK is never another report's.           *)
THEOREM OkCorrect == Spec => []OkWasReceived
<1>1. IInv => OkWasReceived
  BY DEF IInv
<1>2. QED
  BY <1>1, InductiveInvariant, PTL

(* OneAnswerEach: a report with a callback is waited for once or has had    *)
(* its one answer, of the acknowledgement or of the timeout.                *)
THEOREM AnswerCorrect == Spec => []OneAnswerEach
<1>1. IInv => OneAnswerEach
  <2> SUFFICES ASSUME IInv, NEW r \in Submitted
               PROVE  Len(answers[r]) + Cardinality({i \in DOMAIN pubs : pubs[i].report = r}) = 1
    BY DEF OneAnswerEach
  <2> DEFINE places == {i \in DOMAIN pubs : pubs[i].report = r}
  <2>0. r \in Reports /\ answers[r] \in Seq({"OK", "TIMEOUT"})
    BY DEF Submitted, IInv, TypeOK
  <2>1. CASE places = {}
    <3>1. answers[r] # <<>>
      BY <2>1 DEF Submitted
    <3>2. Len(answers[r]) \in Nat /\ Len(answers[r]) # 0
      BY <2>0, <3>1, EmptySeq, LenProperties
    <3>3. Len(answers[r]) = 1
      <4>1. Len(answers[r]) <= 1
        BY <2>0, Zenon DEF IInv, InListOnce
      <4> DEFINE n == Len(answers[r])
      <4>2. n \in Nat /\ n # 0 /\ n <= 1
        BY <3>2, <4>1
      <4> HIDE DEF n
      <4>3. n = 1
        BY <4>2
      <4>4. QED
        BY <4>3 DEF n
    <3>4. Cardinality(places) = 0
      BY <2>1, FS_EmptySet
    <3>5. QED
      BY <3>3, <3>4
  <2>2. CASE places # {}
    <3>1. PICK i \in DOMAIN pubs : pubs[i].report = r
      BY <2>2
    <3>2. places = {i}
      BY <3>1 DEF IInv, InListOnce
    <3>3. Cardinality(places) = 1
      BY <3>2, FS_Singleton
    <3>4. answers[r] = <<>>
      BY <3>1 DEF IInv, InListOnce
    <3>5. QED
      BY <3>3, <3>4, EmptySeq
  <2>3. QED
    BY <2>1, <2>2
<1>2. QED
  BY <1>1, InductiveInvariant, PTL

===============================================================================
