---------------------------- MODULE IotClientProofs ----------------------------
(***************************************************************************)
(* Proofs about IotClient, for any number of credentials, calls, faults and *)
(* power failures.  Two inductive invariants: IInv, for the types, the       *)
(* storage and the session together, and on top of it IdKept, for the id.   *)
(***************************************************************************)
EXTENDS IotClient, FiniteSetTheorems, TLAPS

(* A client that waits for a token or activates is not activated. *)
NotYet == client.next \in {"token_pending", "activating"} => ~client.activated

(* The states in which the MQTT context is in use. *)
Online == {"mqtt_connect_start", "mqtt_connecting", "mqtt_yield", "mqtt_reconnect"}

(* What is true of a client that is online, or may be called to reconnect.  *)
Belongs ==
  /\ client.next = "idle" => client.state \in {"idle", "stop"}
  /\ ~removed =>
       /\ client.state = "idle" => client.mq # "up"
       /\ client.next \in Online \cup {"startup_update"} => client.activated
       /\ client.next \in {"mqtt_connecting", "mqtt_yield"} => client.mqKey = client.cred.key
       /\ client.next \in Online /\ client.mq # "none" => client.mqKey = client.cred.key
       /\ client.state = "mqtt_yield" => client.activated /\ client.mqKey = client.cred.key

(* There is an id d such that all the cloud has issued is d, and d is kept. *)
Kept(d) ==
  /\ cloud.ids \subseteq {d}
  /\ client.cred.id \in {0, d} /\ store.devid \in {0, d} /\ store.record.id \in {0, d}
  /\ cloud.ids # {} => store.devid = d \/ store.record.id = d
  /\ cloud.ids = {} => client.cred.id = 0 /\ store.devid = 0 /\ store.record = NoCred

IdKept == ~forgot => \E d \in Nat \ {0} : Kept(d)

-----------------------------------------------------------------------------
LEMMA TypeInit == Init => TypeOK
<1> SUFFICES ASSUME Init PROVE TypeOK
  OBVIOUS
<1>1. client = [state |-> "idle", next |-> "idle", activated |-> FALSE, cred |-> NoCred,
                token |-> "none", mq |-> "none", mqKey |-> 0]
  BY DEF Init, Fresh
<1>2. client \in [state : States, next : States, activated : BOOLEAN, cred : Cred \cup {NoCred},
                  token : {"none", "good", "spent"}, mq : MqStates, mqKey : Nat]
  BY <1>1 DEF States, MqStates
<1>3. store \in [record : Cred \cup {NoCred}, devid : Nat]
  BY DEF Init
<1>4. cloud \in [issued : Nat, ids : SUBSET (Nat \ {0}), bound : Nat]
  BY DEF Init
<1>5. upset \in BOOLEAN /\ removed \in BOOLEAN /\ forgot \in BOOLEAN
  BY DEF Init
<1>6. QED
  BY <1>1, <1>2, <1>3, <1>4, <1>5 DEF TypeOK

(* What is read is a credential or what was there before. *)
LEMMA ReadsType ==
  ASSUME NEW s, NEW before \in Cred \cup {NoCred}, s.record \in Cred \cup {NoCred},
         NEW r \in Reads(s, before)
  PROVE  /\ r.ok \in BOOLEAN /\ r.cred \in Cred \cup {NoCred} /\ r.faults \in {0, 1}
         /\ r.faults = 0 => /\ r.ok <=> s.record # NoCred
                            /\ r.ok => r.cred = s.record
         /\ r.cred \in {before, s.record}
<1>1. CASE r = [ok |-> s.record # NoCred,
                cred |-> IF s.record # NoCred THEN s.record ELSE before, faults |-> 0]
  <2>1. /\ r.ok = (s.record # NoCred) /\ r.faults = 0
        /\ r.cred = IF s.record # NoCred THEN s.record ELSE before
    BY <1>1
  <2>2. QED
    BY <2>1
<1>2. CASE \E ok \in BOOLEAN : r = [ok |-> ok, cred |-> before, faults |-> 1]
  <2>1. r.ok \in BOOLEAN /\ r.cred = before /\ r.faults = 1
    BY <1>2
  <2>2. QED
    BY <2>1
<1>3. QED
  BY <1>1, <1>2 DEF Reads

(* After a power failure the client is idle, with what was read. *)
LEMMA BootFacts ==
  ASSUME NEW STATE s, s.record \in Cred \cup {NoCred}, upset \in BOOLEAN, Boot(s)
  PROVE  /\ store' = s
         /\ client'.state = "idle" /\ client'.next = "idle" /\ client'.mq = "none"
         /\ client'.token = "none" /\ client'.mqKey = 0
         /\ client'.cred \in {NoCred, s.record}
         /\ client' \in [state : States, next : States, activated : BOOLEAN,
                         cred : Cred \cup {NoCred}, token : {"none", "good", "spent"},
                         mq : MqStates, mqKey : Nat]
         /\ upset' \in BOOLEAN
         /\ ~upset' => /\ ~upset /\ (client'.activated <=> s.record # NoCred)
                       /\ client'.activated => client'.cred = s.record
<1>1. NoCred \in Cred \cup {NoCred}
  OBVIOUS
<1>2. PICK r \in Reads(s, NoCred) :
        /\ upset' = (upset \/ r.faults = 1)
        /\ client' = [Fresh EXCEPT !.activated = r.ok, !.cred = r.cred]
        /\ store' = s
  BY DEF Boot
<1>3. /\ r.ok \in BOOLEAN /\ r.cred \in Cred \cup {NoCred} /\ r.faults \in {0, 1}
      /\ r.faults = 0 => /\ r.ok <=> s.record # NoCred
                         /\ r.ok => r.cred = s.record
      /\ r.cred \in {NoCred, s.record}
  BY <1>1, ReadsType
<1>4. client' = [state |-> "idle", next |-> "idle", activated |-> r.ok, cred |-> r.cred,
                 token |-> "none", mq |-> "none", mqKey |-> 0]
  BY <1>2 DEF Fresh
<1>5. client' \in [state : States, next : States, activated : BOOLEAN,
                   cred : Cred \cup {NoCred}, token : {"none", "good", "spent"},
                   mq : MqStates, mqKey : Nat]
  BY <1>3, <1>4 DEF States, MqStates
<1>6. upset' \in BOOLEAN /\ (~upset' => ~upset /\ r.faults = 0)
  <2>1. CASE upset \/ r.faults = 1
    BY <1>2, <2>1, Zenon
  <2>2. CASE ~upset /\ r.faults = 0
    <3>1. r.faults # 1
      BY <2>2
    <3>2. QED
      BY <1>2, <2>2, <3>1, Zenon
  <2>3. QED
    BY <1>3, <2>1, <2>2, Zenon
<1>7. /\ client'.state = "idle" /\ client'.next = "idle" /\ client'.mq = "none"
      /\ client'.token = "none" /\ client'.mqKey = 0 /\ client'.cred = r.cred
  BY <1>4
<1>8. client'.activated = r.ok
  BY <1>4
<1>9. QED
  BY <1>2, <1>3, <1>5, <1>6, <1>7, <1>8

(* A new credential, and what the cloud knows of it. *)
LEMMA IssuesFacts ==
  ASSUME TypeOK, NEW c \in NewCreds, NEW o \in Offers, Issues(c, o)
  PROVE  /\ c \in Cred /\ c # NoCred /\ c.id # 0
         /\ cloud'.ids = cloud.ids \cup {c.id}
         /\ o # 0 => c.id = o /\ o = store.devid
         /\ client.token = "good"
<1>1. /\ c.key \in Nat \ {0} /\ c.id \in Nat \ {0}
      /\ c = [id |-> c.id, key |-> c.key]
  BY IotAssumption DEF Issues, NewCreds, TypeOK, Offers
<1>2. c \in Cred
  BY <1>1 DEF Cred
<1>3. c # NoCred
  BY <1>1 DEF NoCred
<1>4. QED
  BY <1>1, <1>2, <1>3 DEF Issues, TypeOK, Offers

LEMMA IssuesType ==
  ASSUME TypeOK, NEW c \in NewCreds, NEW o \in Offers, Issues(c, o)
  PROVE  cloud' \in [issued : Nat, ids : SUBSET (Nat \ {0}), bound : Nat]
<1>1. /\ c.key \in Nat /\ c.id \in Nat \ {0}
      /\ cloud' = [issued |-> c.key, ids |-> cloud.ids \cup {c.id}, bound |-> c.key]
      /\ cloud.ids \cup {c.id} \in SUBSET (Nat \ {0})
  BY IotAssumption, IssuesFacts DEF Issues, NewCreds, TypeOK
<1>2. QED
  BY <1>1

IInv == TypeOK /\ NotYet /\ StorageAgrees /\ Belongs /\ OneSession

(* The yields that touch neither storage nor the cloud. *)
LEMMA PlainYields ==
  ASSUME IInv,
         \/ Idle \/ Start \/ Restart \/ DataLoad \/ TokenPending \/ StartupUpdate
         \/ Answered \/ Unanswered \/ CannotStart \/ Connected \/ YieldQuiet
         \/ YieldLost \/ YieldOrder \/ Stop \/ Reconnect
  PROVE  IInv' /\ UNCHANGED <<store, cloud, history>> /\ client'.cred = client.cred
<1> USE DEF IInv, TypeOK, NotYet, StorageAgrees, Belongs, Online, OneSession, States, MqStates,
            At, Then, Moves, history
<1>1. CASE Idle
  BY <1>1, ZenonT(60) DEF Idle
<1>2. CASE Start
  BY <1>2, ZenonT(60) DEF Start
<1>3. CASE Restart
  BY <1>3, ZenonT(60) DEF Restart
<1>4. CASE DataLoad
  <2>1. client.next = "data_load" /\ UNCHANGED <<store, cloud, history>>
    BY <1>4 DEF DataLoad
  <2>2. CASE client.activated /\ Moves("startup_update")
    BY <2>1, <2>2
  <2>3. CASE ~client.activated /\ TokenGone("token_pending")
    <3>1. client' = [client EXCEPT !.token = "none", !.state = client.next, !.next = "token_pending"]
      BY <2>3 DEF TokenGone
    <3>2. QED
      BY <2>1, <2>3, <3>1
  <2>4. CASE ~client.activated /\ TokenGone("data_load")
    <3>1. client' = [client EXCEPT !.token = "none", !.state = client.next, !.next = "data_load"]
      BY <2>4 DEF TokenGone
    <3>2. QED
      BY <2>1, <2>4, <3>1
  <2>5. QED
    BY <1>4, <2>2, <2>3, <2>4 DEF DataLoad
<1>5. CASE TokenPending
  <2>1. client.next = "token_pending" /\ UNCHANGED <<store, cloud, history>>
    BY <1>5 DEF TokenPending
  <2>2. CASE Moves("token_pending")
    BY <2>1, <2>2
  <2>3. CASE \E t \in {"good", "spent"} : client' = Then([client EXCEPT !.token = t], "activating")
    <3>1. PICK t \in {"good", "spent"} : client' = Then([client EXCEPT !.token = t], "activating")
      BY <2>3
    <3>2. client' = [client EXCEPT !.token = t, !.state = client.next, !.next = "activating"]
      BY <3>1
    <3>3. QED
      BY <2>1, <3>2, ZenonT(60)
  <2>4. QED
    BY <1>5, <2>2, <2>3 DEF TokenPending
<1>6. CASE StartupUpdate
  <2>1. client.next = "startup_update" /\ UNCHANGED <<store, cloud, history>>
    BY <1>6 DEF StartupUpdate
  <2>2. CASE client' = Then([client EXCEPT !.mq = "manual", !.mqKey = client.cred.key],
                            "mqtt_connect_start")
    <3>1. client.cred.key \in Nat
      BY DEF Cred, NoCred
    <3>2. client' = [client EXCEPT !.mq = "manual", !.mqKey = client.cred.key,
                                   !.state = client.next, !.next = "mqtt_connect_start"]
      BY <2>2
    <3>3. QED
      BY <2>1, <3>1, <3>2, ZenonT(60)
  <2>3. CASE client' = Then([client EXCEPT !.mq = "none", !.mqKey = 0], "mqtt_connect_start")
    <3>1. client' = [client EXCEPT !.mq = "none", !.mqKey = 0,
                                   !.state = client.next, !.next = "mqtt_connect_start"]
      BY <2>3
    <3>2. QED
      BY <2>1, <3>1, ZenonT(60)
  <2>4. QED
    BY <1>6, <2>2, <2>3 DEF StartupUpdate
<1>7. CASE Answered
  <2>1. PICK next \in States :
          /\ Connecting(next)
          /\ client' = Then([client EXCEPT !.mq = IF Accepted THEN "up" ELSE "down"],
                            IF Accepted THEN next ELSE "reset")
    BY <1>7 DEF Answered
  <2>2. UNCHANGED <<store, cloud, history>>
    BY <1>7 DEF Answered
  <2>3. CASE Accepted
    <3>1. client' = [client EXCEPT !.mq = "up", !.state = client.next, !.next = next]
      BY <2>1, <2>3
    <3>2. CASE client.next = "mqtt_connect_start" /\ client.mq # "none" /\ next = "mqtt_connecting"
      BY <2>1, <2>2, <3>1, <3>2, ZenonT(60)
    <3>3. CASE client.next = "mqtt_yield" /\ client.mq = "down" /\ next = "mqtt_yield"
      BY <2>1, <2>2, <3>1, <3>3, ZenonT(60)
    <3>4. QED
      BY <2>1, <3>2, <3>3 DEF Connecting
  <2>4. CASE ~Accepted
    <3>1. client' = [client EXCEPT !.mq = "down", !.state = client.next, !.next = "reset"]
      BY <2>1, <2>4
    <3>2. CASE client.next = "mqtt_connect_start" /\ client.mq # "none" /\ next = "mqtt_connecting"
      BY <2>1, <2>2, <3>1, <3>2, ZenonT(60)
    <3>3. CASE client.next = "mqtt_yield" /\ client.mq = "down" /\ next = "mqtt_yield"
      BY <2>1, <2>2, <3>1, <3>3, ZenonT(60)
    <3>4. QED
      BY <2>1, <3>2, <3>3 DEF Connecting
  <2>5. QED
    BY <2>3, <2>4
<1>8. CASE Unanswered
  BY <1>8, ZenonT(60) DEF Unanswered, Connecting
<1>9. CASE CannotStart
  BY <1>9 DEF CannotStart
<1>10. CASE Connected
  BY <1>10, ZenonT(60) DEF Connected
<1>11. CASE YieldQuiet
  BY <1>11, ZenonT(60) DEF YieldQuiet
<1>12. CASE YieldLost
  BY <1>12 DEF YieldLost
<1>13. CASE YieldOrder
  BY <1>13 DEF YieldOrder, Accepted
<1>14. CASE Stop
  <2>1. client.next = "stop" /\ UNCHANGED <<store, cloud, history>>
    BY <1>14 DEF Stop
  <2>2. CASE client.mq = "none"
    <3>1. client' = [client EXCEPT !.state = client.next, !.next = "idle"]
      BY <1>14, <2>2 DEF Stop, Stopped
    <3>2. QED
      BY <2>1, <2>2, <3>1
  <2>3. CASE client.mq # "none"
    <3>1. client' = [client EXCEPT !.mq = "manual", !.state = client.next, !.next = "idle"]
      BY <1>14, <2>3 DEF Stop, Stopped
    <3>2. QED
      BY <2>1, <3>1
  <2>4. QED
    BY <2>2, <2>3
<1>15. CASE Reconnect
  <2>1. client.next = "mqtt_reconnect" /\ UNCHANGED <<store, cloud, history>>
    BY <1>15 DEF Reconnect
  <2>2. CASE client.mq = "none"
    <3>1. client' = [client EXCEPT !.state = client.next, !.next = "mqtt_connect_start"]
      BY <1>15, <2>2 DEF Reconnect, Stopped
    <3>2. QED
      BY <2>1, <2>2, <3>1
  <2>3. CASE client.mq # "none"
    <3>1. client' = [client EXCEPT !.mq = "manual", !.state = client.next,
                                   !.next = "mqtt_connect_start"]
      BY <1>15, <2>3 DEF Reconnect, Stopped
    <3>2. QED
      BY <2>1, <2>3, <3>1, ZenonT(60)
  <2>4. QED
    BY <2>2, <2>3
<1>16. QED
  BY <1>1, <1>2, <1>3, <1>4, <1>5, <1>6, <1>7, <1>8, <1>9, <1>10, <1>11, <1>12, <1>13,
     <1>14, <1>15

(* The yields that activate: what they leave, and that the invariant holds. *)
LEMMA ActivateFailsFacts ==
  ASSUME IInv, ActivateFails
  PROVE  /\ IInv' /\ client'.cred = client.cred /\ UNCHANGED store
         /\ \/ UNCHANGED <<cloud, forgot>>
            \/ \E c \in NewCreds, o \in Offers : Issues(c, o) /\ Unsaved(o)
<1> USE DEF IInv, TypeOK, NotYet, StorageAgrees, Belongs, Online, OneSession, States, MqStates,
            At, Moves, history
<1>1. client.next = "activating" /\ UNCHANGED <<store, upset, removed>>
  BY DEF ActivateFails
<1>2. CASE Moves("restart") /\ UNCHANGED <<cloud, history>>
  <2>1. client' = [client EXCEPT !.state = client.next, !.next = "restart"]
    BY <1>2 DEF Then
  <2>2. UNCHANGED <<cloud, forgot>>
    BY <1>2
  <2>3. TypeOK' /\ client'.cred = client.cred
    BY <1>1, <2>1, <2>2
  <2>4. (NotYet /\ StorageAgrees /\ Belongs /\ OneSession)'
    BY <1>1, <2>1
  <2>5. QED
    BY <1>1, <2>2, <2>3, <2>4
<1>3. CASE client.token = "spent" /\ Moves("activating") /\ UNCHANGED <<cloud, history>>
  <2>1. client' = [client EXCEPT !.state = client.next, !.next = "activating"]
    BY <1>3 DEF Then
  <2>2. UNCHANGED <<cloud, forgot>>
    BY <1>3
  <2>3. TypeOK' /\ client'.cred = client.cred
    BY <1>1, <2>1, <2>2, <1>3, ZenonT(60)
  <2>4. (NotYet /\ StorageAgrees /\ Belongs /\ OneSession)'
    BY <1>1, <2>1
  <2>5. QED
    BY <1>1, <2>2, <2>3, <2>4
<1>4. CASE /\ \E c \in NewCreds, o \in Offers : Issues(c, o) /\ Unsaved(o)
           /\ client' = Then([client EXCEPT !.token = "spent"], "restart")
  <2>1. PICK c \in NewCreds, o \in Offers : Issues(c, o) /\ Unsaved(o)
    BY <1>4
  <2>2. client' = [client EXCEPT !.token = "spent", !.state = client.next, !.next = "restart"]
    BY <1>4 DEF Then
  <2>3. cloud' \in [issued : Nat, ids : SUBSET (Nat \ {0}), bound : Nat]
    BY <2>1, IssuesType
  <2>4. forgot' \in BOOLEAN
    BY <2>1 DEF Unsaved
  <2>5. QED
    BY <1>1, <1>4, <2>2, <2>3, <2>4, ZenonT(60)
<1>5. QED
  BY <1>2, <1>3, <1>4 DEF ActivateFails

LEMMA ActivateUnsavedFacts ==
  ASSUME IInv, ActivateUnsaved
  PROVE  /\ IInv' /\ client'.cred = client.cred
         /\ store'.devid = store.devid /\ store'.record \in {store.record, NoCred}
         /\ \E c \in NewCreds, o \in Offers : Issues(c, o) /\ Unsaved(o)
<1> USE DEF IInv, TypeOK, NotYet, StorageAgrees, Belongs, Online, OneSession, States, MqStates,
            At, Moves, history
<1>1. client.next = "activating" /\ UNCHANGED removed /\ upset' = (upset \/ store.record # NoCred)
  BY DEF ActivateUnsaved
<1>2. PICK c \in NewCreds, o \in Offers : Issues(c, o) /\ Unsaved(o)
  BY DEF ActivateUnsaved
<1>3. client' = [client EXCEPT !.token = "spent", !.state = client.next, !.next = "activating"]
  BY DEF ActivateUnsaved, Then
<1>4. PICK r \in {store.record, NoCred} : store' = [store EXCEPT !.record = r]
  BY DEF ActivateUnsaved
<1>5. cloud' \in [issued : Nat, ids : SUBSET (Nat \ {0}), bound : Nat]
  BY <1>2, IssuesType
<1>6. forgot' \in BOOLEAN /\ upset' \in BOOLEAN
  BY <1>1, <1>2 DEF Unsaved
<1>7. TypeOK'
  BY <1>1, <1>3, <1>4, <1>5, <1>6
<1>8. StorageAgrees'
  BY <1>1, <1>3, <1>4
<1>9. (NotYet /\ Belongs /\ OneSession)'
  BY <1>1, <1>3
<1>10. QED
  BY <1>2, <1>3, <1>4, <1>7, <1>8, <1>9

LEMMA ActivateSavedFacts ==
  ASSUME IInv, ActivateSaved
  PROVE  /\ IInv'
         /\ \E c \in NewCreds, o \in Offers :
              /\ Issues(c, o) /\ Overwritten(o)
              /\ store' = [store EXCEPT !.record = c]
              /\ client'.cred \in {client.cred, c}
<1> USE DEF IInv, TypeOK, NotYet, StorageAgrees, Belongs, Online, OneSession, States, MqStates,
            At, Moves, history
<1>1. client.next = "activating" /\ UNCHANGED removed
  BY DEF ActivateSaved
<1>2. PICK c \in NewCreds, o \in Offers :
        /\ Issues(c, o) /\ Overwritten(o)
        /\ store' = [store EXCEPT !.record = c]
        /\ \E r \in Reads(store', client.cred) :
             /\ Takes(r)
             /\ client' = Then([client EXCEPT !.token = "none", !.cred = r.cred,
                                              !.activated = r.ok],
                               IF r.ok THEN "startup_update" ELSE "reset")
  BY DEF ActivateSaved
<1>3. /\ c \in Cred /\ c # NoCred
      /\ cloud' \in [issued : Nat, ids : SUBSET (Nat \ {0}), bound : Nat]
  BY <1>2, IssuesFacts, IssuesType
<1>4. store'.record = c /\ store' \in [record : Cred \cup {NoCred}, devid : Nat]
  BY <1>2, <1>3
<1>5. PICK r \in Reads(store', client.cred) :
        /\ Takes(r)
        /\ client' = Then([client EXCEPT !.token = "none", !.cred = r.cred, !.activated = r.ok],
                          IF r.ok THEN "startup_update" ELSE "reset")
  BY <1>2
<1>6. /\ r.ok \in BOOLEAN /\ r.cred \in Cred \cup {NoCred} /\ r.faults \in {0, 1}
      /\ r.faults = 0 => r.ok /\ r.cred = c
      /\ r.cred \in {client.cred, c}
  <2>1. client.cred \in Cred \cup {NoCred} /\ store'.record \in Cred \cup {NoCred}
    BY <1>3, <1>4
  <2>2. QED
    BY <1>3, <1>4, <1>5, <2>1, ReadsType
<1>7. forgot' \in BOOLEAN /\ upset' = (upset \/ r.faults = 1)
  BY <1>2, <1>5 DEF Overwritten, Takes
<1>8. upset' \in BOOLEAN /\ (~upset' => r.faults = 0)
  <2>1. CASE upset \/ r.faults = 1
    BY <1>7, <2>1, Zenon
  <2>2. CASE ~upset /\ r.faults = 0
    <3>1. r.faults # 1
      BY <2>2
    <3>2. QED
      BY <1>7, <2>2, <3>1, Zenon
  <2>3. QED
    BY <1>6, <2>1, <2>2, Zenon
<1>9. CASE r.ok
  <2>1. client' = [client EXCEPT !.token = "none", !.cred = r.cred, !.activated = TRUE,
                                 !.state = client.next, !.next = "startup_update"]
    BY <1>5, <1>6, <1>9 DEF Then
  <2>2. TypeOK'
    BY <1>1, <1>3, <1>4, <1>6, <1>7, <1>8, <2>1
  <2>3. (NotYet /\ StorageAgrees /\ Belongs /\ OneSession)'
    BY <1>1, <1>3, <1>4, <1>6, <1>8, <2>1
  <2>4. client'.cred = r.cred
    BY <2>1
  <2>5. IInv'
    BY <2>2, <2>3
  <2>6. QED
    BY <1>2, <1>6, <2>4, <2>5
<1>10. CASE ~r.ok
  <2>1. client' = [client EXCEPT !.token = "none", !.cred = r.cred, !.activated = FALSE,
                                 !.state = client.next, !.next = "reset"]
    BY <1>5, <1>6, <1>10 DEF Then
  <2>2. TypeOK'
    BY <1>1, <1>3, <1>4, <1>6, <1>7, <1>8, <2>1
  <2>3. (NotYet /\ StorageAgrees /\ Belongs /\ OneSession)'
    BY <1>1, <1>3, <1>4, <1>6, <1>8, <1>10, <2>1
  <2>4. client'.cred = r.cred
    BY <2>1
  <2>5. IInv'
    BY <2>2, <2>3
  <2>6. QED
    BY <1>2, <1>6, <2>4, <2>5
<1>11. QED
  BY <1>9, <1>10

(* The client a reset leaves, before its data is removed. *)
LEMMA ResetClientFacts ==
  ASSUME TypeOK, client.next = "reset"
  PROVE  /\ ResetClient \in [state : States, next : States, activated : BOOLEAN,
                             cred : Cred \cup {NoCred}, token : {"none", "good", "spent"},
                             mq : MqStates, mqKey : Nat]
         /\ ResetClient.cred = client.cred /\ ResetClient.activated = client.activated
         /\ ResetClient.next = "restart" /\ ResetClient.state = "reset"
         /\ client.activated => ResetClient.mq # "up"
         /\ ResetClient.mq = "up" => client.mq = "up"
<1> USE DEF TypeOK, States, MqStates
<1>1. CASE client.activated /\ client.mq = "up"
  <2>1. ResetClient = [client EXCEPT !.mq = "manual", !.state = "reset", !.next = "restart"]
    BY <1>1 DEF ResetClient, Then, Stopped
  <2>2. QED
    BY <1>1, <2>1
<1>2. CASE ~(client.activated /\ client.mq = "up")
  <2>1. ResetClient = [client EXCEPT !.state = "reset", !.next = "restart"]
    BY <1>2 DEF ResetClient, Then
  <2>2. QED
    BY <1>2, <2>1
<1>3. QED
  BY <1>1, <1>2

LEMMA ResetFacts ==
  ASSUME IInv, Reset
  PROVE  /\ IInv' /\ client'.cred = client.cred /\ UNCHANGED cloud
         /\ store'.record \in {store.record, NoCred}
         /\ \E d \in {0, client.cred.id, store.devid} :
              store'.devid = d /\ (forgot' <=> forgot \/ Forgets(d))
<1>1. /\ client.next = "reset" /\ UNCHANGED <<cloud, removed>> /\ TypeOK
      /\ client.cred.id \in Nat /\ NoCred \in Cred \cup {NoCred}
  BY DEF Reset, At, IInv, TypeOK, Cred, NoCred
<1> DEFINE Fact ==
      /\ client' = [ResetClient EXCEPT !.activated = FALSE]
      /\ upset' \in BOOLEAN /\ (~upset' => ~upset)
      /\ forgot' \in BOOLEAN
      /\ store' \in [record : Cred \cup {NoCred}, devid : Nat]
      /\ store'.record \in {store.record, NoCred}
      /\ ~upset' /\ client.activated => store'.record = NoCred
      /\ ~client.activated => store'.record = store.record
<1>2. ASSUME Fact PROVE IInv' /\ client'.cred = client.cred
  <2>1. /\ client' \in [state : States, next : States, activated : BOOLEAN,
                        cred : Cred \cup {NoCred}, token : {"none", "good", "spent"},
                        mq : MqStates, mqKey : Nat]
        /\ client'.cred = client.cred /\ ~client'.activated
        /\ client'.next = "restart" /\ client'.state = "reset" /\ client'.mq = ResetClient.mq
    BY <1>1, <1>2, ResetClientFacts
  <2>2. TypeOK'
    BY <1>1, <1>2, <2>1 DEF TypeOK
  <2>3. StorageAgrees'
    BY <1>2, <2>1 DEF StorageAgrees, IInv
  <2>4. (NotYet /\ Belongs)'
    BY <2>1 DEF NotYet, Belongs, Online
  <2>5. OneSession'
    BY <1>1, <2>1, ResetClientFacts DEF OneSession, IInv
  <2>6. QED
    BY <2>1, <2>2, <2>3, <2>4, <2>5 DEF IInv
<1>3. CASE /\ DataRemove(ResetClient, [store EXCEPT !.devid = IdToSave(client)])
           /\ forgot' = (forgot \/ Forgets(client.cred.id))
  <2> DEFINE s == [store EXCEPT !.devid = client.cred.id]
  <2>1. /\ s \in [record : Cred \cup {NoCred}, devid : Nat]
        /\ s.devid = client.cred.id /\ s.record = store.record
        /\ [s EXCEPT !.record = NoCred] \in [record : Cred \cup {NoCred}, devid : Nat]
        /\ [s EXCEPT !.record = NoCred].record = NoCred
        /\ [s EXCEPT !.record = NoCred].devid = client.cred.id
    BY <1>1 DEF TypeOK
  <2>2. \/ /\ client' = [ResetClient EXCEPT !.activated = FALSE]
           /\ store' = IF client.activated THEN [s EXCEPT !.record = NoCred] ELSE s
           /\ UNCHANGED upset
        \/ /\ client' = [ResetClient EXCEPT !.activated = FALSE]
           /\ client.activated /\ store' = s /\ upset' = TRUE
    BY <1>1, <1>3, ResetClientFacts DEF DataRemove, IdToSave
  <2>3. forgot' \in BOOLEAN
    BY <1>3
  <2>4. Fact /\ store'.devid = client.cred.id
    BY <1>1, <2>1, <2>2, <2>3 DEF TypeOK
  <2>5. QED
    BY <1>1, <1>2, <1>3, <2>4
<1>4. CASE /\ client' = [ResetClient EXCEPT !.activated = FALSE]
           /\ \E d \in {0, store.devid} :
                /\ store' = [record |-> IF client.activated THEN NoCred ELSE store.record,
                             devid |-> d]
                /\ forgot' = (forgot \/ Forgets(d))
           /\ UNCHANGED upset
  <2>1. PICK d \in {0, store.devid} :
          /\ store' = [record |-> IF client.activated THEN NoCred ELSE store.record,
                       devid |-> d]
          /\ forgot' = (forgot \/ Forgets(d))
    BY <1>4
  <2>2. forgot' \in BOOLEAN /\ d \in Nat
    BY <1>1, <2>1 DEF TypeOK
  <2>3. Fact /\ store'.devid = d
    BY <1>1, <1>4, <2>1, <2>2 DEF TypeOK
  <2>4. QED
    BY <1>1, <1>2, <2>1, <2>3
<1>5. QED
  BY <1>3, <1>4 DEF Reset

(* A power failure, between two steps or within one. *)
LEMMA BootInvariant ==
  ASSUME IInv, NEW STATE s, s \in [record : Cred \cup {NoCred}, devid : Nat], Boot(s),
         cloud' \in [issued : Nat, ids : SUBSET (Nat \ {0}), bound : Nat],
         removed' \in BOOLEAN, forgot' \in BOOLEAN
  PROVE  IInv' /\ store' = s /\ client'.cred \in {NoCred, s.record}
<1>1. s.record \in Cred \cup {NoCred} /\ upset \in BOOLEAN
  BY DEF IInv, TypeOK
<1>2. TypeOK'
  BY <1>1, BootFacts DEF TypeOK
<1>3. StorageAgrees'
  BY <1>1, BootFacts DEF StorageAgrees
<1>4. (NotYet /\ Belongs /\ OneSession)'
  BY <1>1, BootFacts DEF NotYet, Belongs, OneSession, Online
<1>5. QED
  BY <1>1, <1>2, <1>3, <1>4, BootFacts DEF IInv

(* The calls of the application. *)
LEMMA CallInvariant ==
  ASSUME IInv, Call
  PROVE  /\ IInv' /\ client'.cred = client.cred /\ cloud'.ids = cloud.ids
         /\ \/ UNCHANGED <<store, forgot>>
            \/ /\ store'.devid = store.devid /\ store'.record \in {store.record, NoCred}
               /\ forgot' = (forgot \/ store.devid # store.record.id)
<1> USE DEF IInv, TypeOK, NotYet, StorageAgrees, Belongs, Online, OneSession, States, MqStates,
            history
<1>1. CASE CallStart
  BY <1>1 DEF CallStart
<1>2. CASE CallStop
  BY <1>2 DEF CallStop
<1>3. CASE CallReconnect
  BY <1>3 DEF CallReconnect
<1>4. CASE CallReset
  <2>1. client' = [client EXCEPT !.next = "reset"] /\ UNCHANGED <<store, history>>
    BY <1>4 DEF CallReset
  <2>2. cloud' = cloud \/ cloud' = [cloud EXCEPT !.bound = 0]
    BY <1>4 DEF CallReset
  <2>3. /\ cloud' \in [issued : Nat, ids : SUBSET (Nat \ {0}), bound : Nat]
        /\ cloud'.ids = cloud.ids
    BY <2>2
  <2>4. QED
    BY <2>1, <2>3
<1>5. CASE CallRemove
  <2>1. /\ client.activated /\ UNCHANGED cloud
        /\ client' = [client EXCEPT !.activated = FALSE]
        /\ removed' = (removed \/ client.next # "idle")
        /\ forgot' = (forgot \/ store.devid # store.record.id)
    BY <1>5 DEF CallRemove
  <2>2. \/ store' = [store EXCEPT !.record = NoCred] /\ UNCHANGED upset
        \/ UNCHANGED store /\ upset' = TRUE
    BY <1>5 DEF CallRemove
  <2>3. removed' \in BOOLEAN /\ forgot' \in BOOLEAN /\ upset' \in BOOLEAN
    BY <2>1, <2>2
  <2>4. /\ store' \in [record : Cred \cup {NoCred}, devid : Nat]
        /\ store'.devid = store.devid /\ store'.record \in {store.record, NoCred}
        /\ ~upset' => ~upset /\ store'.record = NoCred
    BY <2>2
  <2>5. TypeOK'
    BY <2>1, <2>3, <2>4
  <2>6. (NotYet /\ StorageAgrees)'
    BY <2>1, <2>4
  <2>7. ~removed' => ~removed /\ client.next = "idle"
    <3>1. CASE removed \/ client.next # "idle"
      BY <2>1, <3>1, Zenon
    <3>2. QED
      BY <3>1
  <2>8. (Belongs /\ OneSession)'
    BY <2>1, <2>7
  <2>9. QED
    BY <2>1, <2>4, <2>5, <2>6, <2>8
<1>6. QED
  BY <1>1, <1>2, <1>3, <1>4, <1>5 DEF Call

LEMMA CloudUnbindInvariant ==
  ASSUME IInv, CloudUnbind
  PROVE  IInv' /\ cloud'.ids = cloud.ids /\ UNCHANGED <<client, store, forgot>>
<1> USE DEF IInv, TypeOK, NotYet, StorageAgrees, Belongs, Online, OneSession, history
<1>1. /\ cloud' = [cloud EXCEPT !.bound = 0]
      /\ UNCHANGED <<client, store, used, history>>
  BY DEF CloudUnbind
<1>2. /\ cloud' \in [issued : Nat, ids : SUBSET (Nat \ {0}), bound : Nat]
      /\ cloud'.ids = cloud.ids
  BY <1>1
<1>3. QED
  BY <1>1, <1>2

LEMMA PowerCutFacts ==
  ASSUME IInv, PowerCut
  PROVE  IInv' /\ UNCHANGED <<store, cloud, forgot>> /\ client'.cred \in {NoCred, store.record}
<1>1. Boot(store) /\ UNCHANGED <<cloud, removed, forgot>>
  BY DEF PowerCut
<1>2. /\ store \in [record : Cred \cup {NoCred}, devid : Nat]
      /\ cloud' \in [issued : Nat, ids : SUBSET (Nat \ {0}), bound : Nat]
      /\ removed' \in BOOLEAN /\ forgot' \in BOOLEAN
  BY <1>1 DEF IInv, TypeOK
<1>3. QED
  BY <1>1, <1>2, BootInvariant

LEMMA ActivateCutFacts ==
  ASSUME IInv, ActivateCut
  PROVE  /\ IInv' /\ store'.devid = store.devid /\ client'.cred \in {NoCred, store'.record}
         /\ \E c \in NewCreds, o \in Offers :
              /\ Issues(c, o)
              /\ \/ store'.record = c /\ Overwritten(o)
                 \/ store'.record \in {store.record, NoCred} /\ Unsaved(o)
<1>1. PICK c \in NewCreds, o \in Offers :
        /\ Issues(c, o)
        /\ \/ Boot([store EXCEPT !.record = c]) /\ Overwritten(o)
           \/ \E r \in {store.record, NoCred} : Boot([store EXCEPT !.record = r]) /\ Unsaved(o)
  BY DEF ActivateCut
<1>2. /\ store \in [record : Cred \cup {NoCred}, devid : Nat]
      /\ removed' \in BOOLEAN
  BY DEF IInv, TypeOK, ActivateCut
<1>3. /\ cloud' \in [issued : Nat, ids : SUBSET (Nat \ {0}), bound : Nat]
      /\ c \in Cred
  BY <1>1, IssuesFacts, IssuesType DEF IInv
<1>4. CASE Boot([store EXCEPT !.record = c]) /\ Overwritten(o)
  <2> DEFINE s == [store EXCEPT !.record = c]
  <2>1. /\ s \in [record : Cred \cup {NoCred}, devid : Nat]
        /\ s.record = c /\ s.devid = store.devid
    BY <1>2, <1>3
  <2>2. forgot' \in BOOLEAN /\ Boot(s)
    BY <1>4 DEF Overwritten
  <2>3. IInv' /\ store' = s /\ client'.cred \in {NoCred, s.record}
    <3> HIDE DEF s
    <3>1. QED
      BY <1>2, <1>3, <2>1, <2>2, BootInvariant
  <2>4. QED
    BY <1>1, <1>4, <2>1, <2>3
<1>5. CASE \E r \in {store.record, NoCred} : Boot([store EXCEPT !.record = r]) /\ Unsaved(o)
  <2>0. PICK r \in {store.record, NoCred} : Boot([store EXCEPT !.record = r]) /\ Unsaved(o)
    BY <1>5
  <2> DEFINE s == [store EXCEPT !.record = r]
  <2>1. /\ s \in [record : Cred \cup {NoCred}, devid : Nat]
        /\ s.record = r /\ s.devid = store.devid
    BY <1>2
  <2>2. forgot' \in BOOLEAN /\ Boot(s)
    BY <2>0 DEF Unsaved
  <2>3. IInv' /\ store' = s /\ client'.cred \in {NoCred, s.record}
    <3> HIDE DEF s
    <3>1. QED
      BY <1>2, <1>3, <2>1, <2>2, BootInvariant
  <2>4. QED
    BY <1>1, <2>0, <2>1, <2>3
<1>6. QED
  BY <1>1, <1>4, <1>5

LEMMA ResetCutFacts ==
  ASSUME IInv, ResetCut
  PROVE  /\ IInv' /\ UNCHANGED cloud /\ client'.cred \in {NoCred, store'.record}
         /\ store'.record \in {store.record, NoCred}
         /\ \E d \in {0, client.cred.id, store.devid} :
              store'.devid = d /\ (forgot' <=> forgot \/ Forgets(d))
<1>1. PICK d \in {0, client.cred.id}, r \in {store.record, NoCred} :
        /\ Boot([record |-> r, devid |-> d])
        /\ forgot' = (forgot \/ Forgets(d))
  BY DEF ResetCut
<1> DEFINE s == [record |-> r, devid |-> d]
<1>2. /\ store.record \in Cred \cup {NoCred} /\ client.cred.id \in Nat
      /\ cloud \in [issued : Nat, ids : SUBSET (Nat \ {0}), bound : Nat]
      /\ UNCHANGED <<cloud, removed>> /\ removed \in BOOLEAN
  BY DEF IInv, TypeOK, ResetCut, Cred, NoCred
<1>3. /\ s \in [record : Cred \cup {NoCred}, devid : Nat]
      /\ s.record = r /\ s.devid = d
  BY <1>2
<1>4. forgot' \in BOOLEAN /\ Boot(s) /\ removed' \in BOOLEAN
      /\ cloud' \in [issued : Nat, ids : SUBSET (Nat \ {0}), bound : Nat]
  BY <1>1, <1>2
<1>5. IInv' /\ store' = s /\ client'.cred \in {NoCred, s.record}
  <2> HIDE DEF s
  <2>1. QED
    BY <1>3, <1>4, BootInvariant
<1>6. QED
  BY <1>1, <1>2, <1>3, <1>5

LEMMA InvInit == Init => IInv
<1>1. Init => NotYet /\ StorageAgrees /\ Belongs /\ OneSession
  BY DEF Init, Fresh, NotYet, StorageAgrees, Belongs, Online, OneSession
<1>2. QED
  BY <1>1, TypeInit DEF IInv

(* Every step keeps the inductive invariant. *)
LEMMA InvNext ==
  ASSUME IInv, [Next]_vars
  PROVE  IInv'
<1>1. CASE Yield
  <2>1. CASE Activating
    BY <2>1, ActivateFailsFacts, ActivateUnsavedFacts, ActivateSavedFacts DEF Activating
  <2>2. CASE Reset
    BY <2>2, ResetFacts
  <2>3. QED
    BY <1>1, <2>1, <2>2, PlainYields DEF Yield
<1>2. CASE Call
  BY <1>2, CallInvariant
<1>3. CASE CloudUnbind
  BY <1>3, CloudUnbindInvariant
<1>4. CASE PowerCut \/ ActivateCut \/ ResetCut
  BY <1>4, PowerCutFacts, ActivateCutFacts, ResetCutFacts
<1>5. CASE UNCHANGED vars
  BY <1>5 DEF vars, history, IInv, TypeOK, NotYet, StorageAgrees, Belongs, OneSession
<1>6. QED
  BY <1>1, <1>2, <1>3, <1>4, <1>5 DEF Next

LEMMA InductiveInvariant == Spec => []IInv
<1>1. IInv /\ [Next]_vars => IInv'
  BY InvNext
<1>2. QED
  BY <1>1, InvInit, PTL DEF Spec

(* The variables hold values of their types, and the token that             *)
(* STATE_ACTIVATING reads is there (tuya_iot.c:627).                        *)
THEOREM TypeCorrect == Spec => []TypeOK
<1>1. IInv => TypeOK
  BY DEF IInv
<1>2. QED
  BY <1>1, InductiveInvariant, PTL

(* The client is activated exactly when storage holds an activation record, *)
(* whatever power failures happen between the writes of an activation or of *)
(* a reset (tuya_iot.c).                                                    *)
THEOREM StorageCorrect == Spec => []StorageAgrees
<1>1. IInv => StorageAgrees
  BY DEF IInv
<1>2. QED
  BY <1>1, InductiveInvariant, PTL

(* No session is left open behind a reset or a new initialisation, and an   *)
(* open one belongs to the client's credential.                             *)
THEOREM SessionCorrect == Spec => []OneSession
<1>1. IInv => OneSession
  BY DEF IInv
<1>2. QED
  BY <1>1, InductiveInvariant, PTL

-----------------------------------------------------------------------------
(* A step that issues nothing keeps the id d, when what it stores is d.     *)
LEMMA KeptWithoutIssue ==
  ASSUME NEW d \in Nat \ {0}, Kept(d), cloud'.ids = cloud.ids,
         client'.cred \in {client.cred, NoCred, store.record, store'.record},
         store'.record \in {store.record, NoCred}, store'.devid \in {0, d},
         cloud.ids # {} => store'.devid = d \/ store'.record.id = d,
         cloud.ids = {} => store'.devid = 0
  PROVE  Kept(d)'
BY DEF Kept, NoCred

(* A new credential has the id that was kept, or is the first.              *)
LEMMA KeptWithIssue ==
  ASSUME TypeOK, NEW d \in Nat \ {0}, Kept(d),
         NEW c \in NewCreds, NEW o \in Offers, Issues(c, o),
         client'.cred \in {client.cred, NoCred, c}, store'.devid = store.devid,
         \/ store'.record = c /\ ~(o = 0 /\ store # Empty)
         \/ store'.record \in {store.record, NoCred} /\ o # 0
  PROVE  \E e \in Nat \ {0} : Kept(e)'
<1>1. /\ c.id \in Nat \ {0} /\ cloud'.ids = cloud.ids \cup {c.id}
      /\ o # 0 => c.id = o /\ o = store.devid
  BY IssuesFacts DEF Cred
<1>2. CASE o # 0
  <2>1. Kept(d)'
    BY <1>1, <1>2 DEF Kept, NoCred
  <2>2. QED
    BY <2>1
<1>3. CASE o = 0
  <2>1. store.record = NoCred /\ store.devid = 0 /\ store'.record = c
    BY <1>3 DEF Empty
  <2>2. cloud.ids = {}
    BY <1>3, <2>1 DEF Kept, NoCred
  <2>3. Kept(c.id)'
    BY <1>1, <1>3, <2>1, <2>2 DEF Kept, NoCred
  <2>4. QED
    BY <1>1, <2>3
<1>4. QED
  BY <1>2, <1>3

(* A reset that does not forget saves d, or there was nothing to save.      *)
LEMMA KeptByReset ==
  ASSUME TypeOK, NEW d \in Nat \ {0}, Kept(d), UNCHANGED cloud,
         client'.cred \in {client.cred, NoCred, store'.record},
         store'.record \in {store.record, NoCred},
         NEW e \in {0, client.cred.id, store.devid}, store'.devid = e, ~Forgets(e)
  PROVE  Kept(d)'
<1>1. CASE e # 0
  <2>1. e = d /\ cloud.ids # {}
    BY <1>1 DEF Kept
  <2>2. QED
    BY <2>1, KeptWithoutIssue
<1>2. CASE e = 0
  <2>1. store.record = NoCred /\ store.devid = 0
    BY <1>2 DEF Forgets, Empty
  <2>2. cloud.ids = {}
    BY <2>1 DEF Kept, NoCred
  <2>3. QED
    BY <1>2, <2>2, KeptWithoutIssue
<1>3. QED
  BY <1>1, <1>2

LEMMA IdKeptNext ==
  ASSUME IInv, IdKept, [Next]_vars
  PROVE  IdKept'
<1> SUFFICES ASSUME ~forgot' PROVE \E e \in Nat \ {0} : Kept(e)'
  BY DEF IdKept
<1> TypeOK
  BY DEF IInv
<1> DEFINE Untouched == /\ UNCHANGED <<store, forgot>> /\ cloud'.ids = cloud.ids
                        /\ client'.cred \in {client.cred, NoCred, store.record}
<1>1. CASE Untouched
  <2>1. PICK d \in Nat \ {0} : Kept(d)
    BY <1>1 DEF IdKept
  <2>2. Kept(d)'
    BY <1>1, <2>1 DEF Kept, NoCred
  <2>3. QED
    BY <2>2
<1>2. ASSUME NEW c \in NewCreds, NEW o \in Offers, Issues(c, o),
             client'.cred \in {client.cred, NoCred, c}, store'.devid = store.devid,
             \/ store'.record = c /\ Overwritten(o)
             \/ store'.record \in {store.record, NoCred} /\ Unsaved(o)
      PROVE  \E e \in Nat \ {0} : Kept(e)'
  <2>1. /\ ~forgot
        /\ \/ store'.record = c /\ ~(o = 0 /\ store # Empty)
           \/ store'.record \in {store.record, NoCred} /\ o # 0
    BY <1>2 DEF Overwritten, Unsaved
  <2>2. PICK d \in Nat \ {0} : Kept(d)
    BY <2>1 DEF IdKept
  <2>3. QED
    BY <1>2, <2>1, <2>2, KeptWithIssue
<1>3. ASSUME UNCHANGED cloud, client'.cred \in {client.cred, NoCred, store'.record},
             store'.record \in {store.record, NoCred},
             \E d \in {0, client.cred.id, store.devid} :
               store'.devid = d /\ (forgot' <=> forgot \/ Forgets(d))
      PROVE  \E e \in Nat \ {0} : Kept(e)'
  <2>1. PICK e \in {0, client.cred.id, store.devid} : store'.devid = e /\ (forgot' <=> forgot \/ Forgets(e))
    BY <1>3
  <2>2. PICK d \in Nat \ {0} : Kept(d)
    BY <2>1 DEF IdKept
  <2>3. Kept(d)'
    BY <1>3, <2>1, <2>2, KeptByReset
  <2>4. QED
    BY <2>3
<1>4. CASE Activating
  <2>1. CASE ActivateFails
    <3>1. CASE UNCHANGED <<cloud, forgot>>
      BY <1>1, <2>1, <3>1, ActivateFailsFacts
    <3>2. CASE \E c \in NewCreds, o \in Offers : Issues(c, o) /\ Unsaved(o)
      BY <1>2, <2>1, <3>2, ActivateFailsFacts
    <3>3. QED
      BY <2>1, <3>1, <3>2, ActivateFailsFacts
  <2>2. CASE ActivateUnsaved
    BY <1>2, <2>2, ActivateUnsavedFacts
  <2>3. CASE ActivateSaved
    <3>1. PICK c \in NewCreds, o \in Offers :
            /\ Issues(c, o) /\ Overwritten(o)
            /\ store' = [store EXCEPT !.record = c]
            /\ client'.cred \in {client.cred, c}
      BY <2>3, ActivateSavedFacts
    <3>2. store'.record = c /\ store'.devid = store.devid
      BY <3>1 DEF TypeOK
    <3>3. QED
      BY <1>2, <3>1, <3>2
  <2>4. QED
    BY <1>4, <2>1, <2>2, <2>3 DEF Activating
<1>5. CASE Reset
  BY <1>3, <1>5, ResetFacts
<1>6. CASE Yield /\ ~Activating /\ ~Reset
  BY <1>1, <1>6, PlainYields DEF Yield, history
<1>7. CASE Call
  <2>1. CASE UNCHANGED <<store, forgot>>
    BY <1>1, <1>7, <2>1, CallInvariant
  <2>2. CASE /\ store'.devid = store.devid /\ store'.record \in {store.record, NoCred}
             /\ forgot' = (forgot \/ store.devid # store.record.id)
    <3>1. ~forgot /\ store.devid = store.record.id
      BY <2>2
    <3>2. PICK d \in Nat \ {0} : Kept(d)
      BY <3>1 DEF IdKept
    <3>3. Kept(d)'
      BY <1>7, <2>2, <3>1, <3>2, CallInvariant DEF Kept, NoCred
    <3>4. QED
      BY <3>3
  <2>3. QED
    BY <1>7, <2>1, <2>2, CallInvariant
<1>8. CASE CloudUnbind
  BY <1>1, <1>8, CloudUnbindInvariant
<1>9. CASE PowerCut
  BY <1>1, <1>9, PowerCutFacts
<1>10. CASE ActivateCut
  <2>1. PICK c \in NewCreds, o \in Offers :
          /\ Issues(c, o)
          /\ \/ store'.record = c /\ Overwritten(o)
             \/ store'.record \in {store.record, NoCred} /\ Unsaved(o)
    BY <1>10, ActivateCutFacts
  <2>2. store'.devid = store.devid /\ client'.cred \in {NoCred, store'.record}
    BY <1>10, ActivateCutFacts
  <2>3. CASE store'.record = c /\ Overwritten(o)
    BY <1>2, <2>1, <2>2, <2>3
  <2>4. CASE store'.record \in {store.record, NoCred} /\ Unsaved(o)
    <3>1. ~forgot /\ o # 0
      BY <2>4 DEF Unsaved
    <3>2. PICK d \in Nat \ {0} : Kept(d)
      BY <3>1 DEF IdKept
    <3>3. c.id = store.devid /\ c.id # 0 /\ cloud'.ids = cloud.ids \cup {c.id}
      BY <2>1, <3>1, IssuesFacts
    <3>4. Kept(d)'
      BY <2>2, <2>4, <3>1, <3>2, <3>3 DEF Kept, NoCred
    <3>5. QED
      BY <3>4
  <2>5. QED
    BY <2>1, <2>3, <2>4
<1>11. CASE ResetCut
  BY <1>3, <1>11, ResetCutFacts
<1>12. CASE UNCHANGED vars
  BY <1>1, <1>12 DEF vars
<1>13. QED
  BY <1>4, <1>5, <1>6, <1>7, <1>8, <1>9, <1>10, <1>11, <1>12 DEF Next

(* The device keeps one id over any number of resets, unbindings, new       *)
(* activations and power failures, unless the saved id could not be read or *)
(* was not saved before the record was lost, a first id did not get into    *)
(* storage, a reset saved none over one, or the application removed the     *)
(* data while the id was not saved (tuya_iot.c:176, :483-487, :565).        *)
THEOREM IdCorrect == Spec => []DevidKept
<1>1. Init => IdKept
  <2>1. ASSUME Init PROVE Kept(1)
    BY <2>1 DEF Init, Fresh, Kept, NoCred
  <2>2. QED
    BY <2>1 DEF IdKept
<1>2. IInv /\ IdKept /\ [Next]_vars => IdKept'
  BY IdKeptNext
<1>3. IdKept => DevidKept
  <2> SUFFICES ASSUME IdKept, ~forgot PROVE Cardinality(cloud.ids) <= 1
    BY DEF DevidKept
  <2>1. PICK d \in Nat \ {0} : cloud.ids \subseteq {d}
    BY DEF IdKept, Kept
  <2>2. IsFiniteSet({d}) /\ Cardinality({d}) = 1
    BY FS_Singleton
  <2>3. Cardinality(cloud.ids) <= Cardinality({d})
    BY <2>1, <2>2, FS_Subset
  <2>4. QED
    BY <2>2, <2>3
<1>4. QED
  BY <1>1, <1>2, <1>3, InductiveInvariant, PTL DEF Spec

=============================================================================
