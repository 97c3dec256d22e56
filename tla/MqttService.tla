------------------------------ MODULE MqttService ------------------------------
(***************************************************************************)
(* The MQTT service of the SDK (mqtt_service.c, mqtt_client_wrapper.c): it   *)
(* connects and reconnects, subscribes to the device's topic, and owes each *)
(* report that was published with a callback one answer, OPRT_OK when the   *)
(* broker acknowledges it or OPRT_TIMEOUT.  One thread runs all of it, the  *)
(* application between two calls of tuya_mqtt_loop included; the broker,    *)
(* the network and the clock run beside it.                                 *)
(***************************************************************************)
EXTENDS Naturals, Sequences, FiniteSets

CONSTANTS
  Reports,    \* the reports published with a callback, in this order
  Timeout,    \* what is added to the clock for a report's timeout
  MaxTime,    \* bound: the clock stops here, and no report is due later
  MaxConn,    \* bound: sessions
  MaxId       \* bound: packets sent; coreMQTT's ids are only used again after 65535

ASSUME MqttAssumption ==
  /\ Reports \subseteq Nat
  /\ Timeout \in Nat /\ MaxTime \in Nat /\ MaxConn \in Nat /\ MaxId \in Nat

VARIABLES
  pc,         \* "idle" between calls; "scan" and "yield" inside tuya_mqtt_loop
  cur,        \* next_handle: position in publish_list
  manual,     \* manual_disconnect
  connected,  \* is_connected
  handlers,   \* entries of subscribe_list for topic_in
  pubs,       \* publish_list
  packetId,   \* the id coreMQTT gives out next
  now,        \* system_timestamp
  session,    \* the broker's side: sessions so far, whether this one is up
  sub,        \* the broker sends this session what comes on topic_in
  acks,       \* publishes the broker has received and not yet acknowledged,
              \* and acknowledgements not yet read: packet ids with their report
  unhandled,  \* history: there was no memory for the entry of the last SUBSCRIBE
  answers,    \* history: what each report's callback has been called with
  received    \* history: reports the broker has received

serviceVars == <<manual, connected, handlers, unhandled>>
brokerVars == <<session, sub, acks, received>>
vars == <<pc, cur, serviceVars, pubs, packetId, now, brokerVars, answers>>

Init ==
  /\ pc = "idle" /\ cur = 0
  /\ manual = TRUE /\ connected = FALSE /\ handlers = 0 /\ unhandled = FALSE
  /\ pubs = <<>> /\ packetId = 1 /\ now = 0
  /\ session = [n |-> 0, up |-> FALSE] /\ sub = FALSE /\ acks = <<>>
  /\ answers = [r \in Reports |-> <<>>] /\ received = {}

Without(s, i) == SubSeq(s, 1, i - 1) \o SubSeq(s, i + 1, Len(s))
Answer(r, result) == answers' = [answers EXCEPT ![r] = Append(@, result)]

-----------------------------------------------------------------------------
(* Mutant: the repetition filter is left out. *)
SubscribedAgain ==
  \/ sub' = FALSE /\ unhandled' = FALSE /\ UNCHANGED handlers
  \/ sub' = TRUE /\ unhandled' = FALSE /\ handlers' = handlers + 1
  \/ sub' = TRUE /\ unhandled' = TRUE /\ UNCHANGED handlers

(* mqtt_client_connect and its callback mqtt_client_connected_cb, which     *)
(* subscribes to topic_in: SUBSCRIBE is sent, and an entry is added when    *)
(* there is none.  Nobody looks at what the subscription returns: when the  *)
(* SUBSCRIBE cannot be sent, or was sent and there is no memory for the     *)
(* entry, the service is connected all the same.  An entry without memory   *)
(* for its topic is a copy through a NULL pointer.                          *)
Subscribed ==
  \/ sub' = FALSE /\ unhandled' = FALSE /\ UNCHANGED handlers
  \/ sub' = TRUE /\ unhandled' = FALSE /\ handlers' = (IF handlers = 0 THEN 1 ELSE handlers)
  \/ handlers = 0 /\ sub' = TRUE /\ unhandled' = TRUE /\ UNCHANGED handlers

Connected ==
  /\ session' = [n |-> session.n + 1, up |-> TRUE] /\ acks' = <<>>
  /\ \/ connected' = TRUE /\ Subscribed /\ UNCHANGED pc
     \/ /\ handlers = 0 /\ sub' = TRUE /\ unhandled' = TRUE
        /\ pc' = "crashed" /\ UNCHANGED <<connected, handlers>>

(* The network or the broker refuses, or the device is no longer known and  *)
(* on_unbind is called; the service's own state does not change.            *)
Refused == UNCHANGED <<pc, connected, handlers, unhandled, session, sub, acks>>

Connect == (session.n < MaxConn /\ Connected) \/ Refused

(* tuya_mqtt_start, called until it succeeds. *)
Start ==
  /\ pc = "idle" /\ ~connected
  /\ manual' = FALSE
  /\ Connect
  /\ UNCHANGED <<cur, pubs, packetId, now, received, answers>>

(* mqtt_client_disconnect and its callback. *)
Disconnect ==
  /\ connected' = FALSE
  /\ session' = [session EXCEPT !.up = FALSE] /\ sub' = FALSE /\ acks' = <<>>

(* tuya_mqtt_stop; the reports that are owed an answer stay in the list. *)
Stop ==
  /\ pc = "idle" /\ session.n > 0
  /\ manual' = TRUE /\ handlers' = 0
  /\ Disconnect
  /\ UNCHANGED <<pc, cur, unhandled, pubs, packetId, now, received, answers>>

-----------------------------------------------------------------------------
(* Mutant: the ids begin with 0, which stands for none. *)
SendFromZero(r, id) ==
  \/ /\ id = packetId /\ packetId <= MaxId
     /\ packetId' = (packetId + 1) % 2
     /\ IF session.up
        THEN acks' = Append(acks, [id |-> id, report |-> r]) /\ received' = received \cup {r}
        ELSE UNCHANGED <<acks, received>>
  \/ id = 0 /\ UNCHANGED <<packetId, acks, received>>

(* mqtt_client_publish at QoS 1: a new id, or 0 when the packet cannot be   *)
(* sent.  A packet sent when the session is down is lost.                   *)
Send(r, id) ==
  \/ /\ id = packetId /\ packetId <= MaxId
     /\ packetId' = packetId + 1
     /\ IF session.up
        THEN acks' = Append(acks, [id |-> id, report |-> r]) /\ received' = received \cup {r}
        ELSE UNCHANGED <<acks, received>>
  \/ id = 0 /\ UNCHANGED <<packetId, acks, received>>

Submitted == {r \in Reports : answers[r] # <<>> \/ \E i \in DOMAIN pubs : pubs[i].report = r}

(* tuya_mqtt_client_publish_common with a callback, as tuya_iot_dp_report_* *)
(* calls it: refused when not connected; "async" leaves the sending to the  *)
(* loop.                                                                    *)
Publish ==
  /\ pc = "idle" /\ connected /\ now + Timeout <= MaxTime
  /\ \E r \in Reports \ Submitted, id \in 0 .. MaxId :
       /\ \A s \in Reports : s < r => s \in Submitted
       /\ \/ id = 0 /\ UNCHANGED <<packetId, acks, received>>        \* async
          \/ Send(r, id)
       /\ pubs' = Append(pubs, [report |-> r, id |-> id, timeout |-> now + Timeout])
  /\ UNCHANGED <<pc, cur, serviceVars, now, session, sub, answers>>

-----------------------------------------------------------------------------
(* tuya_mqtt_loop.  Not connected: one attempt to connect, unless stopped.  *)
LoopReconnect ==
  /\ pc = "idle" /\ ~manual /\ ~connected
  /\ Connect
  /\ UNCHANGED <<cur, manual, pubs, packetId, now, received, answers>>

LoopScan ==
  /\ pc = "idle" /\ ~manual /\ connected
  /\ pc' = "scan" /\ cur' = 1
  /\ UNCHANGED <<serviceVars, pubs, packetId, now, brokerVars, answers>>

At == pubs[cur]
Scanning == pc = "scan" /\ cur <= Len(pubs)
Due == At.timeout <= now

(* An entry that is due is answered and removed; then "continue" runs the   *)
(* step of the for loop, which moves on from what is now at this place: the *)
(* next entry is passed over, and at the end of the list the step reads     *)
(* through a NULL pointer.                                                  *)

(* Mutants: the entry stays in the list; it is removed and nobody is told. *)
ScanTimeoutKeeps ==
  /\ Scanning /\ Due
  /\ Answer(At.report, "TIMEOUT")
  /\ cur' = cur + 1
  /\ UNCHANGED <<pc, serviceVars, pubs, packetId, now, brokerVars>>

ScanTimeoutSilent ==
  /\ Scanning /\ Due
  /\ pubs' = Without(pubs, cur)
  /\ UNCHANGED <<pc, cur, serviceVars, packetId, now, brokerVars, answers>>

ScanTimeout ==
  /\ Scanning /\ Due
  /\ Answer(At.report, "TIMEOUT")
  /\ pubs' = Without(pubs, cur)
  /\ IF cur = Len(pubs) THEN pc' = "crashed" /\ UNCHANGED cur
     ELSE cur' = cur + 1 /\ UNCHANGED pc
  /\ UNCHANGED <<serviceVars, packetId, now, brokerVars>>

ScanSend ==
  /\ Scanning /\ ~Due
  /\ \/ At.id # 0 /\ UNCHANGED <<pubs, packetId, acks, received>>
     \/ /\ At.id = 0
        /\ \E id \in 0 .. MaxId :
             Send(At.report, id) /\ pubs' = [pubs EXCEPT ![cur].id = id]
  /\ cur' = cur + 1
  /\ UNCHANGED <<pc, serviceVars, now, session, sub, answers>>

ScanEnd ==
  /\ pc = "scan" /\ cur > Len(pubs)
  /\ pc' = "yield" /\ cur' = 0
  /\ UNCHANGED <<serviceVars, pubs, packetId, now, brokerVars, answers>>

(* mqtt_client_yield.  A PUBACK answers and removes the first entry with    *)
(* its id, if there is one still.                                           *)
Matching(id) == {i \in DOMAIN pubs : pubs[i].id = id}

(* Mutant: any entry but the first is taken for the acknowledged one. *)
PubackFirst ==
  /\ pc = "yield" /\ session.up /\ acks # <<>>
  /\ acks' = Tail(acks)
  /\ \/ pubs = <<>> /\ UNCHANGED <<pubs, answers>>
     \/ /\ pubs # <<>>
        /\ Answer(pubs[1].report, "OK")
        /\ pubs' = Tail(pubs)
  /\ UNCHANGED <<pc, cur, serviceVars, packetId, now, session, sub, received>>

Puback ==
  /\ pc = "yield" /\ session.up /\ acks # <<>>
  /\ acks' = Tail(acks)
  /\ LET found == Matching(Head(acks).id)
     IN \/ found = {} /\ UNCHANGED <<pubs, answers>>
        \/ \E i \in found :
             /\ \A j \in found : i <= j
             /\ Answer(pubs[i].report, "OK")
             /\ pubs' = Without(pubs, i)
  /\ UNCHANGED <<pc, cur, serviceVars, packetId, now, session, sub, received>>

YieldEnd ==
  /\ pc = "yield"
  /\ pc' = "idle"
  /\ UNCHANGED <<cur, serviceVars, pubs, packetId, now, brokerVars, answers>>

(* MQTT_ProcessLoop fails: the client disconnects. *)
YieldFail ==
  /\ pc = "yield" /\ ~session.up
  /\ pc' = "idle"
  /\ Disconnect
  /\ UNCHANGED <<cur, manual, handlers, unhandled, pubs, packetId, now, received, answers>>

-----------------------------------------------------------------------------
(* The clock and the network (external). *)
Tick ==
  /\ now < MaxTime
  /\ now' = now + 1
  /\ UNCHANGED <<pc, cur, serviceVars, pubs, packetId, brokerVars, answers>>

LinkLost ==
  /\ session.up
  /\ session' = [session EXCEPT !.up = FALSE] /\ sub' = FALSE /\ acks' = <<>>
  /\ UNCHANGED <<pc, cur, serviceVars, pubs, packetId, now, received, answers>>

-----------------------------------------------------------------------------
Loop ==
  \/ LoopReconnect \/ LoopScan \/ ScanTimeout \/ ScanSend \/ ScanEnd
  \/ Puback \/ YieldEnd \/ YieldFail

Application == Start \/ Stop \/ Publish

Next == Application \/ Loop \/ Tick \/ LinkLost

Spec == Init /\ [][Next]_vars

(* tuya_iot_yield keeps calling the loop, and time passes. *)
Fairness == WF_vars(Loop) /\ WF_vars(Tick)

FairSpec == Spec /\ Fairness

-----------------------------------------------------------------------------
(* The variables hold values of their types, and the scan is at an entry of *)
(* the list or at its end.                                                  *)
TypeOK ==
  /\ pc \in {"idle", "scan", "yield", "crashed"} /\ cur \in 0 .. Len(pubs) + 1
  /\ manual \in BOOLEAN /\ connected \in BOOLEAN /\ handlers \in Nat
  /\ unhandled \in BOOLEAN
  /\ pubs \in Seq([report : Reports, id : 0 .. MaxId, timeout : Nat])
  /\ packetId \in 1 .. MaxId + 1 /\ now \in 0 .. MaxTime
  /\ session \in [n : 0 .. MaxConn, up : BOOLEAN] /\ sub \in BOOLEAN
  /\ acks \in Seq([id : 1 .. MaxId, report : Reports])
  /\ answers \in [Reports -> Seq({"OK", "TIMEOUT"})] /\ received \subseteq Reports

(* A report is owed exactly one answer: it is in the list once and has had  *)
(* none, or it has had one and is in the list no more, whether the timeout  *)
(* or the acknowledgement came first and whatever session it was sent in.   *)
OneAnswerEach ==
  \A r \in Submitted :
    Len(answers[r]) + Cardinality({i \in DOMAIN pubs : pubs[i].report = r}) = 1

(* OPRT_OK means that the broker has received this very report. *)
OkWasReceived == \A r \in Reports : answers[r] = <<"OK">> => r \in received

(* However often the service reconnects, stops and starts, no message on    *)
(* the device's topic is handled twice; and the broker sends what nobody    *)
(* handles only in a session for whose handler there was no memory: the     *)
(* next session makes up for it.                                            *)
OneHandler == handlers <= 1 /\ (sub => (handlers = 1 <=> ~unhandled))

(* As long as the loop gets to look through its list again and again, every *)
(* report is answered, unless the program has crashed.                      *)
ReportIsAnswered ==
  []<>(pc \in {"scan", "crashed"}) =>
    \A r \in Reports : r \in Submitted ~> answers[r] # <<>> \/ pc = "crashed"
===============================================================================
