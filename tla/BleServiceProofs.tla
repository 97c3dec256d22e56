--------------------------- MODULE BleServiceProofs ---------------------------
(***************************************************************************)
(* Proofs about BleService, for any connection ids, any bounds and with or  *)
(* without faults.  The inductive invariant says what the life of the       *)
(* service leaves true at each point of the provisioning task.              *)
(*                                                                         *)
(* Then, each from an invariant of its own on top of that one: what it      *)
(* keeps of the radio's state, and whose keys it decrypts a frame with.     *)
(***************************************************************************)
EXTENDS BleService, TLAPS

(* A message stays at the head of the queue while it is being handled. *)
NodeHeld ==
  tpc \in {"adv_wait", "adv_check", "adv_gap", "remove"} => queue # <<>>

(* Where the task is, and whether the service exists; a service that is     *)
(* gone has been told to stop, and so has one that is about to be freed.    *)
Lifetime ==
  /\ tpc \in {"boot", "start"} => svc = "null" /\ ~cbs /\ ~isStop /\ ~timer
  /\ tpc = "stack_init" => svc = "alloc" /\ ~timer
  /\ svc = "alloc" => tpc \in {"stack_init", "dead"} /\ ~isStop
  /\ tpc \in {"adv_wait", "adv_check", "adv_gap", "remove", "free"} => svc = "ready"
  /\ tpc = "free" => isStop
  /\ svc = "null" /\ (cbs \/ tpc \in {"loop", "yield", "panic"}) => isStop

(* A stop is only ever asked for once a token has been handed over. *)
StopHasToken ==
  /\ isStop => token
  /\ \A i \in 1 .. Len(queue) : queue[i].cmd = "STOP" => token

(* Until the queue is initialised the radio is silent. *)
QuietBeforeReady ==
  tpc \in {"boot", "start", "stack_init"} \/ svc = "alloc"
    => ~advOn /\ NoLink /\ evts = <<>>

IInv == TypeOK /\ NodeHeld /\ Lifetime /\ StopHasToken /\ QuietBeforeReady

-----------------------------------------------------------------------------
(* What ble_msg_queue_insert leaves is the old messages and perhaps the new *)
(* one, in their order.                                                     *)
LEMMA InsertedMessages ==
  ASSUME NEW S, NEW q \in Seq(S), NEW m \in S, NEW r \in Inserted(q, m)
  PROVE  /\ r \in Seq(S)
         /\ q # <<>> => r # <<>>
         /\ \A i \in 1 .. Len(r) : r[i] = m \/ (i \in 1 .. Len(q) /\ r[i] = q[i])
  BY DEF Inserted

(* Removing the first of some messages leaves the others. *)
LEMMA RemovedMessage ==
  ASSUME NEW S, NEW q \in Seq(S), q # <<>>
  PROVE  /\ Tail(q) \in Seq(S)
         /\ \A i \in 1 .. Len(Tail(q)) : i + 1 \in 1 .. Len(q) /\ Tail(q)[i] = q[i + 1]
         /\ Head(q) \in S
  OBVIOUS

LEMMA MessageTypes ==
  /\ \A c \in {"START", "DISCONNECT", "GET_TOKEN", "BAD_TOKEN", "STOP"} : Plain(c) \in Msg
  /\ \A h \in ConnIds : [cmd |-> "CONNECT", hdl |-> h] \in Msg
  /\ \A f \in Frames, n \in Conn : [cmd |-> "RECV_DATA", frame |-> f, conn |-> n] \in Msg
  /\ \A m \in Msg : m.cmd = "CONNECT" => m.hdl \in ConnIds
  /\ \A m \in Msg : m.cmd = "RECV_DATA" => m.frame \in Frames /\ m.conn \in Conn
  BY DEF Msg, PlainMsg, Plain

LEMMA EventTypes ==
  /\ \A e \in {"DATA_SET", "RSP_SET", "ADV_START", "ADV_FAIL", "ADV_STOP", "DISCONNECT"} :
       Happens(e) \in Evt
  /\ \A h \in ConnIds : [ev |-> "CONNECT", hdl |-> h] \in Evt
  /\ \A f \in Frames, n \in Conn : [ev |-> "WRITE", frame |-> f, conn |-> n] \in Evt
  /\ \A e \in Evt : e.ev = "CONNECT" => e.hdl \in ConnIds
  /\ \A e \in Evt : e.ev = "WRITE" => e.frame \in Frames /\ e.conn \in Conn
  BY DEF Evt, PlainEvt, Happens

-----------------------------------------------------------------------------
LEMMA InitInvariant == Init => IInv
<1> SUFFICES ASSUME Init PROVE IInv
  OBVIOUS
<1> USE ConstantsAssumption DEF Init
<1>1. TypeOK
  BY DEF TypeOK, TaskSteps, Handles
<1>2. NodeHeld /\ Lifetime
  BY DEF NodeHeld, Lifetime
<1>3. StopHasToken
  BY DEF StopHasToken
<1>4. QuietBeforeReady
  BY DEF QuietBeforeReady, NoLink
<1>5. QED
  BY <1>1, <1>2, <1>3, <1>4 DEF IInv

(* Each step of the provisioning task keeps the invariant. *)
LEMMA TaskInvariant == IInv /\ Task => IInv'
<1> SUFFICES ASSUME IInv, Task PROVE IInv'
  OBVIOUS
<1> USE ConstantsAssumption
        DEF IInv, TypeOK, NodeHeld, Lifetime, StopHasToken, QuietBeforeReady, NoLink,
            TaskSteps, Handles, svcVars, portVars, airVars, ghosts
<1> DEFINE Ready == svc = "ready" /\ queue # <<>> /\ Head(queue) \in Msg
<1>1. CASE ResolveLicense
  BY <1>1 DEF ResolveLicense
<1>2. CASE ServiceAllocate
  <2>1. /\ UNCHANGED <<queue, timer, sConn, advRunning, advPending, bits, advOn, links,
                       closing, conns, evts, token, keyConn, idled, unsafe>>
        /\ tpc = "start"
    BY <1>2 DEF ServiceAllocate
  <2>2. CASE svc' = "alloc" /\ isStop' = FALSE /\ connHdl' = 0 /\ keys' = "none"
             /\ cbs' = TRUE /\ tpc' = "stack_init"
    BY <2>1, <2>2
  <2>3. CASE tpc' = "dead" /\ UNCHANGED <<svc, isStop, connHdl, keys, cbs>>
    BY <2>1, <2>3
  <2>4. QED
    BY <1>2, <2>2, <2>3 DEF ServiceAllocate
<1>3. CASE ServiceReady
  <2>1. CASE svc' = "ready" /\ queue' \in Inserted(<<>>, Plain("START")) /\ tpc' = "loop"
    <3>1. Plain("START") \in Msg /\ Plain("START").cmd = "START" /\ <<>> \in Seq(Msg)
      BY MessageTypes DEF Plain
    <3>2. /\ queue' \in Seq(Msg)
          /\ \A i \in 1 .. Len(queue') : queue'[i] = Plain("START")
      BY <2>1, <3>1, InsertedMessages, SMTT(30)
    <3>3. QED
      BY <1>3, <2>1, <3>1, <3>2 DEF ServiceReady
  <2>2. CASE tpc' = "dead" /\ UNCHANGED <<svc, queue>>
    BY <1>3, <2>2 DEF ServiceReady
  <2>3. QED
    BY <1>3, <2>1, <2>2 DEF ServiceReady
<1>4. CASE LoopIdle
  BY <1>4 DEF LoopIdle
<1>5. ASSUME NEW c, Handling(c) PROVE Ready
  BY <1>5, RemovedMessage DEF Handling
<1>6. CASE LoopStart
  <2>1. /\ Happens("DATA_SET") \in Evt /\ Happens("RSP_SET") \in Evt
    BY EventTypes
  <2>2. evts \o <<Happens("DATA_SET"), Happens("RSP_SET")>> \in Seq(Evt)
    BY <2>1
  <2>3. /\ UNCHANGED <<svc, isStop, connHdl, keys, queue, timer, cbs, sConn, advRunning,
                       advOn, links, closing, conns, token, keyConn, idled, unsafe>>
        /\ bits' = {} /\ tpc = "loop"
    BY <1>6 DEF LoopStart, Handling
  <2>4. Ready
    BY <1>5, <1>6 DEF LoopStart
  <2>5. CASE tpc' = "adv_wait" /\ advPending' = TRUE
             /\ evts' = evts \o <<Happens("DATA_SET"), Happens("RSP_SET")>>
    BY <2>2, <2>3, <2>4, <2>5
  <2>6. CASE tpc' = "yield" /\ UNCHANGED advPending
             /\ evts' \in {evts, Append(evts, Happens("DATA_SET"))}
    <3>1. Append(evts, Happens("DATA_SET")) \in Seq(Evt)
      BY <2>1
    <3>2. evts' \in Seq(Evt)
      BY <2>6, <3>1
    <3>3. QED
      BY <2>3, <2>4, <2>6, <3>2
  <2>7. QED
    BY <1>6, <2>5, <2>6 DEF LoopStart
<1>7. CASE AdvWait
  <2>1. /\ UNCHANGED <<svc, isStop, connHdl, queue, timer, cbs, sConn, advRunning, bits,
                       advOn, links, closing, conns, evts, token, keyConn, idled, unsafe>>
        /\ tpc = "adv_wait"
    BY <1>7 DEF AdvWait
  <2>2. CASE advPending' = FALSE /\ tpc' = "adv_check" /\ UNCHANGED keys
    <3>1. TypeOK'
      BY <2>1, <2>2, ZenonT(40)
    <3>2. NodeHeld' /\ Lifetime' /\ StopHasToken' /\ QuietBeforeReady'
      BY <2>1, <2>2
    <3>3. QED
      BY <3>1, <3>2
  <2>3. CASE keys' = "none" /\ tpc' = "remove" /\ UNCHANGED advPending
    BY <2>1, <2>3
  <2>4. QED
    BY <1>7, <2>2, <2>3 DEF AdvWait
<1>8. ASSUME RequestAdvertising
      PROVE  evts' \in Seq(Evt) /\ advOn' \in BOOLEAN /\ keys' = "none" /\ tpc' = "remove"
  <2>1. Happens("ADV_START") \in Evt /\ Happens("ADV_FAIL") \in Evt
    BY EventTypes
  <2>2. advOn' = TRUE \/ advOn' = advOn
    BY <1>8 DEF RequestAdvertising
  <2>3. evts' \in Seq(Evt)
    <3>1. \/ evts' = Append(evts, Happens("ADV_START"))
          \/ evts' = Append(evts, Happens("ADV_FAIL"))
      BY <1>8 DEF RequestAdvertising
    <3>2. /\ Append(evts, Happens("ADV_START")) \in Seq(Evt)
          /\ Append(evts, Happens("ADV_FAIL")) \in Seq(Evt)
      BY <2>1
    <3>3. QED
      BY <3>1, <3>2
  <2>4. keys' = "none" /\ tpc' = "remove"
    BY <1>8 DEF RequestAdvertising
  <2>5. QED
    BY <2>2, <2>3, <2>4
<1>9. CASE AdvCheck
  <2>1. Append(evts, Happens("ADV_STOP")) \in Seq(Evt)
    BY EventTypes
  <2>2. evts' \in Seq(Evt) /\ advOn' \in BOOLEAN /\ tpc' \in {"remove", "adv_gap"}
        /\ keys' \in {"none", "made", "told"}
    BY <1>8, <1>9, <2>1 DEF AdvCheck
  <2>3. QED
    BY <1>9, <2>2 DEF AdvCheck
<1>10. CASE AdvGap
  BY <1>8, <1>10, ZenonT(40) DEF AdvGap
<1>11. CASE LoopConnect
  <2>1. Head(queue).hdl \in ConnIds
    BY <1>5, <1>11, MessageTypes DEF LoopConnect, Handling
  <2>2. QED
    BY <1>5, <1>11, <2>1 DEF LoopConnect, Handling
<1>12. ASSUME NEW c \in {"START", "GET_TOKEN", "BAD_TOKEN", "STOP"}, queue # <<>>, svc = "ready",
              queue' \in Inserted(queue, Plain(c)), c = "STOP" => token'
       PROVE  /\ queue' \in Seq(Msg) /\ queue' # <<>>
              /\ \A i \in 1 .. Len(queue') : queue'[i].cmd = "STOP" => token \/ token'
  <2>1. Plain(c) \in Msg /\ Plain(c).cmd = c
    BY MessageTypes DEF Plain
  <2>2. QED
    BY <1>12, <2>1, InsertedMessages
<1>13. CASE LoopDisconnect
  <2>1. CASE isStop
    BY <1>5, <1>13, <2>1, ZenonT(40) DEF LoopDisconnect, Handling
  <2>2. CASE ~isStop
    BY <1>5, <1>12, <1>13, <2>2, ZenonT(40) DEF LoopDisconnect, Handling
  <2>3. QED
    BY <2>1, <2>2
<1>14. CASE LoopRecvData
  <2>1. Ready
    BY <1>5, <1>14 DEF LoopRecvData
  <2>2. Head(queue).conn \in 0 .. MaxConn
    BY <2>1, <1>14, MessageTypes DEF LoopRecvData, Handling, Conn
  <2>3. /\ keys' \in {"none", "made", "told"} /\ keyConn' \in 0 .. MaxConn
        /\ unsafe' \in BOOLEAN /\ tpc' \in {"remove", "panic"}
    BY <1>14, <2>2 DEF LoopRecvData, KeysAfter, FrameCrashes
  <2>4. \/ queue' = queue
        \/ \E c \in {"GET_TOKEN", "BAD_TOKEN"} : queue' \in Inserted(queue, Plain(c))
    BY <1>14 DEF LoopRecvData, BringsToken
  <2>5. /\ queue' \in Seq(Msg) /\ queue' # <<>>
        /\ \A i \in 1 .. Len(queue') : queue'[i].cmd = "STOP" => token'
    BY <1>12, <1>14, <2>1, <2>4 DEF LoopRecvData
  <2>6. QED
    BY <1>14, <2>1, <2>3, <2>5 DEF LoopRecvData, Handling
<1>15. CASE LoopGetToken
  BY <1>5, <1>12, <1>15 DEF LoopGetToken, Handling
<1>21. CASE LoopBadToken
  <2>1. /\ UNCHANGED <<svc, isStop, connHdl, keys, queue, timer, cbs, sConn, advRunning,
                       advPending, bits, advOn, links, closing, conns, evts, token, keyConn,
                       idled>>
        /\ tpc' = "panic" /\ tpc = "loop" /\ unsafe' \in BOOLEAN
    BY <1>21 DEF LoopBadToken, Handling
  <2>2. QED
    BY <2>1, <1>21 DEF LoopBadToken, Handling
<1>16. CASE LoopStop
  <2>1. Append(evts, Happens("ADV_STOP")) \in Seq(Evt)
    BY EventTypes
  <2>2. Ready /\ Head(queue) = queue[1] /\ 1 \in 1 .. Len(queue)
    BY <1>5, <1>16 DEF LoopStop
  <2>3. token
    BY <1>16, <2>2 DEF LoopStop, Handling
  <2>4. closing' \subseteq ConnIds
    BY <1>16 DEF LoopStop
  <2>5. QED
    BY <1>16, <2>1, <2>2, <2>3, <2>4 DEF LoopStop, Handling
<1>17. CASE LoopRemove
  <2>1. /\ queue' \in Seq(Msg)
        /\ \A i \in 1 .. Len(queue') : i + 1 \in 1 .. Len(queue) /\ queue'[i] = queue[i + 1]
    BY <1>17, RemovedMessage DEF LoopRemove
  <2>2. QED
    BY <1>17, <2>1 DEF LoopRemove
<1>18. CASE LoopFree
  BY <1>18 DEF LoopFree
<1>19. CASE Yield
  <2>1. svc # "alloc" /\ (svc = "null" => isStop)
    BY <1>19 DEF Yield
  <2>2. /\ queue' \in Seq(Msg)
        /\ \A i \in 1 .. Len(queue') : queue'[i].cmd = "STOP" => token
    <3>1. Plain("DISCONNECT") \in Msg /\ Plain("DISCONNECT").cmd = "DISCONNECT"
      BY MessageTypes DEF Plain
    <3>2. CASE queue' \in Inserted(queue, Plain("DISCONNECT"))
      BY <3>1, <3>2, InsertedMessages
    <3>3. QED
      BY <1>19, <3>2 DEF Yield
  <2>3. TypeOK'
    <3>1. tpc' \in TaskSteps
      BY <1>19 DEF Yield
    <3>2. idled' \in BOOLEAN
      BY <1>19 DEF Yield
    <3>3. UNCHANGED <<svc, isStop, connHdl, keys, timer, cbs, sConn, advRunning, advPending,
                      bits, advOn, links, closing, conns, evts, token, keyConn,
                      unsafe>>
      BY <1>19 DEF Yield
    <3>4. QED
      BY <2>2, <3>1, <3>2, <3>3
  <2>4. NodeHeld'
    BY <1>19 DEF Yield
  <2>5. Lifetime'
    BY <1>19, <2>1 DEF Yield
  <2>6. StopHasToken'
    BY <1>19, <2>2 DEF Yield
  <2>7. QuietBeforeReady'
    BY <1>19, <2>1 DEF Yield
  <2>8. QED
    BY <2>3, <2>4, <2>5, <2>6, <2>7
<1>20. QED
  BY <1>1, <1>2, <1>3, <1>4, <1>6, <1>7, <1>9, <1>10, <1>11, <1>13, <1>14, <1>15, <1>16,
     <1>17, <1>18, <1>19, <1>21 DEF Task

(* So does each step of the Bluetooth task. *)
LEMMA BluetoothInvariant == IInv /\ Bluetooth => IInv'
<1> SUFFICES ASSUME IInv, Bluetooth PROVE IInv'
  OBVIOUS
<1> USE ConstantsAssumption
        DEF IInv, TypeOK, NodeHeld, Lifetime, StopHasToken, QuietBeforeReady, NoLink,
            TaskSteps, Handles, svcVars, portVars, airVars, ghosts
<1>1. ASSUME NEW e, Reported(e)
      PROVE  /\ tpc # "panic" /\ evts # <<>>
             /\ ~(tpc \in {"boot", "start", "stack_init"}) /\ svc # "alloc"
             /\ Head(evts) \in Evt /\ Head(evts).ev = e /\ Tail(evts) \in Seq(Evt)
  BY <1>1, RemovedMessage DEF Reported
<1>2. CASE DataSet
  <2>1. \E e : Reported(e)
    BY <1>2 DEF DataSet
  <2>2. bits' \subseteq {"DATA", "RSP"}
    BY <1>2 DEF DataSet
  <2>3. TypeOK'
    BY <1>1, <1>2, <2>1, <2>2 DEF DataSet
  <2>4. NodeHeld' /\ Lifetime' /\ StopHasToken'
    BY <1>2 DEF DataSet
  <2>5. QuietBeforeReady'
    BY <1>1, <1>2, <2>1 DEF DataSet
  <2>6. QED
    BY <2>3, <2>4, <2>5
<1>3. CASE AdvStarted
  <2>1. \E e : Reported(e)
    BY <1>3 DEF AdvStarted
  <2>2. advRunning' \in BOOLEAN
    BY <1>3 DEF AdvStarted
  <2>3. TypeOK'
    BY <1>1, <1>3, <2>1, <2>2 DEF AdvStarted
  <2>4. NodeHeld' /\ Lifetime' /\ StopHasToken'
    BY <1>3 DEF AdvStarted
  <2>5. QuietBeforeReady'
    BY <1>1, <1>3, <2>1 DEF AdvStarted
  <2>6. QED
    BY <2>3, <2>4, <2>5
<1>4. ASSUME NEW m \in Msg, m.cmd # "STOP", Callback(m), tpc # "panic", svc # "alloc",
             ~(tpc \in {"boot", "start", "stack_init"})
      PROVE  /\ queue' \in Seq(Msg) /\ (queue # <<>> => queue' # <<>>)
             /\ tpc' = tpc \/ (tpc' = "panic" /\ cbs /\ svc = "null")
             /\ \A i \in 1 .. Len(queue') : queue'[i].cmd = "STOP" => token
  <2>1. CASE queue' \in Inserted(queue, m)
    BY <1>4, <2>1, InsertedMessages, SMTT(30) DEF Callback
  <2>2. CASE queue' = queue
    BY <1>4, <2>2 DEF Callback
  <2>3. QED
    BY <1>4, <2>1, <2>2 DEF Callback
<1>5. CASE Connected
  <2>1. /\ Reported("CONNECT") /\ Head(evts).hdl \in ConnIds
        /\ [cmd |-> "CONNECT", hdl |-> Head(evts).hdl] \in Msg
    BY <1>1, <1>5, EventTypes, MessageTypes DEF Connected
  <2>2. /\ queue' \in Seq(Msg) /\ (queue # <<>> => queue' # <<>>)
        /\ tpc' = tpc \/ (tpc' = "panic" /\ cbs /\ svc = "null")
        /\ \A i \in 1 .. Len(queue') : queue'[i].cmd = "STOP" => token
    BY <1>1, <1>4, <1>5, <2>1 DEF Connected
  <2>3. evts' \in Seq(Evt)
    BY <1>1, <1>5, <2>1, EventTypes DEF Connected
  <2>4. TypeOK'
    <3>1. /\ sConn' \in Handles /\ advRunning' \in BOOLEAN /\ advOn' \in BOOLEAN
          /\ tpc' \in TaskSteps
      BY <1>5, <2>1, <2>2 DEF Connected
    <3>2. UNCHANGED <<svc, isStop, connHdl, keys, timer, cbs, advPending, bits, links,
                      closing, conns, token, keyConn, idled, unsafe>>
      BY <1>5 DEF Connected
    <3>3. QED
      BY <2>2, <2>3, <3>1, <3>2
  <2>5. NodeHeld' /\ Lifetime' /\ StopHasToken'
    BY <1>5, <2>2 DEF Connected
  <2>6. QuietBeforeReady'
    BY <1>1, <1>5, <2>1, <2>2 DEF Connected
  <2>7. QED
    BY <2>4, <2>5, <2>6
<1>6. CASE Disconnected
  <2>1. Reported("DISCONNECT") /\ Plain("DISCONNECT") \in Msg
        /\ Plain("DISCONNECT").cmd = "DISCONNECT"
    BY <1>6, MessageTypes DEF Disconnected, Plain
  <2>2. /\ queue' \in Seq(Msg) /\ (queue # <<>> => queue' # <<>>)
        /\ tpc' = tpc \/ (tpc' = "panic" /\ cbs /\ svc = "null")
        /\ \A i \in 1 .. Len(queue') : queue'[i].cmd = "STOP" => token
    BY <1>1, <1>4, <1>6, <2>1 DEF Disconnected
  <2>3. TypeOK'
    BY <1>1, <1>6, <2>1, <2>2 DEF Disconnected
  <2>4. NodeHeld' /\ Lifetime' /\ StopHasToken'
    BY <1>6, <2>2 DEF Disconnected
  <2>5. QuietBeforeReady'
    BY <1>1, <1>6, <2>1, <2>2 DEF Disconnected
  <2>6. QED
    BY <2>3, <2>4, <2>5
<1>7. CASE Written
  <2>1. /\ Reported("WRITE")
        /\ [cmd |-> "RECV_DATA", frame |-> Head(evts).frame, conn |-> Head(evts).conn] \in Msg
    BY <1>1, <1>7, EventTypes, MessageTypes DEF Written
  <2>2. /\ queue' \in Seq(Msg) /\ (queue # <<>> => queue' # <<>>)
        /\ tpc' = tpc \/ (tpc' = "panic" /\ cbs /\ svc = "null")
        /\ \A i \in 1 .. Len(queue') : queue'[i].cmd = "STOP" => token
    BY <1>1, <1>4, <1>7, <2>1 DEF Written
  <2>3. TypeOK'
    BY <1>1, <1>7, <2>1, <2>2 DEF Written
  <2>4. NodeHeld' /\ Lifetime' /\ StopHasToken'
    BY <1>7, <2>2 DEF Written
  <2>5. QuietBeforeReady'
    BY <1>1, <1>7, <2>1, <2>2 DEF Written
  <2>6. QED
    BY <2>3, <2>4, <2>5
<1>8. QED
  BY <1>2, <1>3, <1>5, <1>6, <1>7 DEF Bluetooth

(* A restart is a fresh start. *)
LEMMA RebootInvariant == Reboot => IInv'
<1>1. Reboot => Init'
  BY DEF Reboot, Init
<1>2. Init' => IInv'
  BY InitInvariant, PTL
<1>3. QED
  BY <1>1, <1>2

(* And what the phones, the controller and a restart do. *)
LEMMA OutsideInvariant == IInv /\ (Phone \/ Reboot) => IInv'
<1> SUFFICES ASSUME IInv, Phone \/ Reboot PROVE IInv'
  OBVIOUS
<1> USE ConstantsAssumption
        DEF IInv, TypeOK, NodeHeld, Lifetime, StopHasToken, QuietBeforeReady, NoLink,
            TaskSteps, Handles, svcVars, portVars, airVars, ghosts
<1>1. CASE PeerConnect
  <2>1. PICK c \in ConnIds : /\ links[c] = 0
                             /\ links' = [links EXCEPT ![c] = conns + 1]
                             /\ evts' = Append(evts, [ev |-> "CONNECT", hdl |-> c])
    BY <1>1 DEF PeerConnect
  <2>2. conns' \in 0 .. MaxConn /\ links' \in [ConnIds -> 0 .. MaxConn]
    BY <1>1, <2>1 DEF PeerConnect
  <2>3. evts' \in Seq(Evt)
    BY <2>1, EventTypes
  <2>4. TypeOK'
    <3>1. UNCHANGED <<tpc, svc, isStop, connHdl, keys, queue, timer, cbs, sConn, advRunning,
                      advPending, bits, closing, token, keyConn, idled, unsafe>>
      BY <1>1 DEF PeerConnect
    <3>2. advOn' \in BOOLEAN
      BY <1>1 DEF PeerConnect
    <3>3. QED
      BY <2>2, <2>3, <3>1, <3>2, SMTT(30)
  <2>5. NodeHeld' /\ Lifetime' /\ StopHasToken'
    BY <1>1 DEF PeerConnect
  <2>6. QuietBeforeReady'
    BY <1>1 DEF PeerConnect
  <2>7. QED
    BY <2>4, <2>5, <2>6
<1>2. CASE PeerWrite
  <2>1. PICK c \in ConnIds, f \in Frames :
             /\ links[c] # 0
             /\ evts' = Append(evts, [ev |-> "WRITE", frame |-> f, conn |-> links[c]])
    BY <1>2 DEF PeerWrite
  <2>2. links[c] \in Conn
    BY <2>1 DEF Conn
  <2>3. evts' \in Seq(Evt)
    BY <2>1, <2>2, EventTypes
  <2>4. TypeOK'
    <3>1. UNCHANGED <<tpc, svc, isStop, connHdl, keys, queue, timer, cbs, sConn, advRunning,
                      advPending, bits, advOn, links, closing, conns, token, keyConn, idled>>
      BY <1>2 DEF PeerWrite
    <3>2. unsafe' \in BOOLEAN
      BY <1>2 DEF PeerWrite
    <3>3. QED
      BY <2>3, <3>1, <3>2, SMTT(30)
  <2>5. NodeHeld' /\ Lifetime' /\ StopHasToken'
    BY <1>2 DEF PeerWrite
  <2>6. QuietBeforeReady'
    BY <1>2, <2>1 DEF PeerWrite
  <2>7. QED
    BY <2>4, <2>5, <2>6
<1>3. ASSUME NEW c \in ConnIds, LinkDown(c) PROVE IInv'
  <2>1. links' \in [ConnIds -> 0 .. MaxConn]
    BY <1>3 DEF LinkDown
  <2>2. evts' \in Seq(Evt)
    BY <1>3, EventTypes DEF LinkDown
  <2>3. TypeOK'
    BY <1>3, <2>1, <2>2 DEF LinkDown
  <2>4. NodeHeld' /\ Lifetime' /\ StopHasToken'
    BY <1>3 DEF LinkDown
  <2>5. QuietBeforeReady'
    BY <1>3 DEF LinkDown
  <2>6. QED
    BY <2>3, <2>4, <2>5
<1>4. CASE Reboot
  BY <1>4, RebootInvariant
<1>5. QED
  BY <1>1, <1>2, <1>3, <1>4 DEF Phone

LEMMA StutterInvariant == IInv /\ UNCHANGED vars => IInv'
  BY DEF IInv, TypeOK, NodeHeld, Lifetime, StopHasToken, QuietBeforeReady, NoLink,
         vars, svcVars, portVars, airVars, ghosts

(* The inductive invariant holds of every behaviour. *)
THEOREM InductiveInvariant == Spec => []IInv
<1>1. IInv /\ [Next]_vars => IInv'
  BY TaskInvariant, BluetoothInvariant, OutsideInvariant, StutterInvariant DEF Next
<1>2. QED
  BY <1>1, InitInvariant, PTL DEF Spec

(* Every variable of the service, the port and the radio keeps its type, in *)
(* every interleaving of the two tasks and the phones.                      *)
THEOREM TypeCorrect == Spec => []TypeOK
<1>1. IInv => TypeOK
  BY DEF IInv
<1>2. QED
  BY <1>1, InductiveInvariant, PTL

(* While the callbacks are registered and the queue is not initialised no   *)
(* phone is connected, none can connect, and no event that would insert     *)
(* into the queue is on its way.                                            *)
THEOREM RadioQuiet == Spec => []NoTrafficBeforeQueue
<1>1. IInv => NoTrafficBeforeQueue
  BY DEF IInv, QuietBeforeReady, NoTrafficBeforeQueue, Pending
<1>2. QED
  BY <1>1, InductiveInvariant, PTL

(* Whatever may crash a handler has been written by a phone, and is on its  *)
(* way or queued, only when the history says so.                            *)
UnsafeMsg(m) == m.cmd = "BAD_TOKEN" \/ (m.cmd = "RECV_DATA" /\ m.frame \in UnsafeFrames)
UnsafeEvt(e) == e.ev = "WRITE" /\ e.frame \in UnsafeFrames
QueueSafe(q, u) == \A i \in 1 .. Len(q) : UnsafeMsg(q[i]) => u
EvtsSafe(s, u) == \A i \in 1 .. Len(s) : UnsafeEvt(s[i]) => u

UnsafeKnown ==
  /\ tpc = "panic" => unsafe \/ svc = "null"
  /\ EvtsSafe(evts, unsafe)
  /\ QueueSafe(queue, unsafe)

LEMMA QueueSafeAfter ==
  ASSUME NEW q \in Seq(Msg), NEW u \in BOOLEAN, QueueSafe(q, u)
  PROVE  /\ \A m \in Msg : \A r \in Inserted(q, m) : (UnsafeMsg(m) => u) => QueueSafe(r, u)
         /\ q # <<>> => QueueSafe(Tail(q), u) /\ (UnsafeMsg(Head(q)) => u)
<1>1. ASSUME NEW m \in Msg, NEW r \in Inserted(q, m), UnsafeMsg(m) => u
      PROVE  QueueSafe(r, u)
  <2>1. \A i \in 1 .. Len(r) : r[i] = m \/ (i \in 1 .. Len(q) /\ r[i] = q[i])
    BY InsertedMessages
  <2>2. QED
    BY <1>1, <2>1 DEF QueueSafe
<1>2. ASSUME q # <<>>
      PROVE  QueueSafe(Tail(q), u) /\ (UnsafeMsg(Head(q)) => u)
  <2>1. \A i \in 1 .. Len(Tail(q)) : i + 1 \in 1 .. Len(q) /\ Tail(q)[i] = q[i + 1]
    BY <1>2, RemovedMessage
  <2>2. Head(q) = q[1] /\ 1 \in 1 .. Len(q)
    BY <1>2
  <2>3. QED
    BY <2>1, <2>2 DEF QueueSafe
<1>3. QED
  BY <1>1, <1>2

LEMMA EvtsSafeAfter ==
  ASSUME NEW s \in Seq(Evt), NEW u \in BOOLEAN, EvtsSafe(s, u)
  PROVE  /\ \A e \in Evt : (UnsafeEvt(e) => u) => EvtsSafe(Append(s, e), u)
         /\ s # <<>> => EvtsSafe(Tail(s), u) /\ (UnsafeEvt(Head(s)) => u)
<1>1. ASSUME NEW e \in Evt, UnsafeEvt(e) => u
      PROVE  EvtsSafe(Append(s, e), u)
  <2>1. \A i \in 1 .. Len(Append(s, e)) :
           Append(s, e)[i] = e \/ (i \in 1 .. Len(s) /\ Append(s, e)[i] = s[i])
    OBVIOUS
  <2>2. QED
    BY <1>1, <2>1 DEF EvtsSafe
<1>2. ASSUME s # <<>>
      PROVE  EvtsSafe(Tail(s), u) /\ (UnsafeEvt(Head(s)) => u)
  <2>1. \A i \in 1 .. Len(Tail(s)) : i + 1 \in 1 .. Len(s) /\ Tail(s)[i] = s[i + 1]
    BY <1>2, RemovedMessage
  <2>2. Head(s) = s[1] /\ 1 \in 1 .. Len(s)
    BY <1>2
  <2>3. QED
    BY <2>1, <2>2 DEF EvtsSafe
<1>3. QED
  BY <1>1, <1>2

(* Messages and events that are not frames are safe. *)
LEMMA PlainSafe ==
  /\ \A c \in {"START", "DISCONNECT", "GET_TOKEN", "STOP"} : Plain(c) \in Msg /\ ~UnsafeMsg(Plain(c))
  /\ \A h \in ConnIds : ~UnsafeMsg([cmd |-> "CONNECT", hdl |-> h])
  /\ \A e \in {"DATA_SET", "RSP_SET", "ADV_START", "ADV_FAIL", "ADV_STOP", "DISCONNECT"} :
       Happens(e) \in Evt /\ ~UnsafeEvt(Happens(e))
  /\ \A h \in ConnIds : ~UnsafeEvt([ev |-> "CONNECT", hdl |-> h])
<1>1. \A c \in {"START", "DISCONNECT", "GET_TOKEN", "STOP"} : Plain(c).cmd = c
  BY DEF Plain
<1>2. \A e \in {"DATA_SET", "RSP_SET", "ADV_START", "ADV_FAIL", "ADV_STOP", "DISCONNECT"} :
        Happens(e).ev = e
  BY DEF Happens
<1>3. QED
  BY <1>1, <1>2, MessageTypes, EventTypes DEF UnsafeMsg, UnsafeEvt

LEMMA UnsafeTask == IInv /\ UnsafeKnown /\ Task => UnsafeKnown'
<1> SUFFICES ASSUME IInv, UnsafeKnown, Task PROVE UnsafeKnown'
  OBVIOUS
<1>1. /\ queue \in Seq(Msg) /\ evts \in Seq(Evt) /\ unsafe \in BOOLEAN
      /\ QueueSafe(queue, unsafe) /\ EvtsSafe(evts, unsafe)
  BY DEF IInv, TypeOK, UnsafeKnown
<1>2. /\ \A c \in {"START", "DISCONNECT", "GET_TOKEN", "STOP"} :
           \A r \in Inserted(queue, Plain(c)) : QueueSafe(r, unsafe)
      /\ queue # <<>> => QueueSafe(Tail(queue), unsafe) /\ (UnsafeMsg(Head(queue)) => unsafe)
      /\ QueueSafe(<<>>, unsafe) /\ \A r \in Inserted(<<>>, Plain("START")) : QueueSafe(r, unsafe)
  <2>1. QueueSafe(<<>>, unsafe)
    BY DEF QueueSafe
  <2>2. <<>> \in Seq(Msg)
    OBVIOUS
  <2>3. QED
    BY <1>1, <2>1, <2>2, QueueSafeAfter, PlainSafe
<1>3. \A e \in {"DATA_SET", "RSP_SET", "ADV_START", "ADV_FAIL", "ADV_STOP"} :
        EvtsSafe(Append(evts, Happens(e)), unsafe)
  BY <1>1, EvtsSafeAfter, PlainSafe
<1>4. EvtsSafe(evts \o <<Happens("DATA_SET"), Happens("RSP_SET")>>, unsafe)
  <2> DEFINE d == Happens("DATA_SET")
             r == Happens("RSP_SET")
  <2>1. d \in Evt /\ r \in Evt
    BY PlainSafe
  <2>2. evts \o <<d, r>> = Append(Append(evts, d), r) /\ Append(evts, d) \in Seq(Evt)
    BY <1>1, <2>1
  <2>3. EvtsSafe(Append(evts, d), unsafe) /\ ~UnsafeEvt(r)
    BY <1>3, PlainSafe
  <2>4. EvtsSafe(Append(Append(evts, d), r), unsafe)
    BY <1>1, <2>1, <2>2, <2>3, EvtsSafeAfter
  <2>5. QED
    BY <2>2, <2>4
<1> USE DEF UnsafeKnown, svcVars, portVars, airVars, ghosts
<1>5. CASE ResolveLicense \/ ServiceAllocate \/ LoopIdle \/ AdvWait \/ LoopConnect
  <2>1. UNCHANGED <<queue, evts, unsafe>> /\ tpc' # "panic"
    BY <1>5 DEF ResolveLicense, ServiceAllocate, LoopIdle, AdvWait, LoopConnect
  <2>2. QED
    BY <2>1
<1>6. CASE ServiceReady
  <2>1. /\ queue' = queue \/ queue' \in Inserted(<<>>, Plain("START"))
        /\ UNCHANGED <<evts, unsafe>> /\ tpc' # "panic"
    BY <1>6 DEF ServiceReady
  <2>2. QED
    BY <1>2, <2>1
<1>7. CASE LoopStart
  <2>1. /\ UNCHANGED <<queue, unsafe>> /\ tpc' # "panic"
        /\ \/ evts' = evts \/ evts' = Append(evts, Happens("DATA_SET"))
           \/ evts' = evts \o <<Happens("DATA_SET"), Happens("RSP_SET")>>
    BY <1>7 DEF LoopStart
  <2>2. QED
    BY <1>3, <1>4, <2>1
<1>8. CASE AdvCheck \/ AdvGap \/ LoopStop
  <2>1. /\ UNCHANGED <<queue, unsafe>> /\ tpc' # "panic"
        /\ \/ evts' = evts
           \/ \E e \in {"ADV_START", "ADV_FAIL", "ADV_STOP"} : evts' = Append(evts, Happens(e))
    BY <1>8 DEF AdvCheck, AdvGap, LoopStop, RequestAdvertising
  <2>2. QED
    BY <1>3, <2>1
<1>9. CASE LoopDisconnect \/ LoopGetToken
  <2>1. /\ UNCHANGED <<evts, unsafe>> /\ tpc' # "panic"
        /\ queue' = queue \/ \E c \in {"START", "STOP"} : queue' \in Inserted(queue, Plain(c))
    BY <1>9 DEF LoopDisconnect, LoopGetToken
  <2>2. QED
    BY <1>2, <2>1
<1>10. CASE LoopRecvData
  <2> DEFINE f == Head(queue).frame
  <2>1. /\ UnsafeMsg(Head(queue)) => unsafe
        /\ Head(queue).cmd = "RECV_DATA" /\ UNCHANGED evts
    BY <1>2, <1>10 DEF LoopRecvData, Handling
  <2>2. f \in UnsafeFrames => unsafe
    BY <2>1 DEF UnsafeMsg
  <2>3. CASE tpc' = "remove" /\ UNCHANGED <<queue, unsafe>>
    BY <2>1, <2>3
  <2>4. CASE tpc' = "remove" /\ UNCHANGED unsafe /\ BringsToken(f)
             /\ queue' \in Inserted(queue, Plain(f))
    <3>1. f \in {"GET_TOKEN", "BAD_TOKEN"} /\ (f = "BAD_TOKEN" => unsafe)
      BY <2>2, <2>4 DEF BringsToken, UnsafeFrames
    <3>2. QueueSafe(queue', unsafe)
      <4>1. Plain(f) \in Msg /\ Plain(f).cmd = f
        BY <3>1, MessageTypes DEF Plain
      <4>2. UnsafeMsg(Plain(f)) => unsafe
        BY <3>1, <4>1 DEF UnsafeMsg
      <4>3. QED
        BY <1>1, <2>4, <4>1, <4>2, QueueSafeAfter
    <3>3. QED
      BY <2>1, <2>4, <3>2
  <2>5. CASE FrameCrashes(f) /\ UNCHANGED queue
    <3>1. unsafe' = TRUE
      BY <1>1, <2>2, <2>5 DEF FrameCrashes
    <3>2. QED
      BY <2>1, <2>5, <3>1 DEF QueueSafe, EvtsSafe
  <2>6. QED
    BY <1>10, <2>3, <2>4, <2>5 DEF LoopRecvData
<1>11. CASE LoopBadToken
  <2>1. UNCHANGED <<queue, evts>>
    BY <1>11 DEF LoopBadToken
  <2>2. unsafe' = TRUE
    BY <1>1, <1>2, <1>11 DEF LoopBadToken, Handling, UnsafeMsg
  <2>3. QED
    BY <2>1, <2>2 DEF QueueSafe, EvtsSafe
<1>12. CASE LoopRemove
  <2>1. UNCHANGED <<evts, unsafe>> /\ tpc' # "panic" /\ queue' = Tail(queue) /\ queue # <<>>
    BY <1>12 DEF LoopRemove, IInv, NodeHeld
  <2>2. QED
    BY <1>2, <2>1
<1>13. CASE LoopFree
  <2>1. UNCHANGED <<evts, unsafe>> /\ tpc' # "panic" /\ queue' = <<>>
    BY <1>13 DEF LoopFree
  <2>2. QED
    BY <1>2, <2>1
<1>14. CASE Yield
  <2>1. /\ UNCHANGED <<evts, unsafe, svc>> /\ (tpc' = "panic" => svc = "null")
        /\ queue' = queue \/ queue' \in Inserted(queue, Plain("DISCONNECT"))
    BY <1>14 DEF Yield
  <2>2. QED
    BY <1>2, <2>1
<1>15. QED
  BY <1>5, <1>6, <1>7, <1>8, <1>9, <1>10, <1>11, <1>12, <1>13, <1>14 DEF Task

LEMMA UnsafeRest == IInv /\ UnsafeKnown /\ (Bluetooth \/ Phone \/ Reboot) => UnsafeKnown'
<1> SUFFICES ASSUME IInv, UnsafeKnown, Bluetooth \/ Phone \/ Reboot PROVE UnsafeKnown'
  OBVIOUS
<1>1. /\ queue \in Seq(Msg) /\ evts \in Seq(Evt) /\ unsafe \in BOOLEAN
      /\ QueueSafe(queue, unsafe) /\ EvtsSafe(evts, unsafe)
  BY DEF IInv, TypeOK, UnsafeKnown
<1>2. evts # <<>> => /\ EvtsSafe(Tail(evts), unsafe) /\ (UnsafeEvt(Head(evts)) => unsafe)
                     /\ Tail(evts) \in Seq(Evt) /\ Head(evts) \in Evt
  BY <1>1, EvtsSafeAfter, RemovedMessage
<1>3. ASSUME NEW m \in Msg, UnsafeMsg(m) => unsafe, Callback(m), UNCHANGED svc, tpc # "panic",
             IInv
      PROVE  QueueSafe(queue', unsafe) /\ (tpc' = "panic" => unsafe \/ svc' = "null" \/ svc = "alloc")
  <2>1. queue' = queue \/ queue' \in Inserted(queue, m)
    BY <1>3 DEF Callback
  <2>2. tpc' = "panic" => svc # "ready"
    BY <1>3 DEF Callback
  <2>3. QED
    BY <1>1, <1>3, <2>1, <2>2, QueueSafeAfter DEF IInv, TypeOK
<1>4. ASSUME NEW e, Reported(e)
      PROVE  tpc # "panic" /\ evts # <<>> /\ Head(evts).ev = e /\ svc # "alloc"
  BY <1>4 DEF Reported, IInv, QuietBeforeReady
<1> USE DEF UnsafeKnown, svcVars, portVars, airVars, ghosts
<1>5. CASE DataSet \/ AdvStarted
  <2>1. UNCHANGED <<tpc, svc, queue, unsafe>> /\ evts' = Tail(evts) /\ \E e : Reported(e)
    BY <1>5 DEF DataSet, AdvStarted
  <2>2. QED
    BY <1>2, <1>4, <2>1
<1>6. CASE Connected
  <2> DEFINE m == [cmd |-> "CONNECT", hdl |-> Head(evts).hdl]
  <2>1. /\ Reported("CONNECT") /\ UNCHANGED <<svc, unsafe>> /\ Callback(m)
        /\ evts' = Append(Tail(evts), Happens("ADV_STOP"))
    BY <1>6 DEF Connected
  <2>2. m \in Msg /\ ~UnsafeMsg(m)
    BY <1>2, <1>4, <2>1, EventTypes, MessageTypes, PlainSafe
  <2>3. EvtsSafe(evts', unsafe)
    BY <1>1, <1>2, <1>4, <2>1, EvtsSafeAfter, PlainSafe
  <2>4. QueueSafe(queue', unsafe) /\ (tpc' = "panic" => unsafe \/ svc' = "null")
    BY <1>3, <1>4, <2>1, <2>2
  <2>5. QED
    BY <2>1, <2>3, <2>4
<1>7. CASE Disconnected
  <2>1. /\ Reported("DISCONNECT") /\ UNCHANGED <<svc, unsafe>> /\ Callback(Plain("DISCONNECT"))
        /\ evts' = Tail(evts)
    BY <1>7 DEF Disconnected
  <2>2. QueueSafe(queue', unsafe) /\ (tpc' = "panic" => unsafe \/ svc' = "null")
    BY <1>3, <1>4, <2>1, PlainSafe
  <2>3. QED
    BY <1>2, <1>4, <2>1, <2>2
<1>8. CASE Written
  <2> DEFINE m == [cmd |-> "RECV_DATA", frame |-> Head(evts).frame, conn |-> Head(evts).conn]
  <2>1. /\ Reported("WRITE") /\ UNCHANGED <<svc, unsafe>> /\ Callback(m)
        /\ evts' = Tail(evts)
    BY <1>8 DEF Written
  <2>2. m \in Msg /\ (UnsafeMsg(m) => unsafe)
    BY <1>2, <1>4, <2>1, EventTypes, MessageTypes DEF UnsafeMsg, UnsafeEvt
  <2>3. QueueSafe(queue', unsafe) /\ (tpc' = "panic" => unsafe \/ svc' = "null")
    BY <1>3, <1>4, <2>1, <2>2
  <2>4. QED
    BY <1>2, <1>4, <2>1, <2>3
<1>9. CASE PeerConnect
  <2>1. PICK c \in ConnIds : evts' = Append(evts, [ev |-> "CONNECT", hdl |-> c])
    BY <1>9 DEF PeerConnect
  <2>2. EvtsSafe(evts', unsafe)
    BY <1>1, <2>1, EvtsSafeAfter, EventTypes, PlainSafe
  <2>3. UNCHANGED <<tpc, svc, queue, unsafe>>
    BY <1>9 DEF PeerConnect
  <2>4. QED
    BY <2>2, <2>3
<1>10. CASE PeerWrite
  <2>1. PICK c \in ConnIds, f \in Frames :
             /\ links[c] # 0 /\ evts' = Append(evts, [ev |-> "WRITE", frame |-> f, conn |-> links[c]])
             /\ unsafe' = (unsafe \/ f \in UnsafeFrames)
    BY <1>10 DEF PeerWrite
  <2> DEFINE e == [ev |-> "WRITE", frame |-> f, conn |-> links[c]]
  <2>2. e \in Evt /\ e.frame = f
    BY <2>1, EventTypes DEF Conn, IInv, TypeOK
  <2>3. unsafe' \in BOOLEAN /\ (unsafe => unsafe') /\ (UnsafeEvt(e) => unsafe')
    BY <1>1, <2>1, <2>2 DEF UnsafeEvt
  <2>4. EvtsSafe(evts, unsafe') /\ QueueSafe(queue, unsafe')
    BY <1>1, <2>3 DEF EvtsSafe, QueueSafe
  <2>5. EvtsSafe(evts', unsafe')
    BY <1>1, <2>1, <2>2, <2>3, <2>4, EvtsSafeAfter
  <2>6. UNCHANGED <<tpc, svc, queue>>
    BY <1>10 DEF PeerWrite
  <2>7. QED
    BY <2>3, <2>4, <2>5, <2>6
<1>11. ASSUME NEW c \in ConnIds, LinkDown(c) PROVE UnsafeKnown'
  <2>1. UNCHANGED <<tpc, svc, queue, unsafe>> /\ evts' = Append(evts, Happens("DISCONNECT"))
    BY <1>11 DEF LinkDown
  <2>2. EvtsSafe(evts', unsafe)
    BY <1>1, <2>1, EvtsSafeAfter, PlainSafe
  <2>3. QED
    BY <2>1, <2>2
<1>12. CASE Reboot
  BY <1>12 DEF Reboot, QueueSafe, EvtsSafe
<1>13. QED
  BY <1>5, <1>6, <1>7, <1>8, <1>9, <1>10, <1>11, <1>12 DEF Bluetooth, Phone

(* A crash of a serving service has its cause in the history. *)
THEOREM CrashesExplained == Spec => []UnsafeKnown
<1>1. Init => UnsafeKnown
  BY DEF Init, UnsafeKnown, QueueSafe, EvtsSafe
<1>2. IInv /\ UnsafeKnown /\ [Next]_vars => UnsafeKnown'
  <2>1. UNCHANGED vars /\ UnsafeKnown => UnsafeKnown'
    BY DEF vars, svcVars, portVars, airVars, ghosts, UnsafeKnown
  <2>2. QED
    BY <2>1, UnsafeTask, UnsafeRest DEF Next
<1>3. QED
  BY <1>1, <1>2, InductiveInvariant, PTL DEF Spec

(* The service implements Provisioning: it stops only once it has handed    *)
(* over a token, and no early exit cuts a serving service short; a crash    *)
(* does only after an unsafe frame was written or a handler found no        *)
(* memory.                                                                  *)
THEOREM Implements == Spec => StopsOnlyWithToken
<1> USE DEF phase
<1>1. Init => P!Init
  BY DEF Init, P!Init
<1>2. IInv /\ UnsafeKnown /\ [Next]_vars => [P!Next]_P!vars
  <2> SUFFICES ASSUME IInv, UnsafeKnown, [Next]_vars PROVE [P!Next]_P!vars
    OBVIOUS
  <2> USE DEF svcVars, portVars, airVars, ghosts, IInv, Lifetime, P!Next, P!vars
  <2>1. CASE UNCHANGED <<svc, isStop, token>> /\ (unsafe' = unsafe \/ unsafe' = TRUE)
    BY <2>1 DEF P!Upset
  <2>2. CASE ServiceAllocate
    <3>1. phase = "off" /\ phase' = "off" /\ UNCHANGED <<token, unsafe>>
      BY <2>2 DEF ServiceAllocate
    <3>2. QED
      BY <3>1
  <2>3. CASE ServiceReady
    <3>1. svc = "alloc" /\ ~isStop /\ UNCHANGED <<isStop, token, unsafe>>
      BY <2>3 DEF ServiceReady
    <3>2. svc' = "ready" \/ svc' = svc
      BY <2>3 DEF ServiceReady
    <3>3. QED
      BY <3>1, <3>2 DEF P!Open
  <2>4. CASE LoopGetToken
    <3>1. svc = "ready" /\ token' = TRUE /\ UNCHANGED <<svc, isStop, unsafe>>
      BY <2>4 DEF LoopGetToken, Handling, TypeOK
    <3>2. QED
      BY <3>1 DEF P!Deliver, TypeOK
  <2>5. CASE LoopStop
    <3>1. svc = "ready" /\ isStop' = TRUE /\ UNCHANGED <<svc, token, unsafe>>
      BY <2>5 DEF LoopStop, Handling, TypeOK
    <3>2. token
      BY <2>5 DEF LoopStop, Handling, StopHasToken, TypeOK
    <3>3. QED
      BY <3>1, <3>2 DEF P!Close, TypeOK
  <2>6. CASE LoopFree
    <3>1. svc = "ready" /\ isStop /\ svc' = "null" /\ UNCHANGED <<isStop, token, unsafe>>
      BY <2>6 DEF LoopFree
    <3>2. QED
      BY <3>1 DEF P!Finish
  <2>7. CASE Reboot
    <3>1. phase = "over" \/ unsafe
      BY <2>7 DEF Reboot, UnsafeKnown
    <3>2. phase' = "off" /\ token' = FALSE /\ unsafe' = FALSE
      BY <2>7 DEF Reboot
    <3>3. QED
      BY <3>1, <3>2 DEF P!Restart
  <2>8. CASE \/ ResolveLicense \/ LoopIdle \/ LoopStart \/ AdvWait \/ AdvCheck \/ AdvGap
             \/ LoopConnect \/ LoopDisconnect \/ LoopRemove \/ Yield
    BY <2>1, <2>8 DEF ResolveLicense, LoopIdle, LoopStart, AdvWait, AdvCheck, AdvGap,
       LoopConnect, LoopDisconnect, LoopRemove, Yield
  <2>13. CASE LoopRecvData \/ LoopBadToken
    BY <2>1, <2>13 DEF LoopRecvData, LoopBadToken, FrameCrashes
  <2>9. CASE Bluetooth
    BY <2>1, <2>9 DEF Bluetooth, DataSet, AdvStarted, Connected, Disconnected, Written
  <2>10. CASE Phone
    BY <2>1, <2>10 DEF Phone, PeerConnect, PeerWrite, LinkDown, TypeOK
  <2>11. CASE UNCHANGED vars
    BY <2>1, <2>11 DEF vars
  <2>12. QED
    BY <2>2, <2>3, <2>4, <2>5, <2>6, <2>7, <2>8, <2>9, <2>10, <2>11, <2>13 DEF Next, Task
<1>3. QED
  BY <1>1, <1>2, InductiveInvariant, CrashesExplained, PTL DEF Spec, P!Spec, StopsOnlyWithToken

-----------------------------------------------------------------------------
(***************************************************************************)
(* Proofs about what BleService keeps of the radio's state: the advertising *)
(* flag and the idle timer, when no call fails, for any connection ids and  *)
(* any bounds.  Both are behind the radio by the events and messages that   *)
(* are still on their way; the invariants say what these will make of them. *)
(***************************************************************************)

AdvEvts == {"ADV_START", "ADV_FAIL", "ADV_STOP"}

(* The last pending report of the advertisement says what the controller is *)
(* doing (on), and with none pending the flag (run) does.                   *)
Tells(s, run, on) ==
  /\ (\A i \in DOMAIN s : s[i].ev \notin AdvEvts) => run = on
  /\ \A i \in DOMAIN s :
       s[i].ev \in AdvEvts /\ (\A j \in DOMAIN s : i < j => s[j].ev \notin AdvEvts)
         => on = (s[i].ev = "ADV_START")

(* A pending connection will end the advertisement and report so. *)
FlagFollows == ~Pending("CONNECT") => Tells(evts, advRunning, advOn)

-----------------------------------------------------------------------------
LEMMA AppendFacts ==
  ASSUME NEW S, NEW s \in Seq(S), NEW e \in S
  PROVE  /\ Append(s, e) \in Seq(S)
         /\ Len(s) \in Nat /\ DOMAIN s = 1 .. Len(s)
         /\ DOMAIN Append(s, e) = 1 .. Len(s) + 1
         /\ Append(s, e)[Len(s) + 1] = e
         /\ \A i \in DOMAIN s : Append(s, e)[i] = s[i]
OBVIOUS

LEMMA TailFacts ==
  ASSUME NEW S, NEW s \in Seq(S), s # <<>>
  PROVE  /\ Tail(s) \in Seq(S) /\ Head(s) \in S
         /\ Len(s) \in Nat \ {0} /\ DOMAIN s = 1 .. Len(s)
         /\ DOMAIN Tail(s) = 1 .. Len(s) - 1
         /\ Head(s) = s[1]
         /\ \A i \in 1 .. Len(s) - 1 : Tail(s)[i] = s[i + 1]
OBVIOUS

LEMMA EachIsFirstOrLeft ==
  ASSUME NEW S, NEW s \in Seq(S), s # <<>>
  PROVE  \A i \in DOMAIN s : s[i] = Head(s) \/ \E j \in DOMAIN Tail(s) : Tail(s)[j] = s[i]
<1> SUFFICES ASSUME NEW i \in DOMAIN s, i # 1
             PROVE  \E j \in DOMAIN Tail(s) : Tail(s)[j] = s[i]
  BY TailFacts
<1>1. i - 1 \in DOMAIN Tail(s) /\ Tail(s)[i - 1] = s[i]
  <2>1. i - 1 \in 1 .. Len(s) - 1 /\ (i - 1) + 1 = i
    BY TailFacts
  <2>2. QED
    BY <2>1, TailFacts
<1>2. QED
  BY <1>1

LEMMA TellsAfter ==
  ASSUME NEW S, NEW s \in Seq(S), NEW e \in S, NEW run \in BOOLEAN, NEW on \in BOOLEAN
  PROVE  /\ e.ev \notin AdvEvts /\ Tells(s, run, on) => Tells(Append(s, e), run, on)
         /\ e.ev \in AdvEvts /\ on = (e.ev = "ADV_START") => Tells(Append(s, e), run, on)
<1> DEFINE n == Len(s)
           r == Append(s, e)
<1>1. n \in Nat /\ DOMAIN s = 1 .. n /\ DOMAIN r = 1 .. n + 1 /\ r[n + 1] = e
      /\ \A i \in DOMAIN s : r[i] = s[i]
  BY AppendFacts
<1> HIDE DEF n, r
<1>2. /\ n + 1 \in DOMAIN r
      /\ \A i \in DOMAIN r : i = n + 1 \/ i \in DOMAIN s
      /\ \A i \in DOMAIN s : i \in DOMAIN r /\ i < n + 1 /\ ~(n + 1 < i)
  BY <1>1
<1>3. ASSUME e.ev \notin AdvEvts, Tells(s, run, on) PROVE Tells(r, run, on)
  <2>1. (\A i \in DOMAIN r : r[i].ev \notin AdvEvts) => run = on
    BY <1>1, <1>2, <1>3 DEF Tells
  <2>2. ASSUME NEW i \in DOMAIN r, r[i].ev \in AdvEvts,
               \A j \in DOMAIN r : i < j => r[j].ev \notin AdvEvts
        PROVE  on = (r[i].ev = "ADV_START")
    <3>1. i \in DOMAIN s
      BY <1>1, <1>2, <1>3, <2>2
    <3>2. \A j \in DOMAIN s : i < j => s[j].ev \notin AdvEvts
      BY <1>1, <1>2, <2>2
    <3>3. QED
      BY <1>1, <1>3, <2>2, <3>1, <3>2 DEF Tells
  <2>3. QED
    BY <2>1, <2>2 DEF Tells
<1>4. ASSUME e.ev \in AdvEvts, on = (e.ev = "ADV_START") PROVE Tells(r, run, on)
  <2>1. ~(\A i \in DOMAIN r : r[i].ev \notin AdvEvts)
    BY <1>1, <1>2, <1>4
  <2>2. ASSUME NEW i \in DOMAIN r, \A j \in DOMAIN r : i < j => r[j].ev \notin AdvEvts
        PROVE  i = n + 1
    BY <1>1, <1>2, <1>4, <2>2
  <2>3. QED
    BY <1>1, <1>4, <2>1, <2>2 DEF Tells
<1>5. QED
  BY <1>3, <1>4 DEF r

LEMMA TellsRest ==
  ASSUME NEW S, NEW s \in Seq(S), s # <<>>, NEW run \in BOOLEAN, NEW on \in BOOLEAN,
         Tells(s, run, on)
  PROVE  /\ Head(s).ev \notin AdvEvts => Tells(Tail(s), run, on)
         /\ Head(s).ev \in AdvEvts => Tells(Tail(s), Head(s).ev = "ADV_START", on)
<1> DEFINE n == Len(s)
           r == Tail(s)
           h == Head(s)
<1>1. /\ n \in Nat \ {0} /\ DOMAIN s = 1 .. n /\ DOMAIN r = 1 .. n - 1 /\ s[1] = h
      /\ \A i \in 1 .. n - 1 : r[i] = s[i + 1]
  BY TailFacts
<1> HIDE DEF n, r, h
<1>2. /\ 1 \in DOMAIN s
      /\ \A i \in DOMAIN r : i + 1 \in DOMAIN s /\ r[i] = s[i + 1] /\ 1 < i + 1
      /\ \A i \in DOMAIN s : i = 1 \/ (i - 1 \in DOMAIN r /\ r[i - 1] = s[i])
  BY <1>1
<1>3. ASSUME NEW i \in DOMAIN r, r[i].ev \in AdvEvts,
             \A j \in DOMAIN r : i < j => r[j].ev \notin AdvEvts
      PROVE  on = (r[i].ev = "ADV_START")
  <2>1. ASSUME NEW j \in DOMAIN s, i + 1 < j PROVE s[j].ev \notin AdvEvts
    <3>1. j - 1 \in DOMAIN r /\ r[j - 1] = s[j] /\ i < j - 1
      BY <1>1, <1>2, <2>1
    <3>2. QED
      BY <1>3, <3>1
  <2>2. QED
    BY <1>2, <1>3, <2>1 DEF Tells
<1>4. ASSUME \A i \in DOMAIN r : r[i].ev \notin AdvEvts
      PROVE  /\ h.ev \notin AdvEvts => run = on
             /\ h.ev \in AdvEvts => (h.ev = "ADV_START") = on
  <2>1. \A j \in DOMAIN s : j = 1 \/ s[j].ev \notin AdvEvts
    BY <1>2, <1>4
  <2>2. ASSUME h.ev \notin AdvEvts PROVE run = on
    BY <1>1, <2>1, <2>2 DEF Tells
  <2>3. ASSUME h.ev \in AdvEvts PROVE on = (h.ev = "ADV_START")
    <3>1. \A j \in DOMAIN s : 1 < j => s[j].ev \notin AdvEvts
      BY <1>1, <2>1
    <3>2. QED
      BY <1>1, <1>2, <2>3, <3>1 DEF Tells
  <2>4. QED
    BY <2>2, <2>3
<1>5. ASSUME h.ev \notin AdvEvts PROVE Tells(r, run, on)
  BY <1>3, <1>4, <1>5 DEF Tells
<1>6. ASSUME h.ev \in AdvEvts PROVE Tells(r, h.ev = "ADV_START", on)
  BY <1>3, <1>4, <1>6 DEF Tells
<1>7. QED
  BY <1>5, <1>6 DEF r, h

(* What an event at the end, or the first one's handling, does to it. *)
LEMMA FlagAfterEvent ==
  ASSUME TypeOK, FlagFollows, NEW e \in Evt, evts' = Append(evts, e),
         e.ev \notin AdvEvts, UNCHANGED <<advRunning, advOn>>
  PROVE  FlagFollows'
<1>1. /\ evts \in Seq(Evt) /\ advRunning \in BOOLEAN /\ advOn \in BOOLEAN
  BY DEF TypeOK
<1>2. \A i \in DOMAIN evts : i \in DOMAIN evts' /\ evts'[i] = evts[i]
  BY <1>1, AppendFacts
<1>3. Pending("CONNECT") => Pending("CONNECT")'
  BY <1>2 DEF Pending
<1>4. Tells(evts, advRunning, advOn) => Tells(evts', advRunning, advOn)
  BY <1>1, TellsAfter
<1>5. QED
  BY <1>3, <1>4 DEF FlagFollows

LEMMA FlagAfterReport ==
  ASSUME TypeOK, NEW s \in Seq(Evt), NEW e \in Evt, evts' = Append(s, e), e.ev \in AdvEvts,
         advRunning' \in BOOLEAN, advOn' = (e.ev = "ADV_START")
  PROVE  FlagFollows'
<1>1. Tells(evts', advRunning', advOn')
  BY TellsAfter
<1>2. QED
  BY <1>1 DEF FlagFollows

LEMMA FlagAfterOther ==
  ASSUME TypeOK, FlagFollows, evts # <<>>, evts' = Tail(evts), Head(evts).ev \notin AdvEvts,
         Head(evts).ev # "CONNECT", UNCHANGED <<advRunning, advOn>>
  PROVE  FlagFollows'
<1>1. evts \in Seq(Evt) /\ advRunning \in BOOLEAN /\ advOn \in BOOLEAN
  BY DEF TypeOK
<1>2. Pending("CONNECT") => Pending("CONNECT")'
  <2>1. \A i \in DOMAIN evts : evts[i] = Head(evts) \/ \E j \in DOMAIN evts' : evts'[j] = evts[i]
    BY <1>1, EachIsFirstOrLeft
  <2>2. QED
    BY <2>1 DEF Pending
<1>3. Tells(evts, advRunning, advOn) => Tells(evts', advRunning, advOn)
  BY <1>1, TellsRest
<1>4. QED
  BY <1>2, <1>3 DEF FlagFollows

LEMMA FlagAfterAdv ==
  ASSUME TypeOK, FlagFollows, evts # <<>>, evts' = Tail(evts), Head(evts).ev \in AdvEvts,
         advRunning' = (Head(evts).ev = "ADV_START"), UNCHANGED advOn
  PROVE  FlagFollows'
<1>1. evts \in Seq(Evt) /\ advRunning \in BOOLEAN /\ advOn \in BOOLEAN
  BY DEF TypeOK
<1>2. Pending("CONNECT") => Pending("CONNECT")'
  <2>1. \A i \in DOMAIN evts : evts[i] = Head(evts) \/ \E j \in DOMAIN evts' : evts'[j] = evts[i]
    BY <1>1, EachIsFirstOrLeft
  <2>2. QED
    BY <2>1 DEF Pending, AdvEvts
<1>3. Tells(evts, advRunning, advOn) => Tells(evts', advRunning', advOn)
  BY <1>1, TellsRest
<1>4. QED
  BY <1>2, <1>3 DEF FlagFollows

LEMMA FlagInit == Init => FlagFollows
<1> SUFFICES ASSUME Init PROVE FlagFollows
  OBVIOUS
<1>1. evts = <<>> /\ advRunning = advOn
  BY DEF Init
<1>2. QED
  BY <1>1 DEF FlagFollows, Tells

(* Each step keeps the flag behind the reports that are on their way. *)
LEMMA FlagStep ==
  ASSUME Faults = FALSE, IInv, FlagFollows, Next
  PROVE  FlagFollows'
<1>0. /\ TypeOK /\ evts \in Seq(Evt) /\ advRunning \in BOOLEAN /\ advOn \in BOOLEAN
      /\ \A e \in AdvEvts \cup {"DATA_SET", "RSP_SET", "DISCONNECT"} : Happens(e) \in Evt /\ Happens(e).ev = e
  BY EventTypes DEF IInv, TypeOK, AdvEvts, Happens
<1>1. CASE UNCHANGED <<evts, advRunning, advOn>>
  BY <1>1 DEF FlagFollows, Pending
<1>2. ASSUME RequestAdvertising, advRunning' \in BOOLEAN PROVE FlagFollows'
  <2>1. evts' = Append(evts, Happens("ADV_START")) /\ advOn' = TRUE
    BY <1>2 DEF RequestAdvertising
  <2>2. QED
    BY <1>0, <1>2, <2>1, FlagAfterReport DEF AdvEvts
<1>3. CASE LoopStart
  <2>1. /\ evts' = evts \o <<Happens("DATA_SET"), Happens("RSP_SET")>>
        /\ UNCHANGED <<advRunning, advOn>>
    BY <1>3 DEF LoopStart
  <2> DEFINE s == Append(evts, Happens("DATA_SET"))
  <2>2. s \in Seq(Evt) /\ evts' = Append(s, Happens("RSP_SET"))
    BY <1>0, <2>1
  <2>3. Tells(evts, advRunning, advOn) => Tells(s, advRunning, advOn)
    BY <1>0, TellsAfter DEF AdvEvts
  <2>4. /\ \A i \in DOMAIN evts : i \in DOMAIN s /\ s[i] = evts[i]
    BY <1>0, AppendFacts
  <2> HIDE DEF s
  <2>5. Tells(s, advRunning, advOn) => Tells(evts', advRunning, advOn)
    BY <1>0, <2>2, TellsAfter DEF AdvEvts
  <2>6. \A i \in DOMAIN s : i \in DOMAIN evts' /\ evts'[i] = s[i]
    BY <1>0, <2>2, AppendFacts
  <2>7. Pending("CONNECT") => Pending("CONNECT")'
    BY <2>4, <2>6 DEF Pending
  <2>8. QED
    BY <2>1, <2>3, <2>5, <2>7 DEF FlagFollows
<1>4. CASE AdvCheck
  <2>1. CASE UNCHANGED <<advOn, evts>>
    BY <1>1, <1>4, <2>1 DEF AdvCheck, portVars
  <2>2. CASE advOn' = FALSE /\ evts' = Append(evts, Happens("ADV_STOP"))
    <3>1. advRunning' = advRunning
      BY <1>4 DEF AdvCheck, portVars
    <3>2. Happens("ADV_STOP") \in Evt /\ Happens("ADV_STOP").ev = "ADV_STOP" /\ "ADV_STOP" \in AdvEvts
      BY <1>0 DEF AdvEvts
    <3>3. QED
      BY <1>0, <2>2, <3>1, <3>2, FlagAfterReport
  <2>3. CASE RequestAdvertising
    BY <1>0, <1>2, <1>4, <2>3 DEF AdvCheck, portVars
  <2>4. QED
    BY <1>4, <2>1, <2>2, <2>3 DEF AdvCheck
<1>5. CASE AdvGap
  BY <1>2, <1>5 DEF AdvGap
<1>6. CASE LoopStop
  <2>1. advRunning' = FALSE /\ advOn' = FALSE /\ evts' = Append(evts, Happens("ADV_STOP"))
    BY <1>6 DEF LoopStop
  <2>2. QED
    BY <1>0, <2>1, FlagAfterReport DEF AdvEvts
<1>7. CASE DataSet
  <2>1. /\ evts # <<>> /\ evts' = Tail(evts) /\ UNCHANGED <<advRunning, advOn>>
        /\ Head(evts).ev \in {"DATA_SET", "RSP_SET"}
    BY <1>7 DEF DataSet, Reported
  <2>2. QED
    BY <1>0, <2>1, FlagAfterOther DEF AdvEvts
<1>8. CASE AdvStarted
  <2>1. /\ evts # <<>> /\ evts' = Tail(evts) /\ UNCHANGED advOn
        /\ Head(evts).ev \in AdvEvts /\ advRunning' = (Head(evts).ev = "ADV_START")
    BY <1>8 DEF AdvStarted, Reported, AdvEvts
  <2>2. QED
    BY <1>0, <2>1, FlagAfterAdv
<1>9. CASE Connected
  <2>1. /\ evts # <<>> /\ advRunning' = FALSE /\ advOn' = FALSE
        /\ evts' = Append(Tail(evts), Happens("ADV_STOP"))
    BY <1>9 DEF Connected, Reported
  <2>2. Tail(evts) \in Seq(Evt)
    BY <1>0, <2>1, TailFacts
  <2>3. Happens("ADV_STOP") \in Evt /\ Happens("ADV_STOP").ev = "ADV_STOP" /\ "ADV_STOP" \in AdvEvts
    BY <1>0 DEF AdvEvts
  <2>4. QED
    BY <1>0, <2>1, <2>2, <2>3, FlagAfterReport
<1>10. CASE Disconnected \/ Written
  <2>1. /\ evts # <<>> /\ evts' = Tail(evts) /\ UNCHANGED <<advRunning, advOn>>
        /\ Head(evts).ev \in {"DISCONNECT", "WRITE"}
    BY <1>10 DEF Disconnected, Written, Reported, portVars
  <2>2. QED
    BY <1>0, <2>1, FlagAfterOther DEF AdvEvts
<1>11. CASE PeerConnect
  <2>1. PICK c \in ConnIds : evts' = Append(evts, [ev |-> "CONNECT", hdl |-> c])
    BY <1>11 DEF PeerConnect
  <2>2. Len(evts) + 1 \in DOMAIN evts' /\ evts'[Len(evts) + 1].ev = "CONNECT"
    BY <1>0, <2>1
  <2>3. QED
    BY <2>2 DEF FlagFollows, Pending
<1>12. CASE PeerWrite
  <2>1. PICK c \in ConnIds, f \in Frames :
          links[c] # 0 /\ evts' = Append(evts, [ev |-> "WRITE", frame |-> f, conn |-> links[c]])
    BY <1>12 DEF PeerWrite
  <2>2. links[c] \in Conn
    BY <1>0, <2>1, ConstantsAssumption DEF TypeOK, Conn
  <2>3. [ev |-> "WRITE", frame |-> f, conn |-> links[c]] \in Evt
    BY <2>2, EventTypes
  <2>4. UNCHANGED <<advRunning, advOn>>
    BY <1>12 DEF PeerWrite, portVars
  <2>5. QED
    BY <1>0, <2>1, <2>3, <2>4, FlagAfterEvent DEF AdvEvts
<1>13. CASE \E c \in ConnIds : LinkDown(c)
  <2>1. evts' = Append(evts, Happens("DISCONNECT")) /\ UNCHANGED <<advRunning, advOn>>
    BY <1>13 DEF LinkDown, portVars
  <2>2. QED
    BY <1>0, <2>1, FlagAfterEvent DEF AdvEvts
<1>14. CASE Reboot
  <2>1. evts' = <<>> /\ advRunning' = advOn'
    BY <1>14 DEF Reboot
  <2>2. QED
    BY <2>1 DEF FlagFollows, Tells
<1>15. CASE \/ ResolveLicense \/ ServiceAllocate \/ ServiceReady \/ LoopIdle \/ AdvWait
            \/ LoopConnect \/ LoopDisconnect \/ LoopRecvData \/ LoopGetToken \/ LoopBadToken
            \/ LoopRemove \/ LoopFree \/ Yield
  <2>1. UNCHANGED <<evts, advRunning, advOn>>
    BY <1>15 DEF ResolveLicense, ServiceAllocate, ServiceReady, LoopIdle, AdvWait, LoopConnect,
         LoopDisconnect, LoopRecvData, LoopGetToken, LoopBadToken, LoopRemove, LoopFree, Yield,
         airVars, portVars
  <2>2. QED
    BY <1>1, <2>1
<1>16. QED
  BY <1>3, <1>4, <1>5, <1>6, <1>7, <1>8, <1>9, <1>10, <1>11, <1>12, <1>13, <1>14, <1>15
     DEF Next, Task, Bluetooth, Phone

(* When no call fails, s_adv_running agrees with the controller as soon as  *)
(* no report is on its way, however the two tasks that write it interleave. *)
THEOREM FlagCorrect ==
  ASSUME Faults = FALSE
  PROVE  Spec => []RunningFlagAgrees
<1>1. FlagFollows /\ IInv /\ [Next]_vars => FlagFollows'
  <2>1. ASSUME FlagFollows, UNCHANGED vars PROVE FlagFollows'
    BY <2>1 DEF vars, portVars, airVars, FlagFollows, Pending
  <2>2. QED
    BY <2>1, FlagStep
<1>2. FlagFollows => RunningFlagAgrees
  BY DEF FlagFollows, RunningFlagAgrees, Tells, Pending, AdvEvts
<1>3. QED
  BY <1>1, <1>2, FlagInit, InductiveInvariant, PTL DEF Spec

-----------------------------------------------------------------------------
(* The idle timer.                                                          *)

(* Behind each connection that is to be reported comes its end. *)
EventsEnd(s) ==
  \A i \in DOMAIN s : s[i].ev = "CONNECT" => \E j \in DOMAIN s : i < j /\ s[j].ev = "DISCONNECT"

(* So it does in the messages q, and for the connection a timer t runs for. *)
MessagesEnd(q, t) ==
  /\ \A i \in DOMAIN q : q[i].cmd = "CONNECT" => \E j \in DOMAIN q : i < j /\ q[j].cmd = "DISCONNECT"
  /\ t => \E j \in DOMAIN q : q[j].cmd = "DISCONNECT"

(* Once all links are down, the end of each is on its way to the task. *)
EndsFollow ==
  /\ tpc = "stack_init" \/ svc = "ready" => cbs
  /\ svc = "ready" /\ NoLink =>
       EventsEnd(evts) /\ (Pending("DISCONNECT") \/ MessagesEnd(queue, timer))

(* The message being handled, and what is left to do of it. *)
HeadDone ==
  /\ tpc \in {"adv_wait", "adv_check", "adv_gap"} => Head(queue).cmd = "START"
  /\ tpc = "remove" /\ Head(queue).cmd = "DISCONNECT" => ~timer

LEMMA EventsEndAfter ==
  ASSUME NEW S, NEW s \in Seq(S), NEW e \in S
  PROVE  /\ e.ev = "DISCONNECT" => EventsEnd(Append(s, e))
         /\ e.ev # "CONNECT" /\ EventsEnd(s) => EventsEnd(Append(s, e))
         /\ (\E j \in DOMAIN s : s[j].ev = "DISCONNECT") =>
              \E j \in DOMAIN Append(s, e) : Append(s, e)[j].ev = "DISCONNECT"
         /\ e.ev = "DISCONNECT" =>
              \E j \in DOMAIN Append(s, e) : Append(s, e)[j].ev = "DISCONNECT"
<1> DEFINE n == Len(s)
           r == Append(s, e)
<1>1. n \in Nat /\ DOMAIN s = 1 .. n /\ DOMAIN r = 1 .. n + 1 /\ r[n + 1] = e
      /\ \A i \in DOMAIN s : r[i] = s[i]
  BY AppendFacts
<1> HIDE DEF n, r
<1>2. /\ n + 1 \in DOMAIN r
      /\ \A i \in DOMAIN r : i = n + 1 \/ i \in DOMAIN s
      /\ \A i \in DOMAIN s : i \in DOMAIN r /\ i < n + 1
  BY <1>1
<1>3. e.ev = "DISCONNECT" => EventsEnd(r)
  BY <1>1, <1>2 DEF EventsEnd
<1>4. e.ev # "CONNECT" /\ EventsEnd(s) => EventsEnd(r)
  BY <1>1, <1>2 DEF EventsEnd
<1>5. (\E j \in DOMAIN s : s[j].ev = "DISCONNECT") => \E j \in DOMAIN r : r[j].ev = "DISCONNECT"
  BY <1>1, <1>2
<1>6. e.ev = "DISCONNECT" => \E j \in DOMAIN r : r[j].ev = "DISCONNECT"
  BY <1>1, <1>2
<1>7. QED
  BY <1>3, <1>4, <1>5, <1>6 DEF r

LEMMA EventsEndRest ==
  ASSUME NEW S, NEW s \in Seq(S), s # <<>>, EventsEnd(s)
  PROVE  /\ EventsEnd(Tail(s))
         /\ Head(s).ev = "CONNECT" => \E j \in DOMAIN Tail(s) : Tail(s)[j].ev = "DISCONNECT"
         /\ Head(s).ev # "DISCONNECT" /\ (\E j \in DOMAIN s : s[j].ev = "DISCONNECT") =>
              \E j \in DOMAIN Tail(s) : Tail(s)[j].ev = "DISCONNECT"
<1> DEFINE n == Len(s)
           r == Tail(s)
           h == Head(s)
<1>1. /\ n \in Nat \ {0} /\ DOMAIN s = 1 .. n /\ DOMAIN r = 1 .. n - 1 /\ s[1] = h
      /\ \A i \in 1 .. n - 1 : r[i] = s[i + 1]
  BY TailFacts
<1> HIDE DEF n, r, h
<1>2. /\ 1 \in DOMAIN s
      /\ \A i \in DOMAIN r : i + 1 \in DOMAIN s /\ r[i] = s[i + 1]
      /\ \A i \in DOMAIN s : i = 1 \/ (i - 1 \in DOMAIN r /\ r[i - 1] = s[i])
  BY <1>1
<1>3. ASSUME NEW i \in DOMAIN r, r[i].ev = "CONNECT"
      PROVE  \E j \in DOMAIN r : i < j /\ r[j].ev = "DISCONNECT"
  <2>1. PICK j \in DOMAIN s : i + 1 < j /\ s[j].ev = "DISCONNECT"
    BY <1>2, <1>3 DEF EventsEnd
  <2>2. j - 1 \in DOMAIN r /\ r[j - 1] = s[j] /\ i < j - 1
    BY <1>1, <1>2, <2>1
  <2>3. QED
    BY <2>1, <2>2
<1>4. ASSUME NEW j \in DOMAIN s, j # 1, s[j].ev = "DISCONNECT"
      PROVE  \E k \in DOMAIN r : r[k].ev = "DISCONNECT"
  BY <1>2, <1>4
<1>5. ASSUME h.ev = "CONNECT" PROVE \E k \in DOMAIN r : r[k].ev = "DISCONNECT"
  <2>1. PICK j \in DOMAIN s : 1 < j /\ s[j].ev = "DISCONNECT"
    BY <1>1, <1>2, <1>5 DEF EventsEnd
  <2>2. QED
    BY <1>4, <2>1
<1>6. ASSUME h.ev # "DISCONNECT", NEW j \in DOMAIN s, s[j].ev = "DISCONNECT"
      PROVE  \E k \in DOMAIN r : r[k].ev = "DISCONNECT"
  BY <1>1, <1>4, <1>6
<1>7. EventsEnd(r)
  BY <1>3 DEF EventsEnd
<1>8. QED
  BY <1>5, <1>6, <1>7 DEF r, h

LEMMA MessagesEndAfter ==
  ASSUME NEW S, NEW q \in Seq(S), NEW m \in S, NEW t \in BOOLEAN
  PROVE  /\ m.cmd = "DISCONNECT" => MessagesEnd(Append(q, m), t)
         /\ m.cmd # "CONNECT" /\ MessagesEnd(q, t) => MessagesEnd(Append(q, m), t)
<1> DEFINE n == Len(q)
           r == Append(q, m)
<1>1. n \in Nat /\ DOMAIN q = 1 .. n /\ DOMAIN r = 1 .. n + 1 /\ r[n + 1] = m
      /\ \A i \in DOMAIN q : r[i] = q[i]
  BY AppendFacts
<1> HIDE DEF n, r
<1>2. /\ n + 1 \in DOMAIN r
      /\ \A i \in DOMAIN r : i = n + 1 \/ i \in DOMAIN q
      /\ \A i \in DOMAIN q : i \in DOMAIN r /\ i < n + 1
  BY <1>1
<1>3. m.cmd = "DISCONNECT" => MessagesEnd(r, t)
  BY <1>1, <1>2 DEF MessagesEnd
<1>4. m.cmd # "CONNECT" /\ MessagesEnd(q, t) => MessagesEnd(r, t)
  BY <1>1, <1>2 DEF MessagesEnd
<1>5. QED
  BY <1>3, <1>4 DEF r

LEMMA MessagesEndRest ==
  ASSUME NEW S, NEW q \in Seq(S), q # <<>>, NEW t \in BOOLEAN, MessagesEnd(q, t)
  PROVE  /\ (Head(q).cmd = "DISCONNECT" => ~t) => MessagesEnd(Tail(q), t)
         /\ Head(q).cmd = "CONNECT" => MessagesEnd(q, TRUE)
<1> DEFINE n == Len(q)
           r == Tail(q)
           h == Head(q)
<1>1. /\ n \in Nat \ {0} /\ DOMAIN q = 1 .. n /\ DOMAIN r = 1 .. n - 1 /\ q[1] = h
      /\ \A i \in 1 .. n - 1 : r[i] = q[i + 1]
  BY TailFacts
<1> HIDE DEF n, r, h
<1>2. /\ 1 \in DOMAIN q
      /\ \A i \in DOMAIN r : i + 1 \in DOMAIN q /\ r[i] = q[i + 1]
      /\ \A i \in DOMAIN q : i = 1 \/ (i - 1 \in DOMAIN r /\ r[i - 1] = q[i])
  BY <1>1
<1>3. ASSUME NEW i \in DOMAIN r, r[i].cmd = "CONNECT"
      PROVE  \E j \in DOMAIN r : i < j /\ r[j].cmd = "DISCONNECT"
  <2>1. PICK j \in DOMAIN q : i + 1 < j /\ q[j].cmd = "DISCONNECT"
    BY <1>2, <1>3 DEF MessagesEnd
  <2>2. j - 1 \in DOMAIN r /\ r[j - 1] = q[j] /\ i < j - 1
    BY <1>1, <1>2, <2>1
  <2>3. QED
    BY <2>1, <2>2
<1>4. ASSUME t, h.cmd = "DISCONNECT" => ~t
      PROVE  \E j \in DOMAIN r : r[j].cmd = "DISCONNECT"
  <2>1. PICK j \in DOMAIN q : q[j].cmd = "DISCONNECT"
    BY <1>4 DEF MessagesEnd
  <2>2. j # 1
    BY <1>1, <1>4, <2>1
  <2>3. QED
    BY <1>2, <2>1, <2>2
<1>5. (h.cmd = "DISCONNECT" => ~t) => MessagesEnd(r, t)
  BY <1>3, <1>4 DEF MessagesEnd
<1>6. h.cmd = "CONNECT" => MessagesEnd(q, TRUE)
  BY <1>1, <1>2 DEF MessagesEnd
<1>7. QED
  BY <1>5, <1>6 DEF r, h

(* Without faults an insert puts the message at the end, and a callback     *)
(* either does so or panics.                                                *)
LEMMA NoFaults ==
  ASSUME Faults = FALSE
  PROVE  /\ \A q, m : Inserted(q, m) = {Append(q, m)}
         /\ \A m : svc = "ready" /\ cbs /\ Callback(m) => queue' = Append(queue, m) /\ tpc' = tpc
<1>1. \A q, m : Inserted(q, m) = {Append(q, m)}
  BY DEF Inserted
<1>2. ASSUME NEW m, svc = "ready", cbs, Callback(m) PROVE queue' = Append(queue, m) /\ tpc' = tpc
  BY <1>1, <1>2 DEF Callback
<1>3. QED
  BY <1>1, <1>2

LEMMA HeadStays ==
  ASSUME NEW S, NEW q \in Seq(S), q # <<>>, NEW m
  PROVE  Head(Append(q, m)) = Head(q)
OBVIOUS

LEMMA EndsInit == Init => EndsFollow /\ HeadDone
BY DEF Init, EndsFollow, HeadDone

(* The message under way stays what it is. *)
LEMMA HeadStep ==
  ASSUME Faults = FALSE, IInv, EndsFollow, HeadDone, Next
  PROVE  HeadDone'
<1>0. /\ queue \in Seq(Msg) /\ timer \in BOOLEAN
      /\ tpc \in {"adv_wait", "adv_check", "adv_gap", "remove"} => queue # <<>> /\ svc = "ready" /\ cbs
  BY DEF IInv, TypeOK, NodeHeld, Lifetime, EndsFollow
<1>1. CASE UNCHANGED <<tpc, queue, timer>>
  BY <1>1 DEF HeadDone
<1>2. CASE tpc' \notin {"adv_wait", "adv_check", "adv_gap", "remove"}
  BY <1>2 DEF HeadDone
<1>3. CASE LoopStart
  BY <1>2, <1>3 DEF LoopStart, HeadDone, svcVars, Handling
<1>4. CASE AdvWait \/ AdvGap
  BY <1>4 DEF AdvWait, AdvGap, HeadDone, RequestAdvertising
<1>5. CASE AdvCheck
  BY <1>5 DEF AdvCheck, HeadDone, RequestAdvertising
<1>6. CASE LoopConnect
  BY <1>6 DEF LoopConnect, HeadDone, Handling
<1>7. CASE LoopDisconnect
  BY <1>7 DEF LoopDisconnect, HeadDone
<1>8. CASE LoopRecvData
  <2>1. /\ tpc' \in {"remove", "panic"} /\ queue # <<>> /\ Head(queue).cmd = "RECV_DATA"
        /\ queue' = queue \/ \E m : queue' = Append(queue, m)
    BY <1>8, NoFaults DEF LoopRecvData, Handling
  <2>2. Head(queue') = Head(queue)
    BY <1>0, <2>1, HeadStays
  <2>3. QED
    BY <2>1, <2>2 DEF HeadDone
<1>9. CASE LoopGetToken
  <2>1. /\ tpc' = "remove" /\ queue # <<>> /\ Head(queue).cmd = "GET_TOKEN"
        /\ queue' = Append(queue, Plain("STOP"))
    BY <1>9, NoFaults DEF LoopGetToken, Handling
  <2>2. Head(queue') = Head(queue)
    BY <1>0, <2>1, HeadStays
  <2>3. QED
    BY <2>1, <2>2 DEF HeadDone
<1>10. CASE LoopStop
  BY <1>10 DEF LoopStop, HeadDone, Handling
<1>11. ASSUME NEW m, Callback(m), UNCHANGED timer PROVE HeadDone'
  <2>1. CASE tpc' \in {"adv_wait", "adv_check", "adv_gap", "remove"}
    <3>1. tpc' = tpc
      BY <1>11, <2>1 DEF Callback
    <3>2. queue # <<>> /\ queue' = Append(queue, m)
      BY <1>0, <1>11, <2>1, <3>1, NoFaults
    <3>3. Head(queue') = Head(queue)
      BY <1>0, <3>2, HeadStays
    <3>4. QED
      BY <1>11, <3>1, <3>3 DEF HeadDone
  <2>2. QED
    BY <1>2, <2>1
<1>12. CASE Connected \/ Disconnected \/ Written
  BY <1>11, <1>12 DEF Connected, Disconnected, Written
<1>13. CASE \/ ResolveLicense \/ ServiceAllocate \/ ServiceReady \/ LoopIdle \/ LoopRemove
            \/ LoopFree \/ Yield \/ Reboot \/ LoopBadToken
  BY <1>2, <1>13 DEF ResolveLicense, ServiceAllocate, ServiceReady, LoopIdle, LoopRemove,
       LoopFree, Yield, Reboot, LoopBadToken
<1>14. CASE DataSet \/ AdvStarted \/ Phone
  BY <1>1, <1>14 DEF DataSet, AdvStarted, Phone, PeerConnect, PeerWrite, LinkDown, svcVars
<1>15. QED
  BY <1>3, <1>4, <1>5, <1>6, <1>7, <1>8, <1>9, <1>10, <1>12, <1>13, <1>14
     DEF Next, Task, Bluetooth

(* A step that leaves the links, and adds to what is on its way no          *)
(* connection, or an end.                                                   *)
LEMMA EndsAfterEvent ==
  ASSUME IInv, EndsFollow, NEW e \in Evt, evts' = Append(evts, e),
         \/ e.ev # "CONNECT" /\ links' = links
         \/ e.ev = "DISCONNECT",
         UNCHANGED <<svc, cbs, queue, timer>>, tpc' = "stack_init" => tpc = "stack_init"
  PROVE  EndsFollow'
<1>1. evts \in Seq(Evt)
  BY DEF IInv, TypeOK
<1>2. tpc' = "stack_init" \/ svc' = "ready" => cbs'
  BY DEF EndsFollow
<1>3. ASSUME svc' = "ready", NoLink'
      PROVE  EventsEnd(evts') /\ (Pending("DISCONNECT")' \/ MessagesEnd(queue, timer)')
  <2>1. CASE e.ev = "DISCONNECT"
    BY <1>1, <2>1, EventsEndAfter DEF Pending
  <2>2. CASE e.ev # "CONNECT" /\ links' = links
    <3>1. EventsEnd(evts) /\ (Pending("DISCONNECT") \/ MessagesEnd(queue, timer))
      BY <1>3, <2>2 DEF EndsFollow, NoLink
    <3>2. EventsEnd(evts')
      BY <1>1, <2>2, <3>1, EventsEndAfter
    <3>3. Pending("DISCONNECT") => Pending("DISCONNECT")'
      BY <1>1, EventsEndAfter DEF Pending
    <3>4. QED
      BY <3>1, <3>2, <3>3
  <2>3. QED
    BY <2>1, <2>2
<1>4. QED
  BY <1>2, <1>3 DEF EndsFollow

(* A step of the task that leaves the radio and the events: what it makes   *)
(* of messages and timer keeps an end for each connection.                  *)
LEMMA EndsAfterMessage ==
  ASSUME IInv, EndsFollow, UNCHANGED <<svc, cbs, links, evts>>,
         tpc' = "stack_init" => tpc = "stack_init",
         svc = "ready" /\ MessagesEnd(queue, timer) => MessagesEnd(queue', timer')
  PROVE  EndsFollow'
BY DEF EndsFollow, NoLink, Pending

(* The report of something else than a link or its end, or an end that goes *)
(* from the events to the messages.                                         *)
LEMMA EndsAfterReport ==
  ASSUME IInv, EndsFollow, Faults = FALSE, evts # <<>>, UNCHANGED <<svc, cbs, links, timer>>,
         tpc' = "stack_init" => tpc = "stack_init",
         \/ evts' = Tail(evts) \/ evts' = Append(Tail(evts), Happens("ADV_STOP")),
         \/ /\ Head(evts).ev \notin {"CONNECT", "DISCONNECT"}
            /\ queue' = queue \/ \E m \in Msg : m.cmd # "CONNECT" /\ queue' = Append(queue, m)
         \/ Head(evts).ev = "CONNECT"
         \/ /\ Head(evts).ev = "DISCONNECT"
            /\ svc = "ready" => queue' = Append(queue, Plain("DISCONNECT"))
  PROVE  EndsFollow'
<1>1. /\ evts \in Seq(Evt) /\ Tail(evts) \in Seq(Evt) /\ queue \in Seq(Msg) /\ timer \in BOOLEAN
      /\ Happens("ADV_STOP") \in Evt /\ Happens("ADV_STOP").ev = "ADV_STOP"
      /\ Plain("DISCONNECT") \in Msg /\ Plain("DISCONNECT").cmd = "DISCONNECT"
  BY TailFacts, EventTypes, MessageTypes DEF IInv, TypeOK, Happens, Plain
<1>2. tpc' = "stack_init" \/ svc' = "ready" => cbs'
  BY DEF EndsFollow
<1>3. ASSUME svc' = "ready", NoLink'
      PROVE  EventsEnd(evts') /\ (Pending("DISCONNECT")' \/ MessagesEnd(queue', timer))
  <2>1. EventsEnd(evts) /\ (Pending("DISCONNECT") \/ MessagesEnd(queue, timer))
    BY <1>3 DEF EndsFollow, NoLink
  <2>2. EventsEnd(Tail(evts))
    BY <1>1, <2>1, EventsEndRest
  <2>3. EventsEnd(evts')
    BY <1>1, <2>2, EventsEndAfter
  <2>4. (\E j \in DOMAIN Tail(evts) : Tail(evts)[j].ev = "DISCONNECT") => Pending("DISCONNECT")'
    <3>1. evts' = Tail(evts) \/ evts' = Append(Tail(evts), Happens("ADV_STOP"))
      OBVIOUS
    <3>2. (\E j \in DOMAIN Tail(evts) : Tail(evts)[j].ev = "DISCONNECT") =>
            \E j \in DOMAIN evts' : evts'[j].ev = "DISCONNECT"
      BY <1>1, <3>1, EventsEndAfter
    <3>3. QED
      BY <3>2 DEF Pending
  <2>5. CASE Head(evts).ev = "CONNECT"
    BY <1>1, <2>1, <2>3, <2>4, <2>5, EventsEndRest
  <2>6. CASE /\ Head(evts).ev = "DISCONNECT"
             /\ svc = "ready" => queue' = Append(queue, Plain("DISCONNECT"))
    <3>1. queue' = Append(queue, Plain("DISCONNECT"))
      BY <1>3, <2>6
    <3>2. MessagesEnd(queue', timer)
      BY <1>1, <3>1, MessagesEndAfter
    <3>3. QED
      BY <2>3, <3>2
  <2>7. CASE /\ Head(evts).ev \notin {"CONNECT", "DISCONNECT"}
             /\ queue' = queue \/ \E m \in Msg : m.cmd # "CONNECT" /\ queue' = Append(queue, m)
    <3>1. Pending("DISCONNECT") => Pending("DISCONNECT")'
      BY <1>1, <2>1, <2>4, <2>7, EventsEndRest DEF Pending
    <3>2. MessagesEnd(queue, timer) => MessagesEnd(queue', timer)
      BY <1>1, <2>7, MessagesEndAfter
    <3>3. QED
      BY <2>1, <2>3, <3>1, <3>2
  <2>8. QED
    BY <2>5, <2>6, <2>7
<1>4. QED
  BY <1>2, <1>3 DEF EndsFollow

LEMMA EndsStep ==
  ASSUME Faults = FALSE, IInv, EndsFollow, HeadDone, Next
  PROVE  EndsFollow'
<1>0. /\ evts \in Seq(Evt) /\ queue \in Seq(Msg) /\ timer \in BOOLEAN
      /\ \A e \in AdvEvts \cup {"DATA_SET", "RSP_SET", "DISCONNECT"} : Happens(e) \in Evt /\ Happens(e).ev = e
      /\ \A c \in {"START", "DISCONNECT", "GET_TOKEN", "BAD_TOKEN", "STOP"} : Plain(c) \in Msg /\ Plain(c).cmd = c
  BY EventTypes, MessageTypes DEF IInv, TypeOK, AdvEvts, Happens, Plain
<1>1. CASE svc' # "ready" /\ tpc' # "stack_init"
  BY <1>1 DEF EndsFollow
<1>2. CASE ServiceAllocate
  BY <1>1, <1>2 DEF ServiceAllocate, IInv, Lifetime, EndsFollow
<1>3. CASE ServiceReady
  <2>1. /\ UNCHANGED <<timer, cbs, links, evts>> /\ tpc = "stack_init" /\ tpc' = "loop"
        /\ svc' = "ready" /\ queue' \in Inserted(<<>>, Plain("START"))
    BY <1>3 DEF ServiceReady, portVars, airVars
  <2>2. /\ ~timer /\ evts = <<>> /\ cbs
    BY <2>1 DEF IInv, Lifetime, QuietBeforeReady, EndsFollow
  <2>3. EventsEnd(evts')
    BY <2>1, <2>2 DEF EventsEnd
  <2>4. MessagesEnd(queue', timer')
    <3>1. <<>> \in Seq(Msg) /\ MessagesEnd(<<>>, FALSE)
      BY DEF MessagesEnd
    <3>2. MessagesEnd(Append(<<>>, Plain("START")), FALSE)
      BY <1>0, <3>1, MessagesEndAfter
    <3>3. queue' = Append(<<>>, Plain("START"))
      BY <2>1, NoFaults
    <3>4. timer' = FALSE
      BY <1>0, <2>1, <2>2
    <3>5. QED
      BY <3>2, <3>3, <3>4
  <2>5. cbs'
    BY <2>1, <2>2
  <2>6. QED
    BY <2>3, <2>4, <2>5 DEF EndsFollow
<1>4. CASE LoopStart
  <2>1. /\ evts' = evts \o <<Happens("DATA_SET"), Happens("RSP_SET")>>
        /\ UNCHANGED <<svc, cbs, links, queue, timer>> /\ tpc' = "adv_wait"
    BY <1>4 DEF LoopStart, svcVars
  <2> DEFINE s == Append(evts, Happens("DATA_SET"))
             d == Happens("DATA_SET")
             r == Happens("RSP_SET")
  <2>2. s \in Seq(Evt) /\ evts' = Append(s, r)
    BY <1>0, <2>1
  <2>3. d \in Evt /\ d.ev = "DATA_SET" /\ r \in Evt /\ r.ev = "RSP_SET" /\ s = Append(evts, d)
    BY <1>0
  <2> HIDE DEF s, d, r
  <2>4. /\ EventsEnd(evts) => EventsEnd(s)
        /\ Pending("DISCONNECT") => \E j \in DOMAIN s : s[j].ev = "DISCONNECT"
    <3>1. EventsEnd(evts) => EventsEnd(s)
      BY <1>0, <2>3, EventsEndAfter
    <3>2. (\E j \in DOMAIN evts : evts[j].ev = "DISCONNECT") =>
            \E j \in DOMAIN s : s[j].ev = "DISCONNECT"
      BY <1>0, <2>3, EventsEndAfter
    <3>3. QED
      BY <3>1, <3>2 DEF Pending
  <2>5. /\ EventsEnd(s) => EventsEnd(evts')
        /\ (\E j \in DOMAIN s : s[j].ev = "DISCONNECT") => Pending("DISCONNECT")'
    <3>1. EventsEnd(s) => EventsEnd(evts')
      BY <2>2, <2>3, EventsEndAfter
    <3>2. (\E j \in DOMAIN s : s[j].ev = "DISCONNECT") =>
            \E j \in DOMAIN evts' : evts'[j].ev = "DISCONNECT"
      BY <2>2, <2>3, EventsEndAfter
    <3>3. QED
      BY <3>1, <3>2 DEF Pending
  <2>6. QED
    BY <2>1, <2>4, <2>5 DEF EndsFollow, NoLink
<1>5. CASE ResolveLicense \/ LoopIdle \/ AdvWait
  <2>1. UNCHANGED <<svc, cbs, links, evts, queue, timer>> /\ tpc' # "stack_init"
    BY <1>5 DEF ResolveLicense, LoopIdle, AdvWait, svcVars, portVars, airVars
  <2>2. QED
    BY <2>1, EndsAfterMessage
<1>6. ASSUME RequestAdvertising, UNCHANGED <<svc, cbs, links, queue, timer>> PROVE EndsFollow'
  <2>1. evts' = Append(evts, Happens("ADV_START")) /\ tpc' = "remove"
    BY <1>6 DEF RequestAdvertising
  <2>2. QED
    BY <1>0, <1>6, <2>1, EndsAfterEvent DEF AdvEvts
<1>7. CASE AdvCheck
  <2>1. UNCHANGED <<svc, cbs, links, queue, timer>>
    BY <1>7 DEF AdvCheck, portVars
  <2>2. CASE RequestAdvertising
    BY <1>6, <2>1, <2>2
  <2>3. CASE evts' = evts /\ tpc' = "remove"
    BY <2>1, <2>3, EndsAfterMessage
  <2>4. CASE evts' = Append(evts, Happens("ADV_STOP")) /\ tpc' = "adv_gap"
    BY <1>0, <2>1, <2>4, EndsAfterEvent DEF AdvEvts
  <2>5. QED
    BY <1>7, <2>2, <2>3, <2>4 DEF AdvCheck
<1>8. CASE AdvGap
  BY <1>6, <1>8 DEF AdvGap
<1>9. CASE LoopConnect
  <2>1. /\ UNCHANGED <<svc, cbs, links, evts, queue>> /\ tpc' = "remove" /\ timer' = TRUE
        /\ queue # <<>> /\ Head(queue).cmd = "CONNECT"
    BY <1>9 DEF LoopConnect, Handling, portVars, airVars
  <2>2. MessagesEnd(queue, timer) => MessagesEnd(queue', timer')
    BY <1>0, <2>1, MessagesEndRest
  <2>3. QED
    BY <2>1, <2>2, EndsAfterMessage
<1>10. CASE LoopDisconnect
  <2>1. /\ UNCHANGED <<svc, cbs, links, evts>> /\ tpc' = "remove" /\ timer' = FALSE
        /\ queue' = queue \/ queue' = Append(queue, Plain("START"))
    BY <1>10, NoFaults DEF LoopDisconnect, portVars, airVars
  <2>2. MessagesEnd(queue, timer) => MessagesEnd(queue, FALSE)
    BY DEF MessagesEnd
  <2>3. MessagesEnd(queue, FALSE) => MessagesEnd(queue', FALSE)
    BY <1>0, <2>1, MessagesEndAfter
  <2>4. QED
    BY <2>1, <2>2, <2>3, EndsAfterMessage
<1>11. CASE LoopRecvData \/ LoopGetToken \/ LoopBadToken
  <2>1. /\ UNCHANGED <<svc, cbs, links, evts, timer>> /\ tpc' \in {"remove", "panic"}
        /\ \/ queue' = queue
           \/ \E c \in {"GET_TOKEN", "BAD_TOKEN", "STOP"} : queue' \in Inserted(queue, Plain(c))
    <3>1. CASE LoopRecvData
      BY <3>1 DEF LoopRecvData, BringsToken, portVars, airVars
    <3>2. CASE LoopGetToken
      BY <3>2 DEF LoopGetToken, portVars, airVars
    <3>3. CASE LoopBadToken
      BY <3>3 DEF LoopBadToken, svcVars, portVars, airVars
    <3>4. QED
      BY <1>11, <3>1, <3>2, <3>3
  <2>2. MessagesEnd(queue, timer) => MessagesEnd(queue', timer)
    <3>1. PICK c \in {"GET_TOKEN", "BAD_TOKEN", "STOP"} :
            queue' = queue \/ queue' = Append(queue, Plain(c))
      <4>1. \A m : Inserted(queue, m) = {Append(queue, m)}
        BY NoFaults
      <4>2. QED
        BY <2>1, <4>1
    <3>2. Plain(c) \in Msg /\ Plain(c).cmd # "CONNECT"
      BY <1>0
    <3>3. QED
      BY <1>0, <3>1, <3>2, MessagesEndAfter
  <2>3. QED
    BY <2>1, <2>2, EndsAfterMessage
<1>12. CASE LoopStop
  <2>1. /\ evts' = Append(evts, Happens("ADV_STOP")) /\ tpc' = "remove"
        /\ UNCHANGED <<svc, cbs, links, queue, timer>>
    BY <1>12 DEF LoopStop
  <2>2. QED
    BY <1>0, <2>1, EndsAfterEvent DEF AdvEvts
<1>13. CASE LoopRemove
  <2>1. /\ UNCHANGED <<svc, cbs, links, evts, timer>> /\ tpc = "remove" /\ tpc' # "stack_init"
        /\ queue' = Tail(queue)
    BY <1>13 DEF LoopRemove, portVars, airVars
  <2>2. queue # <<>> /\ (Head(queue).cmd = "DISCONNECT" => ~timer)
    BY <2>1 DEF IInv, NodeHeld, HeadDone
  <2>3. MessagesEnd(queue, timer) => MessagesEnd(queue', timer)
    BY <1>0, <2>1, <2>2, MessagesEndRest
  <2>4. QED
    BY <2>1, <2>3, EndsAfterMessage
<1>14. CASE LoopFree \/ Reboot
  BY <1>1, <1>14 DEF LoopFree, Reboot
<1>15. CASE Yield
  <2>1. /\ UNCHANGED <<svc, cbs, links, evts, timer>> /\ tpc' # "stack_init"
        /\ queue' = queue \/ queue' = Append(queue, Plain("DISCONNECT"))
    BY <1>15, NoFaults DEF Yield, portVars, airVars
  <2>2. MessagesEnd(queue, timer) => MessagesEnd(queue', timer)
    BY <1>0, <2>1, MessagesEndAfter
  <2>3. QED
    BY <2>1, <2>2, EndsAfterMessage
<1>16. CASE DataSet \/ AdvStarted
  <2>1. /\ evts # <<>> /\ evts' = Tail(evts) /\ UNCHANGED <<tpc, svc, cbs, links, queue, timer>>
        /\ Head(evts).ev \notin {"CONNECT", "DISCONNECT"}
    BY <1>16 DEF DataSet, AdvStarted, Reported, svcVars
  <2>2. QED
    BY <2>1, EndsAfterReport
<1>17. ASSUME NEW m, Callback(m)
       PROVE  /\ tpc' = "stack_init" => tpc = "stack_init"
              /\ svc = "ready" => queue' = Append(queue, m)
  <2>1. tpc' = "stack_init" => tpc = "stack_init"
    BY <1>17 DEF Callback
  <2>2. svc = "ready" => cbs
    BY DEF EndsFollow
  <2>3. QED
    BY <1>17, <2>1, <2>2, NoFaults
<1>18. CASE Connected
  <2>1. /\ evts # <<>> /\ evts' = Append(Tail(evts), Happens("ADV_STOP"))
        /\ UNCHANGED <<svc, cbs, links, timer>> /\ Head(evts).ev = "CONNECT"
        /\ tpc' = "stack_init" => tpc = "stack_init"
    BY <1>17, <1>18 DEF Connected, Reported
  <2>2. QED
    BY <2>1, EndsAfterReport
<1>19. CASE Disconnected
  <2>1. /\ evts # <<>> /\ evts' = Tail(evts)
        /\ UNCHANGED <<svc, cbs, links, timer>> /\ Head(evts).ev = "DISCONNECT"
        /\ tpc' = "stack_init" => tpc = "stack_init"
        /\ svc = "ready" => queue' = Append(queue, Plain("DISCONNECT"))
    BY <1>17, <1>19 DEF Disconnected, Reported
  <2>2. QED
    BY <2>1, EndsAfterReport
<1>20. CASE Written
  <2> DEFINE m == [cmd |-> "RECV_DATA", frame |-> Head(evts).frame, conn |-> Head(evts).conn]
  <2>1. /\ evts # <<>> /\ evts' = Tail(evts)
        /\ UNCHANGED <<svc, cbs, links, timer>> /\ Head(evts).ev = "WRITE"
    BY <1>20 DEF Written, Reported, portVars
  <2>2. m \in Msg /\ m.cmd = "RECV_DATA"
    BY <1>0, <2>1, TailFacts, EventTypes, MessageTypes
  <2>3. Callback(m)
    BY <1>20 DEF Written
  <2> HIDE DEF m
  <2>4. CASE svc = "ready"
    <3>1. queue' = Append(queue, m) /\ (tpc' = "stack_init" => tpc = "stack_init")
      BY <1>17, <2>3, <2>4
    <3>2. QED
      BY <2>1, <2>2, <3>1, EndsAfterReport
  <2>5. CASE svc # "ready"
    BY <1>17, <2>1, <2>3, <2>5 DEF EndsFollow
  <2>6. QED
    BY <2>4, <2>5
<1>21. CASE PeerConnect
  <2>1. PICK c \in ConnIds : links' = [links EXCEPT ![c] = conns + 1]
    BY <1>21 DEF PeerConnect
  <2>2. links'[c] # 0
    BY <2>1, ConstantsAssumption DEF IInv, TypeOK
  <2>3. UNCHANGED <<tpc, svc, cbs>>
    BY <1>21 DEF PeerConnect, svcVars, portVars
  <2>4. QED
    BY <2>2, <2>3 DEF EndsFollow, NoLink
<1>22. CASE PeerWrite
  <2>1. PICK c \in ConnIds, f \in Frames :
          links[c] # 0 /\ evts' = Append(evts, [ev |-> "WRITE", frame |-> f, conn |-> links[c]])
    BY <1>22 DEF PeerWrite
  <2>2. links[c] \in Conn
    BY <2>1, ConstantsAssumption DEF IInv, TypeOK, Conn
  <2>3. [ev |-> "WRITE", frame |-> f, conn |-> links[c]] \in Evt
    BY <2>2, EventTypes
  <2>4. UNCHANGED <<tpc, svc, cbs, links, queue, timer>>
    BY <1>22 DEF PeerWrite, svcVars, portVars
  <2>5. QED
    BY <2>1, <2>3, <2>4, EndsAfterEvent
<1>23. CASE \E c \in ConnIds : LinkDown(c)
  <2>1. evts' = Append(evts, Happens("DISCONNECT")) /\ UNCHANGED <<tpc, svc, cbs, queue, timer>>
    BY <1>23 DEF LinkDown, svcVars, portVars
  <2>2. QED
    BY <1>0, <2>1, EndsAfterEvent
<1>24. QED
  BY <1>2, <1>3, <1>4, <1>5, <1>7, <1>8, <1>9, <1>10, <1>11, <1>12, <1>13, <1>14, <1>15,
     <1>16, <1>18, <1>19, <1>20, <1>21, <1>22, <1>23 DEF Next, Task, Bluetooth, Phone

(* When no call fails, the idle timer never runs for a phone that has gone  *)
(* and been forgotten: while no link is up and the timer runs, the          *)
(* disconnect that stops it is reported or queued.                          *)
THEOREM TimerCorrect ==
  ASSUME Faults = FALSE
  PROVE  Spec => []TimerHasConnection
<1>1. (EndsFollow /\ HeadDone) /\ IInv /\ [Next]_vars => (EndsFollow /\ HeadDone)'
  <2>1. ASSUME EndsFollow, HeadDone, UNCHANGED vars PROVE EndsFollow' /\ HeadDone'
    BY <2>1 DEF vars, svcVars, portVars, airVars, EndsFollow, HeadDone, NoLink, Pending
  <2>2. QED
    BY <2>1, EndsStep, HeadStep
<1>2. EndsFollow => TimerHasConnection
  BY DEF EndsFollow, TimerHasConnection, MessagesEnd, Queued
<1>3. QED
  BY <1>1, <1>2, EndsInit, InductiveInvariant, PTL DEF Spec

-----------------------------------------------------------------------------
(***************************************************************************)
(* The proof that BleService decrypts a frame only with keys made for its   *)
(* own connection, for any connection ids and bounds, with or without       *)
(* faults.  Nothing in the code ties keys to a connection: they are safe    *)
(* because the right to connect is passed on from place to place, and one   *)
(* of these places drops the keys.                                          *)
(***************************************************************************)

(* A message in q that lets the next phone in when it is handled, unless it *)
(* is the one in hand and has been (done).                                  *)
LetsIn(q, done, i) == i \in DOMAIN q /\ q[i].cmd \in {"START", "DISCONNECT"} /\ ~(done /\ i = 1)

Opens(q, done) == \E i \in DOMAIN q : LetsIn(q, done, i)

(* There is one such message at most, and no frame behind it. *)
OneOpens(q, done) ==
  \A i \in DOMAIN q : LetsIn(q, done, i) =>
    \A j \in DOMAIN q : /\ LetsIn(q, done, j) => j = i
                        /\ i < j => q[j].cmd # "RECV_DATA"

(* The same of the disconnects that are still to be reported. *)
OneEnds(s) ==
  \A i \in DOMAIN s : s[i].ev = "DISCONNECT" =>
    \A j \in DOMAIN s : /\ s[j].ev = "DISCONNECT" => j = i
                        /\ i < j => s[j].ev # "WRITE"

(* All frames in the queue, or on their way to it, are of connection n. *)
FramesOf(q, n) == \A i \in DOMAIN q : q[i].cmd = "RECV_DATA" => q[i].conn = n
WritesOf(s, n) == \A i \in DOMAIN s : s[i].ev = "WRITE" => s[i].conn = n

Done == tpc = "remove"
NoFrame == ~Queued("RECV_DATA") /\ ~Pending("WRITE")

(* Until the idle timer has posted a DISCONNECT of its own, the right to    *)
(* connect is in one place: with the radio, a link, the end of a link that  *)
(* is reported or queued, or the START that follows it.                     *)
OnePlace ==
  /\ OneOpens(queue, Done) /\ OneEnds(evts)
  /\ Opens(queue, Done) => ~Pending("WRITE") /\ ~Pending("DISCONNECT") /\ ~advOn /\ NoLink
  /\ Pending("DISCONNECT") => ~advOn /\ NoLink
  /\ advOn => NoLink /\ NoFrame
  /\ \A c \in ConnIds : links[c] # 0 => \A d \in ConnIds : links[d] # 0 => d = c

(* So all that is known of a phone is known of the last one. *)
OneConnection ==
  /\ FramesOf(queue, conns) /\ WritesOf(evts, conns)
  /\ \A c \in ConnIds : links[c] # 0 => links[c] = conns
  /\ keys # "none" => keyConn = conns /\ ~advOn

StartInHand == tpc \in {"adv_wait", "adv_check", "adv_gap"} => Head(queue).cmd = "START"

KInv == StartInHand /\ (~idled => OnePlace /\ OneConnection)

-----------------------------------------------------------------------------
(* A message that is put at the end. *)
LEMMA QueueAfter ==
  ASSUME NEW S, NEW q \in Seq(S), NEW m \in S, NEW done \in BOOLEAN, NEW n,
         done => q # <<>>
  PROVE  LET r == Append(q, m)
         IN /\ m.cmd \notin {"START", "DISCONNECT"} =>
                 (Opens(r, done) <=> Opens(q, done))
            /\ m.cmd \notin {"START", "DISCONNECT", "RECV_DATA"} /\ OneOpens(q, done) => OneOpens(r, done)
            /\ ~Opens(q, done) => OneOpens(r, done)
            /\ m.cmd # "RECV_DATA" \/ m.conn = n => (FramesOf(q, n) => FramesOf(r, n))
            /\ m.cmd # "RECV_DATA" =>
                 ((\E i \in DOMAIN r : r[i].cmd = "RECV_DATA") => \E i \in DOMAIN q : q[i].cmd = "RECV_DATA")
<1> DEFINE k == Len(q)
           r == Append(q, m)
<1>1. k \in Nat /\ DOMAIN q = 1 .. k /\ DOMAIN r = 1 .. k + 1 /\ r[k + 1] = m
      /\ \A i \in DOMAIN q : r[i] = q[i]
  BY AppendFacts
<1>2. done => k # 0
  <2>1. q # <<>> => Len(q) # 0
    OBVIOUS
  <2>2. QED
    BY <2>1
<1> HIDE DEF k, r
<1>3. /\ k + 1 \in DOMAIN r
      /\ \A i \in DOMAIN r : i = k + 1 \/ i \in DOMAIN q
      /\ \A i \in DOMAIN q : i \in DOMAIN r /\ i < k + 1 /\ i # k + 1 /\ ~(k + 1 < i)
      /\ ~(k + 1 < k + 1)
      /\ done => k + 1 # 1
  BY <1>1, <1>2
<1>4. \A i \in DOMAIN q : LetsIn(r, done, i) <=> LetsIn(q, done, i)
  BY <1>1, <1>3 DEF LetsIn
<1>5. LetsIn(r, done, k + 1) <=> m.cmd \in {"START", "DISCONNECT"}
  BY <1>1, <1>3 DEF LetsIn
<1>6. m.cmd \notin {"START", "DISCONNECT"} => (Opens(r, done) <=> Opens(q, done))
  BY <1>3, <1>4, <1>5 DEF Opens
<1>7. ASSUME m.cmd \notin {"START", "DISCONNECT", "RECV_DATA"}, OneOpens(q, done)
      PROVE  OneOpens(r, done)
  <2> SUFFICES ASSUME NEW i \in DOMAIN r, LetsIn(r, done, i), NEW j \in DOMAIN r
               PROVE  /\ LetsIn(r, done, j) => j = i
                      /\ i < j => r[j].cmd # "RECV_DATA"
    BY DEF OneOpens
  <2>1. i \in DOMAIN q /\ LetsIn(q, done, i)
    BY <1>3, <1>4, <1>5, <1>7
  <2>2. CASE j = k + 1
    BY <1>1, <1>5, <1>7, <2>2
  <2>3. CASE j \in DOMAIN q
    BY <1>1, <1>4, <1>7, <2>1, <2>3 DEF OneOpens
  <2>4. QED
    BY <1>3, <2>2, <2>3
<1>8. ASSUME ~Opens(q, done) PROVE OneOpens(r, done)
  <2>1. \A i \in DOMAIN r : LetsIn(r, done, i) => i = k + 1
    BY <1>3, <1>4, <1>8 DEF Opens
  <2>2. QED
    BY <1>3, <2>1 DEF OneOpens
<1>9. m.cmd # "RECV_DATA" \/ m.conn = n => (FramesOf(q, n) => FramesOf(r, n))
  BY <1>1, <1>3 DEF FramesOf
<1>10. m.cmd # "RECV_DATA" =>
         ((\E i \in DOMAIN r : r[i].cmd = "RECV_DATA") => \E i \in DOMAIN q : q[i].cmd = "RECV_DATA")
  BY <1>1, <1>3
<1>11. QED
  BY <1>6, <1>7, <1>8, <1>9, <1>10 DEF r

(* The first message: when it has been handled, and when it is removed. *)
LEMMA QueueHead ==
  ASSUME NEW S, NEW q \in Seq(S), q # <<>>, NEW n
  PROVE  /\ Opens(q, TRUE) => Opens(q, FALSE)
         /\ OneOpens(q, FALSE) => OneOpens(q, TRUE)
         /\ OneOpens(q, FALSE) /\ Head(q).cmd \in {"START", "DISCONNECT"} =>
              /\ ~Opens(q, TRUE) /\ Opens(q, FALSE)
              /\ \A i \in DOMAIN q : q[i].cmd # "RECV_DATA"
         /\ Opens(Tail(q), FALSE) => Opens(q, TRUE)
         /\ OneOpens(q, TRUE) => OneOpens(Tail(q), FALSE)
         /\ FramesOf(q, n) => FramesOf(Tail(q), n)
         /\ (\E i \in DOMAIN Tail(q) : Tail(q)[i].cmd = "RECV_DATA") =>
              \E i \in DOMAIN q : q[i].cmd = "RECV_DATA"
<1> DEFINE k == Len(q)
           r == Tail(q)
           h == Head(q)
<1>1. /\ k \in Nat \ {0} /\ DOMAIN q = 1 .. k /\ DOMAIN r = 1 .. k - 1 /\ q[1] = h
      /\ \A i \in 1 .. k - 1 : r[i] = q[i + 1]
  BY TailFacts
<1> HIDE DEF k, r, h
<1>2. /\ 1 \in DOMAIN q
      /\ \A i \in DOMAIN r : i + 1 \in DOMAIN q /\ r[i] = q[i + 1] /\ i + 1 # 1
      /\ \A i, j \in DOMAIN r : (i + 1 = j + 1 => i = j) /\ (i < j => i + 1 < j + 1)
      /\ \A i \in DOMAIN q : i = 1 \/ 1 < i
  BY <1>1
<1>3. \A i \in DOMAIN r : LetsIn(r, FALSE, i) <=> LetsIn(q, TRUE, i + 1)
  BY <1>2 DEF LetsIn
<1>4. \A i \in DOMAIN q : LetsIn(q, TRUE, i) => LetsIn(q, FALSE, i)
  BY DEF LetsIn
<1>5. Opens(q, TRUE) => Opens(q, FALSE)
  BY <1>4 DEF Opens
<1>6. OneOpens(q, FALSE) => OneOpens(q, TRUE)
  BY <1>4 DEF OneOpens
<1>7. ASSUME OneOpens(q, FALSE), h.cmd \in {"START", "DISCONNECT"}
      PROVE  /\ ~Opens(q, TRUE) /\ Opens(q, FALSE)
             /\ \A i \in DOMAIN q : q[i].cmd # "RECV_DATA"
  <2>1. LetsIn(q, FALSE, 1)
    BY <1>1, <1>2, <1>7 DEF LetsIn
  <2>2. \A j \in DOMAIN q : (LetsIn(q, FALSE, j) => j = 1) /\ (1 < j => q[j].cmd # "RECV_DATA")
    BY <1>2, <1>7, <2>1 DEF OneOpens
  <2>3. \A j \in DOMAIN q : ~LetsIn(q, TRUE, j)
    BY <1>4, <2>2 DEF LetsIn
  <2>4. q[1].cmd # "RECV_DATA"
    BY <1>1, <1>7
  <2>5. QED
    BY <1>2, <2>1, <2>2, <2>3, <2>4 DEF Opens
<1>8. Opens(r, FALSE) => Opens(q, TRUE)
  BY <1>2, <1>3 DEF Opens
<1>9. OneOpens(q, TRUE) => OneOpens(r, FALSE)
  BY <1>2, <1>3 DEF OneOpens
<1>10. FramesOf(q, n) => FramesOf(r, n)
  BY <1>2 DEF FramesOf
<1>11. (\E i \in DOMAIN r : r[i].cmd = "RECV_DATA") => \E i \in DOMAIN q : q[i].cmd = "RECV_DATA"
  BY <1>2
<1>12. QED
  BY <1>5, <1>6, <1>7, <1>8, <1>9, <1>10, <1>11 DEF r, h

(* An event that is put at the end. *)
LEMMA EventsAfter ==
  ASSUME NEW S, NEW s \in Seq(S), NEW e \in S, NEW n
  PROVE  LET r == Append(s, e)
             Has(t, x) == \E i \in DOMAIN t : t[i].ev = x
         IN /\ OneEnds(s) /\ (e.ev \in {"DISCONNECT", "WRITE"} => ~Has(s, "DISCONNECT")) => OneEnds(r)
            /\ e.ev # "WRITE" \/ e.conn = n => (WritesOf(s, n) => WritesOf(r, n))
            /\ \A x : Has(r, x) => Has(s, x) \/ e.ev = x
<1> DEFINE k == Len(s)
           r == Append(s, e)
<1>1. k \in Nat /\ DOMAIN s = 1 .. k /\ DOMAIN r = 1 .. k + 1 /\ r[k + 1] = e
      /\ \A i \in DOMAIN s : r[i] = s[i]
  BY AppendFacts
<1> HIDE DEF k, r
<1>2. /\ k + 1 \in DOMAIN r
      /\ \A i \in DOMAIN r : i = k + 1 \/ i \in DOMAIN s
      /\ \A i \in DOMAIN s : i \in DOMAIN r /\ i < k + 1 /\ i # k + 1 /\ ~(k + 1 < i)
      /\ ~(k + 1 < k + 1)
  BY <1>1
<1>3. ASSUME OneEnds(s), e.ev \in {"DISCONNECT", "WRITE"} => ~(\E i \in DOMAIN s : s[i].ev = "DISCONNECT")
      PROVE  OneEnds(r)
  <2> SUFFICES ASSUME NEW i \in DOMAIN r, r[i].ev = "DISCONNECT", NEW j \in DOMAIN r
               PROVE  /\ r[j].ev = "DISCONNECT" => j = i
                      /\ i < j => r[j].ev # "WRITE"
    BY DEF OneEnds
  <2>1. CASE i = k + 1
    BY <1>1, <1>2, <1>3, <2>1
  <2>2. CASE i \in DOMAIN s /\ j = k + 1
    BY <1>1, <1>2, <1>3, <2>2
  <2>3. CASE i \in DOMAIN s /\ j \in DOMAIN s
    BY <1>1, <1>3, <2>3 DEF OneEnds
  <2>4. QED
    BY <1>2, <2>1, <2>2, <2>3
<1>4. e.ev # "WRITE" \/ e.conn = n => (WritesOf(s, n) => WritesOf(r, n))
  BY <1>1, <1>2 DEF WritesOf
<1>5. \A x : (\E i \in DOMAIN r : r[i].ev = x) => (\E i \in DOMAIN s : s[i].ev = x) \/ e.ev = x
  BY <1>1, <1>2
<1>6. QED
  BY <1>3, <1>4, <1>5 DEF r

(* The first event is reported. *)
LEMMA EventsHead ==
  ASSUME NEW S, NEW s \in Seq(S), s # <<>>, NEW n
  PROVE  LET Has(t, x) == \E i \in DOMAIN t : t[i].ev = x
         IN /\ OneEnds(s) => OneEnds(Tail(s))
            /\ OneEnds(s) /\ Head(s).ev = "DISCONNECT" =>
                 ~Has(Tail(s), "DISCONNECT") /\ ~Has(Tail(s), "WRITE")
            /\ WritesOf(s, n) => WritesOf(Tail(s), n)
            /\ WritesOf(s, n) /\ Head(s).ev = "WRITE" => Head(s).conn = n
            /\ \A x : Has(Tail(s), x) => Has(s, x)
            /\ \A x : Head(s).ev = x => Has(s, x)
<1> DEFINE k == Len(s)
           r == Tail(s)
           h == Head(s)
<1>1. /\ k \in Nat \ {0} /\ DOMAIN s = 1 .. k /\ DOMAIN r = 1 .. k - 1 /\ s[1] = h
      /\ \A i \in 1 .. k - 1 : r[i] = s[i + 1]
  BY TailFacts
<1> HIDE DEF k, r, h
<1>2. /\ 1 \in DOMAIN s
      /\ \A i \in DOMAIN r : i + 1 \in DOMAIN s /\ r[i] = s[i + 1] /\ i + 1 # 1 /\ 1 < i + 1
      /\ \A i, j \in DOMAIN r : (i + 1 = j + 1 => i = j) /\ (i < j => i + 1 < j + 1)
  BY <1>1
<1>3. OneEnds(s) => OneEnds(r)
  BY <1>2 DEF OneEnds
<1>4. ASSUME OneEnds(s), h.ev = "DISCONNECT"
      PROVE  \A i \in DOMAIN r : r[i].ev # "DISCONNECT" /\ r[i].ev # "WRITE"
  BY <1>1, <1>2, <1>4 DEF OneEnds
<1>5. WritesOf(s, n) => WritesOf(r, n)
  BY <1>2 DEF WritesOf
<1>6. WritesOf(s, n) /\ h.ev = "WRITE" => h.conn = n
  BY <1>1, <1>2 DEF WritesOf
<1>7. \A x : (\E i \in DOMAIN r : r[i].ev = x) => \E i \in DOMAIN s : s[i].ev = x
  BY <1>2
<1>8. \A x : h.ev = x => \E i \in DOMAIN s : s[i].ev = x
  BY <1>1, <1>2
<1>9. QED
  BY <1>3, <1>4, <1>5, <1>6, <1>7, <1>8 DEF r, h
-----------------------------------------------------------------------------
(* A step that passes the right to connect on to no other place. *)
LEMMA Keeps ==
  ASSUME OnePlace, OneConnection, UNCHANGED <<links, conns>>, advOn' => advOn,
         keys' = "none" \/ (keys' = keys /\ keyConn' = keyConn),
         OneOpens(queue, Done)', Opens(queue, Done)' => Opens(queue, Done),
         FramesOf(queue', conns), Queued("RECV_DATA")' => Queued("RECV_DATA"),
         OneEnds(evts'), WritesOf(evts', conns),
         Pending("WRITE")' => Pending("WRITE"), Pending("DISCONNECT")' => Pending("DISCONNECT")
  PROVE  OnePlace' /\ OneConnection'
<1>1. OnePlace'
  BY DEF OnePlace, NoLink, NoFrame
<1>2. OneConnection'
  BY DEF OneConnection
<1>3. QED
  BY <1>1, <1>2

(* The same when the step leaves all but the events. *)
LEMMA KeepsQueue ==
  ASSUME OnePlace, OneConnection, UNCHANGED queue, Done' = Done
  PROVE  /\ OneOpens(queue, Done)' /\ (Opens(queue, Done)' => Opens(queue, Done))
         /\ FramesOf(queue', conns) /\ (Queued("RECV_DATA")' => Queued("RECV_DATA"))
BY DEF OnePlace, OneConnection, Queued

(* And when a message has been handled, with nothing put in. *)
LEMMA KeepsHandled ==
  ASSUME IInv, OnePlace, OneConnection, UNCHANGED queue, queue # <<>>, ~Done, Done'
  PROVE  /\ OneOpens(queue, Done)' /\ (Opens(queue, Done)' => Opens(queue, Done))
         /\ FramesOf(queue', conns) /\ (Queued("RECV_DATA")' => Queued("RECV_DATA"))
<1>1. Done = FALSE /\ Done' = TRUE /\ queue \in Seq(Msg)
  BY DEF Done, IInv, TypeOK
<1>2. OneOpens(queue, FALSE) /\ FramesOf(queue, conns)
  BY <1>1 DEF OnePlace, OneConnection
<1>3. OneOpens(queue, TRUE) /\ (Opens(queue, TRUE) => Opens(queue, FALSE))
  BY <1>1, <1>2, QueueHead
<1>4. OneOpens(queue, Done)' /\ (Opens(queue, Done)' => Opens(queue, Done))
  BY <1>1, <1>3
<1>5. QED
  BY <1>2, <1>4 DEF Queued

(* And when that put in a message that lets nobody in. *)
LEMMA KeepsInsert ==
  ASSUME IInv, OnePlace, OneConnection, queue # <<>>, ~Done, Done',
         NEW m \in Msg, m.cmd \notin {"START", "DISCONNECT", "RECV_DATA"}, queue' = Append(queue, m)
  PROVE  /\ OneOpens(queue, Done)' /\ (Opens(queue, Done)' => Opens(queue, Done))
         /\ FramesOf(queue', conns) /\ (Queued("RECV_DATA")' => Queued("RECV_DATA"))
<1>1. Done = FALSE /\ Done' = TRUE /\ queue \in Seq(Msg)
  BY DEF Done, IInv, TypeOK
<1>2. OneOpens(queue, FALSE) /\ FramesOf(queue, conns)
  BY <1>1 DEF OnePlace, OneConnection
<1>3. OneOpens(queue, TRUE) /\ (Opens(queue, TRUE) => Opens(queue, FALSE))
  BY <1>1, <1>2, QueueHead
<1>4. OneOpens(queue', TRUE) /\ (Opens(queue', TRUE) => Opens(queue, FALSE))
  BY <1>1, <1>3, QueueAfter
<1>5. FramesOf(queue', conns) /\ (Queued("RECV_DATA")' => Queued("RECV_DATA"))
  BY <1>1, <1>2, QueueAfter DEF Queued
<1>6. QED
  BY <1>1, <1>4, <1>5

LEMMA KeepsEvents ==
  ASSUME OnePlace, OneConnection, UNCHANGED evts
  PROVE  /\ OneEnds(evts') /\ WritesOf(evts', conns)
         /\ Pending("WRITE")' => Pending("WRITE")
         /\ Pending("DISCONNECT")' => Pending("DISCONNECT")
BY DEF OnePlace, OneConnection, Pending

LEMMA KeepsReported ==
  ASSUME OnePlace, OneConnection, evts \in Seq(Evt), NEW e \in Evt,
         e.ev \notin {"WRITE", "DISCONNECT"},
         evts' = Append(evts, e) \/ (evts # <<>> /\ (evts' = Tail(evts) \/ evts' = Append(Tail(evts), e)))
  PROVE  /\ OneEnds(evts') /\ WritesOf(evts', conns)
         /\ Pending("WRITE")' => Pending("WRITE")
         /\ Pending("DISCONNECT")' => Pending("DISCONNECT")
<1>1. OneEnds(evts) /\ WritesOf(evts, conns)
  BY DEF OnePlace, OneConnection
<1>2. CASE evts' = Append(evts, e)
  BY <1>1, <1>2, EventsAfter DEF Pending
<1>3. CASE evts # <<>> /\ (evts' = Tail(evts) \/ evts' = Append(Tail(evts), e))
  <2> DEFINE s == Tail(evts)
  <2>1. s \in Seq(Evt)
    BY <1>3, TailFacts
  <2>2. /\ OneEnds(s) /\ WritesOf(s, conns)
        /\ \A x \in {"WRITE", "DISCONNECT"} : (\E i \in DOMAIN s : s[i].ev = x) => Pending(x)
    BY <1>1, <1>3, EventsHead DEF Pending
  <2>3. evts' = s \/ evts' = Append(s, e)
    BY <1>3
  <2> HIDE DEF s
  <2>4. CASE evts' = s
    BY <2>2, <2>4 DEF Pending
  <2>5. CASE evts' = Append(s, e)
    <3>1. OneEnds(evts') /\ WritesOf(evts', conns)
      BY <2>1, <2>2, <2>5, EventsAfter
    <3>2. \A x : (\E i \in DOMAIN evts' : evts'[i].ev = x) => (\E i \in DOMAIN s : s[i].ev = x) \/ e.ev = x
      BY <2>1, <2>5, EventsAfter
    <3>3. \A x \in {"WRITE", "DISCONNECT"} : Pending(x)' => Pending(x)
      BY <2>2, <3>2 DEF Pending
    <3>4. QED
      BY <3>1, <3>3
  <2>6. QED
    BY <2>3, <2>4, <2>5
<1>4. QED
  BY <1>2, <1>3

LEMMA CallbackFacts ==
  ASSUME IInv, NEW m, Callback(m)
  PROVE  Done' = Done /\ (queue' = queue \/ queue' = Append(queue, m))
<1>1. queue' = queue \/ queue' = Append(queue, m)
  BY DEF Callback, Inserted
<1>2. tpc' = tpc \/ (tpc' = "panic" /\ svc # "ready")
  BY DEF Callback
<1>3. tpc = "remove" => svc = "ready"
  BY DEF IInv, Lifetime
<1>4. QED
  BY <1>1, <1>2, <1>3 DEF Done

(* The START in hand opens the radio: no frame is left, and the keys go. *)
LEMMA OpensRadio ==
  ASSUME IInv, StartInHand, OnePlace, OneConnection, tpc \in {"adv_check", "adv_gap"},
         RequestAdvertising, UNCHANGED <<queue, links, conns>>
  PROVE  OnePlace' /\ OneConnection'
<1>1. /\ queue \in Seq(Msg) /\ queue # <<>> /\ evts \in Seq(Evt)
      /\ Head(queue).cmd = "START" /\ Done = FALSE /\ Done' = TRUE
  BY DEF IInv, TypeOK, NodeHeld, StartInHand, Done, RequestAdvertising
<1>2. /\ ~Opens(queue, TRUE) /\ Opens(queue, FALSE) /\ OneOpens(queue, TRUE)
      /\ \A i \in DOMAIN queue : queue[i].cmd # "RECV_DATA"
  BY <1>1, QueueHead DEF OnePlace
<1>3. ~Pending("WRITE") /\ ~Pending("DISCONNECT") /\ NoLink
  BY <1>1, <1>2 DEF OnePlace
<1>4. PICK e \in Evt : e.ev \in {"ADV_START", "ADV_FAIL"} /\ evts' = Append(evts, e)
  BY EventTypes DEF RequestAdvertising, Happens
<1>5. /\ OneEnds(evts') /\ WritesOf(evts', conns)
      /\ ~Pending("WRITE")' /\ ~Pending("DISCONNECT")'
  BY <1>1, <1>3, <1>4, KeepsReported
<1>6. ~Queued("RECV_DATA")'
  BY <1>2 DEF Queued
<1>7. ~Opens(queue, Done)' /\ OneOpens(queue, Done)'
  BY <1>1, <1>2
<1>8. NoLink' /\ keys' = "none"
  BY <1>3 DEF NoLink, RequestAdvertising
<1>9. OnePlace'
  BY <1>5, <1>6, <1>7, <1>8 DEF OnePlace, NoFrame, NoLink
<1>10. OneConnection'
  BY <1>5, <1>6, <1>8 DEF OneConnection, FramesOf, Queued, NoLink
<1>11. QED
  BY <1>9, <1>10

LEMMA StartSteps ==
  ASSUME IInv, StartInHand, OnePlace, OneConnection,
         LoopStart \/ AdvWait \/ AdvCheck \/ AdvGap
  PROVE  OnePlace' /\ OneConnection'
<1>0. /\ queue \in Seq(Msg) /\ evts \in Seq(Evt)
      /\ \A x \in {"DATA_SET", "RSP_SET", "ADV_STOP"} : Happens(x) \in Evt /\ Happens(x).ev = x
  BY EventTypes DEF IInv, TypeOK, Happens
<1>1. CASE LoopStart
  <2>1. /\ UNCHANGED <<links, conns, advOn, keys, keyConn, queue>> /\ Done' = Done
        /\ \/ evts' = evts \/ evts' = Append(evts, Happens("DATA_SET"))
           \/ evts' = evts \o <<Happens("DATA_SET"), Happens("RSP_SET")>>
    BY <1>1 DEF LoopStart, Handling, Done, svcVars, ghosts
  <2> DEFINE d == Happens("DATA_SET")
             r == Happens("RSP_SET")
             s == Append(evts, d)
  <2>2. evts' = evts \/ evts' = s \/ evts' = Append(s, r)
    BY <1>0, <2>1
  <2>3. d \in Evt /\ r \in Evt /\ d.ev = "DATA_SET" /\ r.ev = "RSP_SET" /\ s \in Seq(Evt)
    BY <1>0
  <2>4. /\ OneEnds(s) /\ WritesOf(s, conns)
        /\ \A x \in {"WRITE", "DISCONNECT"} : (\E i \in DOMAIN s : s[i].ev = x) => Pending(x)
    <3> HIDE DEF d, r
    <3>1. OneEnds(evts) /\ WritesOf(evts, conns)
      BY DEF OnePlace, OneConnection
    <3>2. OneEnds(s) /\ WritesOf(s, conns)
      BY <1>0, <2>3, <3>1, EventsAfter
    <3>3. \A x : (\E i \in DOMAIN s : s[i].ev = x) => (\E i \in DOMAIN evts : evts[i].ev = x) \/ d.ev = x
      BY <1>0, <2>3, EventsAfter
    <3>4. \A x \in {"WRITE", "DISCONNECT"} : (\E i \in DOMAIN s : s[i].ev = x) => Pending(x)
      BY <2>3, <3>3 DEF Pending
    <3>5. QED
      BY <3>2, <3>4
  <2> HIDE DEF d, r, s
  <2>5. CASE evts' = Append(s, r)
    <3>1. OneEnds(evts') /\ WritesOf(evts', conns)
      BY <2>3, <2>4, <2>5, EventsAfter
    <3>2. \A x : (\E i \in DOMAIN evts' : evts'[i].ev = x) => (\E i \in DOMAIN s : s[i].ev = x) \/ r.ev = x
      BY <2>3, <2>5, EventsAfter
    <3>3. (Pending("WRITE")' => Pending("WRITE")) /\ (Pending("DISCONNECT")' => Pending("DISCONNECT"))
      BY <2>3, <2>4, <3>2 DEF Pending
    <3>4. QED
      BY <2>1, <3>1, <3>3, KeepsQueue, Keeps
  <2>6. CASE evts' = evts
    BY <2>1, <2>6, KeepsQueue, KeepsEvents, Keeps
  <2>7. CASE evts' = s
    <3>1. /\ OneEnds(evts') /\ WritesOf(evts', conns)
          /\ (Pending("WRITE")' => Pending("WRITE")) /\ (Pending("DISCONNECT")' => Pending("DISCONNECT"))
      BY <2>4, <2>7 DEF Pending
    <3>2. QED
      BY <2>1, <3>1, KeepsQueue, Keeps
  <2>8. QED
    BY <2>2, <2>5, <2>6, <2>7
<1>2. CASE AdvWait
  <2>1. /\ UNCHANGED <<links, conns, advOn, evts, queue, keyConn>> /\ ~Done /\ queue # <<>>
        /\ keys' = "none" \/ keys' = keys
    BY <1>2 DEF AdvWait, airVars, ghosts, Done, IInv, NodeHeld
  <2>2. CASE Done'
    BY <2>1, <2>2, KeepsHandled, KeepsEvents, Keeps
  <2>3. CASE ~Done'
    <3>1. Done' = Done
      BY <2>1, <2>3 DEF Done
    <3>2. QED
      BY <2>1, <3>1, KeepsQueue, KeepsEvents, Keeps
  <2>4. QED
    BY <2>2, <2>3
<1>3. CASE AdvCheck
  <2>1. /\ UNCHANGED <<links, conns, queue, keyConn>> /\ ~Done /\ queue # <<>> /\ tpc = "adv_check"
    BY <1>3 DEF AdvCheck, ghosts, Done, IInv, NodeHeld
  <2>2. CASE RequestAdvertising
    BY <2>1, <2>2, OpensRadio
  <2>3. CASE keys' = "none" /\ tpc' = "remove" /\ UNCHANGED <<advOn, evts>>
    <3>1. Done'
      BY <2>3 DEF Done
    <3>2. QED
      BY <2>1, <2>3, <3>1, KeepsHandled, KeepsEvents, Keeps
  <2>4. CASE advOn' = FALSE /\ evts' = Append(evts, Happens("ADV_STOP")) /\ tpc' = "adv_gap" /\ UNCHANGED keys
    <3>1. Done' = Done
      BY <2>1, <2>4 DEF Done
    <3>2. /\ OneEnds(evts') /\ WritesOf(evts', conns)
          /\ Pending("WRITE")' => Pending("WRITE")
          /\ Pending("DISCONNECT")' => Pending("DISCONNECT")
      BY <1>0, <2>4, KeepsReported
    <3>3. QED
      BY <2>1, <2>4, <3>1, <3>2, KeepsQueue, Keeps
  <2>5. QED
    BY <1>3, <2>2, <2>3, <2>4 DEF AdvCheck
<1>4. CASE AdvGap
  BY <1>4, OpensRadio DEF AdvGap
<1>5. QED
  BY <1>1, <1>2, <1>3, <1>4

LEMMA LoopSteps ==
  ASSUME IInv, StartInHand, OnePlace, OneConnection, ~idled', 
         \/ LoopIdle \/ LoopConnect \/ LoopDisconnect \/ LoopGetToken \/ LoopBadToken
         \/ LoopStop \/ LoopRemove \/ LoopFree \/ Yield
  PROVE  OnePlace' /\ OneConnection'
<1>0. /\ queue \in Seq(Msg) /\ evts \in Seq(Evt) /\ OneOpens(queue, Done) /\ FramesOf(queue, conns)
      /\ Happens("ADV_STOP") \in Evt /\ Happens("ADV_STOP").ev = "ADV_STOP"
      /\ \A c \in {"START", "STOP"} : Plain(c) \in Msg /\ Plain(c).cmd = c
  BY EventTypes, MessageTypes DEF IInv, TypeOK, Happens, Plain, OnePlace, OneConnection
<1>1. CASE LoopIdle \/ Yield \/ LoopBadToken
  <2>1. UNCHANGED <<links, conns, advOn, evts, keys, keyConn, queue>> /\ Done' = Done
    <3>1. CASE LoopIdle
      BY <3>1 DEF LoopIdle, svcVars, airVars, ghosts, Done
    <3>2. CASE Yield
      BY <3>2 DEF Yield, airVars, Done
    <3>3. CASE LoopBadToken
      BY <3>3 DEF LoopBadToken, Handling, svcVars, airVars, Done
    <3>4. QED
      BY <1>1, <3>1, <3>2, <3>3
  <2>2. QED
    BY <2>1, KeepsQueue, KeepsEvents, Keeps
<1>2. CASE LoopConnect
  <2>1. /\ UNCHANGED <<links, conns, advOn, evts, keys, keyConn, queue>> /\ ~Done /\ Done' /\ queue # <<>>
    BY <1>2 DEF LoopConnect, Handling, airVars, ghosts, Done
  <2>2. QED
    BY <2>1, KeepsHandled, KeepsEvents, Keeps
<1>3. CASE LoopDisconnect
  <2>1. /\ UNCHANGED <<links, conns, advOn, evts, keys, keyConn>> /\ queue # <<>>
        /\ Done = FALSE /\ Done' = TRUE /\ Head(queue).cmd = "DISCONNECT"
        /\ queue' = queue \/ queue' = Append(queue, Plain("START"))
    <3>1. /\ UNCHANGED <<links, conns, advOn, evts, keys, keyConn>> /\ queue # <<>>
          /\ Done = FALSE /\ Done' = TRUE /\ Head(queue).cmd = "DISCONNECT"
      BY <1>3 DEF LoopDisconnect, Handling, airVars, ghosts, Done
    <3>2. queue' = queue \/ queue' = Append(queue, Plain("START"))
      BY <1>3 DEF LoopDisconnect, Inserted
    <3>3. QED
      BY <3>1, <3>2
  <2>2. CASE queue' = queue
    BY <2>1, <2>2, KeepsHandled, KeepsEvents, Keeps
  <2>3. CASE queue' = Append(queue, Plain("START"))
    <3>1. ~Opens(queue, TRUE) /\ Opens(queue, FALSE)
      BY <1>0, <2>1, QueueHead
    <3>2. OneOpens(queue', TRUE)
      BY <1>0, <2>1, <2>3, <3>1, QueueAfter
    <3>3. FramesOf(queue', conns) /\ (Queued("RECV_DATA")' => Queued("RECV_DATA"))
      BY <1>0, <2>3, QueueAfter DEF Queued
    <3>4. OneOpens(queue, Done)' /\ Opens(queue, Done)
      BY <2>1, <3>1, <3>2
    <3>5. QED
      BY <2>1, <3>3, <3>4, KeepsEvents, Keeps
  <2>4. QED
    BY <2>1, <2>2, <2>3
<1>4. CASE LoopGetToken
  <2>1. /\ UNCHANGED <<links, conns, advOn, evts, keys, keyConn>> /\ queue # <<>> /\ ~Done /\ Done'
    BY <1>4 DEF LoopGetToken, Handling, airVars, Done
  <2>2. queue' = queue \/ queue' = Append(queue, Plain("STOP"))
    BY <1>4 DEF LoopGetToken, Inserted
  <2>3. CASE queue' = queue
    BY <2>1, <2>3, KeepsHandled, KeepsEvents, Keeps
  <2>4. CASE queue' = Append(queue, Plain("STOP"))
    BY <1>0, <2>1, <2>4, KeepsInsert, KeepsEvents, Keeps
  <2>5. QED
    BY <2>2, <2>3, <2>4
<1>5. CASE LoopStop
  <2>1. /\ UNCHANGED <<links, conns, keys, keyConn, queue>> /\ ~Done /\ Done' /\ queue # <<>>
        /\ advOn' = FALSE /\ evts' = Append(evts, Happens("ADV_STOP"))
    BY <1>5 DEF LoopStop, Handling, ghosts, Done
  <2>2. /\ OneEnds(evts') /\ WritesOf(evts', conns)
        /\ Pending("WRITE")' => Pending("WRITE")
        /\ Pending("DISCONNECT")' => Pending("DISCONNECT")
    BY <1>0, <2>1, KeepsReported
  <2>3. QED
    BY <2>1, <2>2, KeepsHandled, Keeps
<1>6. CASE LoopRemove
  <2>1. /\ UNCHANGED <<links, conns, advOn, evts, keys, keyConn>> /\ queue # <<>>
        /\ Done = TRUE /\ Done' = FALSE /\ queue' = Tail(queue)
    BY <1>6 DEF LoopRemove, airVars, ghosts, Done, IInv, NodeHeld
  <2>2. /\ Opens(queue', FALSE) => Opens(queue, TRUE)
        /\ OneOpens(queue', FALSE)
        /\ FramesOf(queue', conns) /\ (Queued("RECV_DATA")' => Queued("RECV_DATA"))
    <3>1. OneOpens(queue, TRUE)
      BY <1>0, <2>1
    <3>2. Opens(queue', FALSE) => Opens(queue, TRUE)
      BY <1>0, <2>1, QueueHead
    <3>3. OneOpens(queue', FALSE)
      BY <1>0, <2>1, <3>1, QueueHead
    <3>4. FramesOf(queue', conns)
      BY <1>0, <2>1, QueueHead
    <3>5. (\E i \in DOMAIN queue' : queue'[i].cmd = "RECV_DATA") =>
             \E i \in DOMAIN queue : queue[i].cmd = "RECV_DATA"
      BY <1>0, <2>1, QueueHead
    <3>6. QED
      BY <3>2, <3>3, <3>4, <3>5 DEF Queued
  <2>3. OneOpens(queue, Done)' /\ (Opens(queue, Done)' => Opens(queue, Done))
    BY <2>1, <2>2
  <2>4. QED
    BY <2>1, <2>2, <2>3, KeepsEvents, Keeps
<1>7. CASE LoopFree
  <2>1. UNCHANGED <<links, conns, advOn, evts, keys, keyConn>> /\ queue' = <<>>
    BY <1>7 DEF LoopFree, airVars, ghosts
  <2>2. OneOpens(queue, Done)' /\ ~Opens(queue, Done)' /\ FramesOf(queue', conns) /\ ~Queued("RECV_DATA")'
    BY <2>1 DEF OneOpens, Opens, FramesOf, Queued
  <2>3. QED
    BY <2>1, <2>2, KeepsEvents, Keeps
<1>8. QED
  BY <1>1, <1>2, <1>3, <1>4, <1>5, <1>6, <1>7

(* A frame makes keys for its connection, which is the last one. *)
LEMMA RecvStep ==
  ASSUME IInv, OnePlace, OneConnection, LoopRecvData, tpc' = "remove"
  PROVE  OnePlace' /\ OneConnection'
<1>0. /\ queue \in Seq(Msg) /\ queue # <<>> /\ Head(queue).cmd = "RECV_DATA" /\ ~Done /\ Done'
      /\ UNCHANGED <<links, conns, advOn, evts>>
      /\ \A c \in {"GET_TOKEN", "BAD_TOKEN"} : Plain(c) \in Msg /\ Plain(c).cmd = c
  BY MessageTypes DEF LoopRecvData, Handling, airVars, Done, IInv, TypeOK, Plain
<1>1. 1 \in DOMAIN queue /\ queue[1] = Head(queue)
  BY <1>0, TailFacts
<1>2. Head(queue).conn = conns /\ ~advOn
  BY <1>0, <1>1 DEF OneConnection, FramesOf, OnePlace, NoFrame, Queued
<1>3. /\ OneOpens(queue, Done)' /\ (Opens(queue, Done)' => Opens(queue, Done))
      /\ FramesOf(queue', conns)
  <2>1. PICK c \in {"GET_TOKEN", "BAD_TOKEN"} : queue' = queue \/ queue' = Append(queue, Plain(c))
    BY DEF LoopRecvData, BringsToken, Inserted
  <2>2. CASE queue' = queue
    BY <1>0, <2>2, KeepsHandled
  <2>3. CASE queue' = Append(queue, Plain(c))
    BY <1>0, <2>3, KeepsInsert
  <2>4. QED
    BY <2>1, <2>2, <2>3
<1>4. OnePlace'
  BY <1>0, <1>2, <1>3, KeepsEvents DEF OnePlace, NoLink, Pending
<1>5. (keyConn' = keyConn /\ keys' = keys) \/ keyConn' = (IF keys = "none" THEN Head(queue).conn ELSE keyConn)
  BY DEF LoopRecvData
<1>6. keys' # "none" => keyConn' = conns
  BY <1>2, <1>5 DEF OneConnection
<1>7. OneConnection'
  BY <1>0, <1>2, <1>3, <1>6 DEF OneConnection
<1>8. QED
  BY <1>4, <1>7

(* One that ends the chip leaves everything as it was. *)
LEMMA RecvCrash ==
  ASSUME OnePlace, OneConnection, LoopRecvData, tpc' # "remove"
  PROVE  OnePlace' /\ OneConnection'
<1>1. /\ UNCHANGED <<links, conns, advOn, evts, queue, keys, keyConn>> /\ Done' = Done
  BY DEF LoopRecvData, Handling, airVars, Done
<1>2. QED
  BY <1>1, KeepsQueue, KeepsEvents, Keeps

LEMMA ReportSteps ==
  ASSUME IInv, OnePlace, OneConnection, Bluetooth
  PROVE  OnePlace' /\ OneConnection'
<1>0. /\ queue \in Seq(Msg) /\ evts \in Seq(Evt) /\ evts # <<>> /\ Head(evts) \in Evt /\ Tail(evts) \in Seq(Evt)
      /\ UNCHANGED <<links, conns, keys, keyConn>>
      /\ Done \in BOOLEAN /\ (Done => queue # <<>>)
      /\ OneOpens(queue, Done) /\ FramesOf(queue, conns) /\ OneEnds(evts) /\ WritesOf(evts, conns)
      /\ Happens("ADV_STOP") \in Evt /\ Happens("ADV_STOP").ev = "ADV_STOP"
  <2>1. /\ queue \in Seq(Msg) /\ evts \in Seq(Evt) /\ Done \in BOOLEAN /\ (Done => queue # <<>>)
        /\ Happens("ADV_STOP") \in Evt /\ Happens("ADV_STOP").ev = "ADV_STOP"
    BY EventTypes DEF IInv, TypeOK, NodeHeld, Done, Happens
  <2>2. evts # <<>> /\ UNCHANGED <<links, conns, keys, keyConn>>
    BY DEF Bluetooth, DataSet, AdvStarted, Connected, Disconnected, Written, Reported, svcVars, ghosts
  <2>3. QED
    BY <2>1, <2>2, TailFacts DEF OnePlace, OneConnection
<1>1. CASE DataSet \/ AdvStarted
  <2>1. UNCHANGED <<tpc, queue, advOn>> /\ evts' = Tail(evts)
    BY <1>1 DEF DataSet, AdvStarted, svcVars
  <2>2. Done' = Done
    BY <2>1 DEF Done
  <2>3. /\ OneEnds(evts') /\ WritesOf(evts', conns)
        /\ Pending("WRITE")' => Pending("WRITE")
        /\ Pending("DISCONNECT")' => Pending("DISCONNECT")
    BY <1>0, <2>1, KeepsReported
  <2>4. QED
    BY <1>0, <2>1, <2>2, <2>3, KeepsQueue, Keeps
<1>2. CASE Connected
  <2> DEFINE m == [cmd |-> "CONNECT", hdl |-> Head(evts).hdl]
  <2>1. m \in Msg /\ m.cmd = "CONNECT" /\ Callback(m)
    BY <1>0, <1>2, EventTypes, MessageTypes DEF Connected, Reported
  <2>2. advOn' = FALSE /\ evts' = Append(Tail(evts), Happens("ADV_STOP"))
    BY <1>2 DEF Connected
  <2> HIDE DEF m
  <2>3. Done' = Done /\ (queue' = queue \/ queue' = Append(queue, m))
    BY <2>1, CallbackFacts
  <2>4. /\ OneOpens(queue', Done) /\ (Opens(queue', Done) => Opens(queue, Done))
        /\ FramesOf(queue', conns) /\ (Queued("RECV_DATA")' => Queued("RECV_DATA"))
    <3>1. CASE queue' = queue
      BY <1>0, <3>1 DEF Queued
    <3>2. CASE queue' = Append(queue, m)
      <4>1. m.cmd \notin {"START", "DISCONNECT", "RECV_DATA"}
        BY <2>1
      <4>2. OneOpens(Append(queue, m), Done)
        BY <1>0, <2>1, <4>1, QueueAfter
      <4>3. Opens(Append(queue, m), Done) => Opens(queue, Done)
        BY <1>0, <2>1, <4>1, QueueAfter
      <4>4. FramesOf(Append(queue, m), conns)
        BY <1>0, <2>1, <4>1, QueueAfter
      <4>5. (\E i \in DOMAIN queue' : queue'[i].cmd = "RECV_DATA") =>
               \E i \in DOMAIN queue : queue[i].cmd = "RECV_DATA"
        BY <1>0, <2>1, <3>2, <4>1, QueueAfter
      <4>6. QED
        BY <3>2, <4>2, <4>3, <4>4, <4>5 DEF Queued
    <3>3. QED
      BY <2>3, <3>1, <3>2
  <2>5. OneOpens(queue, Done)' /\ (Opens(queue, Done)' => Opens(queue, Done))
    BY <2>3, <2>4
  <2>6. /\ OneEnds(evts') /\ WritesOf(evts', conns)
        /\ Pending("WRITE")' => Pending("WRITE")
        /\ Pending("DISCONNECT")' => Pending("DISCONNECT")
    BY <1>0, <2>2, KeepsReported
  <2>7. QED
    BY <1>0, <2>2, <2>4, <2>5, <2>6, Keeps
<1>3. CASE Disconnected
  <2> DEFINE m == Plain("DISCONNECT")
  <2>1. /\ m \in Msg /\ m.cmd = "DISCONNECT" /\ Callback(m)
        /\ Head(evts).ev = "DISCONNECT" /\ advOn' = advOn /\ evts' = Tail(evts)
    BY <1>3, MessageTypes DEF Disconnected, Reported, Plain
  <2> HIDE DEF m
  <2>2. Done' = Done /\ (queue' = queue \/ queue' = Append(queue, m))
    BY <2>1, CallbackFacts
  <2>3. Pending("DISCONNECT") /\ ~advOn /\ NoLink /\ ~Opens(queue, Done)
    BY <1>0, <2>1, EventsHead DEF OnePlace, Pending
  <2>4. /\ OneEnds(evts') /\ WritesOf(evts', conns)
        /\ ~Pending("DISCONNECT")' /\ ~Pending("WRITE")'
    BY <1>0, <2>1, EventsHead DEF Pending
  <2>5. OneOpens(queue', Done) /\ FramesOf(queue', conns)
    <3>1. CASE queue' = queue
      BY <1>0, <3>1
    <3>2. CASE queue' = Append(queue, m)
      <4>1. OneOpens(Append(queue, m), Done)
        BY <1>0, <2>1, <2>3, QueueAfter
      <4>2. m.cmd # "RECV_DATA"
        BY <2>1
      <4>3. FramesOf(Append(queue, m), conns)
        BY <1>0, <2>1, <4>2, QueueAfter
      <4>4. QED
        BY <3>2, <4>1, <4>3
    <3>3. QED
      BY <2>2, <3>1, <3>2
  <2>6. OneOpens(queue, Done)'
    BY <2>2, <2>5
  <2>7. ~advOn' /\ NoLink'
    BY <1>0, <2>1, <2>3 DEF NoLink
  <2>8. OnePlace'
    BY <2>4, <2>6, <2>7 DEF OnePlace, NoLink
  <2>9. OneConnection'
    BY <1>0, <2>1, <2>4, <2>5 DEF OneConnection
  <2>10. QED
    BY <2>8, <2>9
<1>4. CASE Written
  <2> DEFINE m == [cmd |-> "RECV_DATA", frame |-> Head(evts).frame, conn |-> Head(evts).conn]
  <2>1. /\ Head(evts).ev = "WRITE" /\ evts' = Tail(evts) /\ advOn' = advOn /\ Callback(m)
    BY <1>4 DEF Written, Reported
  <2>2. m \in Msg /\ m.cmd = "RECV_DATA" /\ m.conn = Head(evts).conn
    BY <1>0, <2>1, EventTypes, MessageTypes
  <2> HIDE DEF m
  <2>3. m.conn = conns /\ Pending("WRITE")
    BY <1>0, <2>1, <2>2, EventsHead DEF Pending
  <2>4. Done' = Done /\ (queue' = queue \/ queue' = Append(queue, m))
    BY <2>1, CallbackFacts
  <2>5. ~advOn /\ ~Opens(queue, Done)
    BY <2>3 DEF OnePlace, NoFrame
  <2>6. OneOpens(queue', Done) /\ ~Opens(queue', Done) /\ FramesOf(queue', conns)
    <3>1. CASE queue' = queue
      BY <1>0, <2>5, <3>1
    <3>2. CASE queue' = Append(queue, m)
      <4>1. OneOpens(Append(queue, m), Done)
        BY <1>0, <2>2, <2>5, QueueAfter
      <4>2. m.cmd \notin {"START", "DISCONNECT"}
        BY <2>2
      <4>3. ~Opens(Append(queue, m), Done)
        BY <1>0, <2>2, <2>5, <4>2, QueueAfter
      <4>4. FramesOf(Append(queue, m), conns)
        BY <1>0, <2>2, <2>3, QueueAfter
      <4>5. QED
        BY <3>2, <4>1, <4>3, <4>4
    <3>3. QED
      BY <2>4, <3>1, <3>2
  <2>7. OneOpens(queue, Done)' /\ ~Opens(queue, Done)'
    BY <2>4, <2>6
  <2>8. /\ OneEnds(evts') /\ WritesOf(evts', conns)
        /\ Pending("DISCONNECT")' => Pending("DISCONNECT")
    BY <1>0, <2>1, EventsHead DEF Pending
  <2>9. OnePlace'
    BY <1>0, <2>1, <2>5, <2>7, <2>8 DEF OnePlace, NoLink
  <2>10. OneConnection'
    BY <1>0, <2>1, <2>6, <2>8 DEF OneConnection
  <2>11. QED
    BY <2>9, <2>10
<1>5. QED
  BY <1>1, <1>2, <1>3, <1>4 DEF Bluetooth

LEMMA PhoneSteps ==
  ASSUME IInv, OnePlace, OneConnection, Phone
  PROVE  OnePlace' /\ OneConnection'
<1>0. /\ evts \in Seq(Evt) /\ links \in [ConnIds -> 0 .. MaxConn] /\ conns \in 0 .. MaxConn /\ MaxConn \in Nat
      /\ UNCHANGED <<tpc, queue, keys, keyConn>> /\ Done' = Done
      /\ Happens("DISCONNECT") \in Evt /\ Happens("DISCONNECT").ev = "DISCONNECT"
  BY EventTypes, ConstantsAssumption
     DEF IInv, TypeOK, Happens, Phone, PeerConnect, PeerWrite, LinkDown, svcVars, ghosts, Done
<1>1. CASE PeerConnect
  <2>1. PICK c \in ConnIds : /\ links' = [links EXCEPT ![c] = conns + 1]
                             /\ evts' = Append(evts, [ev |-> "CONNECT", hdl |-> c])
    BY <1>1 DEF PeerConnect
  <2>2. advOn /\ conns' = conns + 1 /\ advOn' = FALSE
    BY <1>1 DEF PeerConnect
  <2>3. NoLink /\ NoFrame /\ keys = "none" /\ ~Pending("DISCONNECT") /\ ~Opens(queue, Done)
    BY <2>2 DEF OnePlace, OneConnection
  <2>4. [ev |-> "CONNECT", hdl |-> c] \in Evt
    BY EventTypes
  <2>5. OneEnds(evts') /\ ~Pending("WRITE")' /\ ~Pending("DISCONNECT")'
    BY <1>0, <2>1, <2>3, <2>4, KeepsReported DEF NoFrame
  <2>6. \A d \in ConnIds : links'[d] # 0 => d = c /\ links'[d] = conns'
    BY <1>0, <2>1, <2>2, <2>3 DEF NoLink
  <2>7. OneOpens(queue, Done)' /\ ~Opens(queue, Done)'
    BY <1>0, <2>3 DEF OnePlace
  <2>8. OnePlace'
    BY <2>2, <2>5, <2>6, <2>7 DEF OnePlace
  <2>9. OneConnection'
    BY <1>0, <2>3, <2>5, <2>6 DEF OneConnection, FramesOf, WritesOf, NoFrame, Queued, Pending
  <2>10. QED
    BY <2>8, <2>9
<1>2. CASE PeerWrite
  <2>1. PICK c \in ConnIds, f \in Frames :
          links[c] # 0 /\ evts' = Append(evts, [ev |-> "WRITE", frame |-> f, conn |-> links[c]])
    BY <1>2 DEF PeerWrite
  <2>2. UNCHANGED <<advOn, links, conns>>
    BY <1>2 DEF PeerWrite
  <2>3. links[c] = conns /\ ~NoLink /\ ~advOn /\ ~Pending("DISCONNECT") /\ ~Opens(queue, Done)
    BY <2>1 DEF OnePlace, OneConnection, NoLink
  <2> DEFINE e == [ev |-> "WRITE", frame |-> f, conn |-> links[c]]
  <2>4. e \in Evt /\ e.ev = "WRITE" /\ e.conn = conns
    <3>1. links[c] \in Conn
      BY <1>0, <2>1 DEF Conn
    <3>2. QED
      BY <2>3, <3>1, EventTypes
  <2>5. evts' = Append(evts, e)
    BY <2>1
  <2> HIDE DEF e
  <2>6. OneEnds(evts) /\ WritesOf(evts, conns)
    BY DEF OnePlace, OneConnection
  <2>7. OneEnds(evts') /\ WritesOf(evts', conns) /\ ~Pending("DISCONNECT")'
    BY <1>0, <2>3, <2>4, <2>5, <2>6, EventsAfter DEF Pending
  <2>8. OneOpens(queue, Done)' /\ ~Opens(queue, Done)'
    BY <1>0, <2>3 DEF OnePlace
  <2>9. OnePlace'
    BY <2>2, <2>3, <2>7, <2>8 DEF OnePlace
  <2>10. OneConnection'
    BY <1>0, <2>2, <2>7 DEF OneConnection
  <2>11. QED
    BY <2>9, <2>10
<1>3. CASE \E c \in ConnIds : LinkDown(c)
  <2>1. PICK c \in ConnIds : LinkDown(c)
    BY <1>3
  <2>2. /\ links[c] # 0 /\ links' = [links EXCEPT ![c] = 0] /\ UNCHANGED <<advOn, conns>>
        /\ evts' = Append(evts, Happens("DISCONNECT"))
    BY <2>1 DEF LinkDown
  <2>3. ~NoLink /\ ~advOn /\ ~Pending("DISCONNECT") /\ ~Opens(queue, Done)
    BY <2>2 DEF OnePlace, NoLink
  <2>4. NoLink'
    BY <1>0, <2>2 DEF OnePlace, NoLink
  <2>5. OneEnds(evts) /\ WritesOf(evts, conns)
    BY DEF OnePlace, OneConnection
  <2>6. OneEnds(evts') /\ WritesOf(evts', conns)
    BY <1>0, <2>2, <2>3, <2>5, EventsAfter DEF Pending
  <2>7. OneOpens(queue, Done)' /\ ~Opens(queue, Done)'
    BY <1>0, <2>3 DEF OnePlace
  <2>8. OnePlace'
    BY <2>2, <2>3, <2>4, <2>6, <2>7 DEF OnePlace, NoLink
  <2>9. OneConnection'
    BY <1>0, <2>2, <2>4, <2>6 DEF OneConnection, NoLink
  <2>10. QED
    BY <2>8, <2>9
<1>4. QED
  BY <1>1, <1>2, <1>3 DEF Phone

(* Before the loop there is nothing that could connect a phone. *)
LEMMA SetupSteps ==
  ASSUME IInv, OnePlace, OneConnection, ResolveLicense \/ ServiceAllocate \/ ServiceReady
  PROVE  OnePlace' /\ OneConnection'
<1>1. CASE ResolveLicense \/ ServiceAllocate
  <2>1. /\ UNCHANGED <<links, conns, advOn, evts, queue, keyConn>> /\ Done' = Done
        /\ keys' = "none" \/ keys' = keys
    BY <1>1 DEF ResolveLicense, ServiceAllocate, svcVars, airVars, ghosts, Done
  <2>2. QED
    BY <2>1, KeepsQueue, KeepsEvents, Keeps
<1>2. CASE ServiceReady
  <2>1. /\ UNCHANGED <<links, conns, advOn, evts, keys, keyConn>> /\ Done = FALSE /\ Done' = FALSE
        /\ ~advOn /\ NoLink /\ evts = <<>>
        /\ queue' \in Inserted(<<>>, Plain("START")) \/ queue' = queue
    BY <1>2 DEF ServiceReady, airVars, ghosts, Done, IInv, QuietBeforeReady
  <2>2. CASE queue' = queue
    BY <2>1, <2>2, KeepsQueue, KeepsEvents, Keeps
  <2>3. CASE queue' \in Inserted(<<>>, Plain("START"))
    <3>1. queue' = <<>> \/ (Len(queue') = 1 /\ DOMAIN queue' = {1} /\ queue'[1] = Plain("START"))
      BY <2>3 DEF Inserted
    <3>2. OneOpens(queue', FALSE) /\ FramesOf(queue', conns)
      BY <3>1 DEF OneOpens, FramesOf, LetsIn, Plain
    <3>3. /\ ~Pending("WRITE")' /\ ~Pending("DISCONNECT")' /\ NoLink' /\ ~advOn'
          /\ OneEnds(evts') /\ WritesOf(evts', conns)
      BY <2>1 DEF Pending, NoLink, OneEnds, WritesOf
    <3>4. OneOpens(queue, Done)'
      BY <2>1, <3>2
    <3>5. OnePlace'
      BY <3>3, <3>4 DEF OnePlace, NoLink
    <3>6. OneConnection'
      BY <2>1, <3>2, <3>3 DEF OneConnection, NoLink
    <3>7. QED
      BY <3>5, <3>6
  <2>4. QED
    BY <2>1, <2>2, <2>3
<1>3. QED
  BY <1>1, <1>2

LEMMA FreshStart ==
  ASSUME Init
  PROVE  KInv
<1>1. /\ tpc = "boot" /\ queue = <<>> /\ evts = <<>> /\ advOn = FALSE /\ keys = "none"
      /\ links = [c \in ConnIds |-> 0]
  BY DEF Init
<1>2. StartInHand
  BY <1>1 DEF StartInHand
<1>3. OnePlace
  BY <1>1 DEF OnePlace, OneOpens, Opens, LetsIn, OneEnds, Pending, NoLink
<1>4. OneConnection
  BY <1>1 DEF OneConnection, FramesOf, WritesOf
<1>5. QED
  BY <1>2, <1>3, <1>4 DEF KInv

(* The START in hand stays where it is until its handler is through. *)
LEMMA StartInHandStep ==
  ASSUME IInv, StartInHand, Next
  PROVE  StartInHand'
<1> DEFINE Starting == {"adv_wait", "adv_check", "adv_gap"}
<1>0. queue \in Seq(Msg) /\ (tpc \in Starting => queue # <<>>)
  BY DEF IInv, TypeOK, NodeHeld
<1>1. CASE tpc' \notin Starting
  BY <1>1 DEF StartInHand
<1>2. CASE UNCHANGED <<tpc, queue>>
  BY <1>2 DEF StartInHand
<1>3. CASE LoopStart
  BY <1>3 DEF LoopStart, StartInHand, svcVars, Handling
<1>4. CASE AdvWait \/ AdvCheck
  BY <1>4 DEF AdvWait, AdvCheck, RequestAdvertising, StartInHand
<1>5. ASSUME NEW m, Callback(m) PROVE StartInHand'
  <2>1. CASE tpc' \in Starting
    <3>1. tpc' = tpc /\ queue # <<>>
      BY <1>0, <1>5, <2>1 DEF Callback
    <3>2. queue' = queue \/ queue' = Append(queue, m)
      BY <1>5, CallbackFacts
    <3>3. Head(queue') = Head(queue)
      BY <1>0, <3>1, <3>2, HeadStays
    <3>4. QED
      BY <3>1, <3>3 DEF StartInHand
  <2>2. QED
    BY <1>1, <2>1
<1>6. CASE Connected \/ Disconnected \/ Written
  BY <1>5, <1>6 DEF Connected, Disconnected, Written
<1>7. CASE DataSet \/ AdvStarted \/ Phone
  BY <1>2, <1>7 DEF DataSet, AdvStarted, Phone, PeerConnect, PeerWrite, LinkDown, svcVars
<1>8. CASE \/ ResolveLicense \/ ServiceAllocate \/ ServiceReady \/ LoopIdle \/ AdvGap
           \/ LoopConnect \/ LoopDisconnect \/ LoopRecvData \/ LoopGetToken \/ LoopBadToken
           \/ LoopStop
           \/ LoopRemove \/ LoopFree \/ Yield \/ Reboot
  <2>1. tpc' \notin Starting \/ UNCHANGED <<tpc, queue>>
    BY <1>8 DEF ResolveLicense, ServiceAllocate, ServiceReady, LoopIdle, AdvGap, RequestAdvertising,
         LoopConnect, LoopDisconnect, LoopRecvData, LoopGetToken, LoopBadToken, LoopStop,
         LoopRemove, LoopFree, Yield, Reboot
  <2>2. QED
    BY <1>1, <1>2, <2>1
<1>9. QED
  BY <1>3, <1>4, <1>6, <1>7, <1>8 DEF Next, Task, Bluetooth

LEMMA KeysStep ==
  ASSUME IInv, KInv, [Next]_vars
  PROVE  KInv'
<1>1. CASE UNCHANGED vars
  BY <1>1 DEF vars, svcVars, airVars, ghosts, KInv, StartInHand, OnePlace, OneConnection, OneOpens,
       Opens, LetsIn, Done, OneEnds, FramesOf, WritesOf, NoFrame, NoLink, Queued, Pending
<1>2. CASE Reboot
  <2>1. Init'
    BY <1>2 DEF Reboot, Init
  <2>2. Init' => KInv'
    BY FreshStart, PTL
  <2>3. QED
    BY <2>1, <2>2
<1>3. CASE Task \/ Bluetooth \/ Phone
  <2>1. StartInHand'
    BY <1>3, StartInHandStep DEF KInv, Next
  <2>2. ASSUME ~idled' PROVE OnePlace' /\ OneConnection'
    <3>1. ~idled
      <4>1. CASE Yield
        BY <2>2, <4>1 DEF Yield
      <4>2. CASE Bluetooth \/ Phone
        BY <2>2, <4>2 DEF Bluetooth, DataSet, AdvStarted, Connected, Disconnected, Written,
           Phone, PeerConnect, PeerWrite, LinkDown, ghosts
      <4>3. CASE Task /\ ~Yield
        BY <2>2, <4>3 DEF Task, ResolveLicense, ServiceAllocate, ServiceReady, LoopIdle, LoopStart,
           AdvWait, AdvCheck, AdvGap, LoopConnect, LoopDisconnect, LoopRecvData, LoopGetToken,
           LoopBadToken, LoopStop, LoopRemove, LoopFree, ghosts
      <4>4. QED
        BY <1>3, <4>1, <4>2, <4>3
    <3>2. StartInHand /\ OnePlace /\ OneConnection
      BY <3>1 DEF KInv
    <3>3. CASE Task
      BY <2>2, <3>2, <3>3, SetupSteps, StartSteps, LoopSteps, RecvStep, RecvCrash DEF Task
    <3>4. CASE Bluetooth
      BY <3>2, <3>4, ReportSteps
    <3>5. CASE Phone
      BY <3>2, <3>5, PhoneSteps
    <3>6. QED
      BY <1>3, <3>3, <3>4, <3>5
  <2>3. QED
    BY <2>1, <2>2 DEF KInv
<1>4. QED
  BY <1>1, <1>2, <1>3 DEF Next

(* Until the idle timer has posted a DISCONNECT of its own, the service     *)
(* decrypts a frame only with keys that a frame of the same connection made *)
(* - whatever fails, and however the tasks and the phones interleave.       *)
THEOREM KeysCorrect == Spec => []KeysOfThisConnection
<1>1. Init => KInv
  BY FreshStart
<1>2. IInv /\ KInv /\ [Next]_vars => KInv'
  BY KeysStep
<1>3. IInv /\ KInv => KeysOfThisConnection
  <2> SUFFICES ASSUME IInv, KInv, Handling("RECV_DATA"), keys # "none", ~idled
               PROVE  keyConn = Head(queue).conn
    BY DEF KeysOfThisConnection
  <2>1. queue \in Seq(Msg) /\ queue # <<>> /\ Head(queue).cmd = "RECV_DATA"
    BY DEF Handling, IInv, TypeOK
  <2>2. 1 \in DOMAIN queue /\ queue[1] = Head(queue)
    BY <2>1, TailFacts
  <2>3. FramesOf(queue, conns) /\ keyConn = conns
    BY DEF KInv, OneConnection
  <2>4. QED
    BY <2>1, <2>2, <2>3 DEF FramesOf
<1>4. QED
  BY <1>1, <1>2, <1>3, InductiveInvariant, PTL DEF Spec
================================================================================
