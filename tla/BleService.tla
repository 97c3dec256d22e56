------------------------------ MODULE BleService ------------------------------
(***************************************************************************)
(* The BLE provisioning service of the firmware: the task created by        *)
(* app_main, the message loop of tuya_ble_service.c that it runs, the port  *)
(* of the Bluetooth stack (ble_wrapper.c), whose event handlers run in the  *)
(* Bluetooth task, and a phone that connects, writes frames and leaves.     *)
(*                                                                          *)
(* The two tasks share sg_ble_service_params, its message queue and the     *)
(* port's flags without a lock.  A step of either task runs from one point  *)
(* where the other can interfere to the next.                               *)
(***************************************************************************)
EXTENDS Naturals, Sequences

CONSTANTS
  ConnIds,    \* the connection ids the stack hands out: 0 .. n, lowest free first
  MaxConn,    \* bound: connections the phones make in one boot
  MaxQueue,   \* bound: the Bluetooth task and the idle timer add to no longer queue
  MaxEvts,    \* bound: phones act, and half of a START fails, only while fewer
              \* events than this are pending
  Frames,     \* what a write can carry: a subset of FrameKinds
  Faults      \* TRUE: mallocs, radio requests and unlocked inserts may fail

INVALID == 65535                      \* TKL_BLE_GATT_INVALID_HANDLE (0xFFFF)
Handles == ConnIds \cup {INVALID}

(* Frames of one pack that the service takes or drops, and the writes it    *)
(* does not check for.  Those it may not survive: packs after the first     *)
(* (written past the buffer, or through NULL when there is none), a command *)
(* it does not know (frees a pointer it never set), an app_mtu too small    *)
(* for the head of a pack, a token whose text lacks one of its fields.      *)
SafeFrames == {"DEV_INFO", "PAIR_REQ", "GET_TOKEN", "BAD"}
UnsafeFrames == {"MORE_PACKS", "UNKNOWN", "TINY_MTU", "BAD_TOKEN"}
FrameKinds == SafeFrames \cup UnsafeFrames

ASSUME ConstantsAssumption ==
  /\ ConnIds \subseteq Nat \ {INVALID}
  /\ 0 \in ConnIds
  /\ MaxConn \in Nat
  /\ MaxQueue \in Nat
  /\ MaxEvts \in Nat
  /\ Frames \subseteq FrameKinds
  /\ Faults \in BOOLEAN

VARIABLES
  tpc,        \* where the provisioning task is; "panic" when the chip has crashed
  svc,        \* sg_ble_service_params: "null", "alloc" (queue not yet set up), "ready"
  isStop,     \* is_stop
  connHdl,    \* conn_hdl: the handle the service answers on
  keys,       \* key_mask: "none", "made", or "told" once DEV_INFO gave srand away
  queue,      \* msg_queue
  timer,      \* timer_hdl is in the timer list
  cbs,        \* s_gap_cb and s_gatt_cb are set
  sConn,      \* s_conn_handle
  advRunning, \* s_adv_running
  advPending, \* s_adv_pending
  bits,       \* ADV_DATA_READY_BIT and SCAN_RSP_READY_BIT of s_ble_events
  advOn,      \* the controller is advertising
  links,      \* the connection on each id: its number in this boot, 0 for none
  closing,    \* ids the service has asked the stack to close
  conns,      \* connections made in this boot
  evts,       \* what the stack has yet to report to the event handlers
  token,      \* history: the token callback has run in this boot
  keyConn,    \* history: the connection whose frame made the keys, 0 for none
  idled,      \* history: the idle timer has expired in this boot
  unsafe      \* history: a phone has written an unsafe frame in this boot, or a
              \* handler that does not check for it has run out of memory

svcVars  == <<svc, isStop, connHdl, keys, queue, timer>>
portVars == <<cbs, sConn, advRunning, advPending, bits>>
airVars  == <<advOn, links, closing, conns, evts>>
ghosts   == <<token, keyConn, idled, unsafe>>
vars     == <<tpc, svcVars, portVars, airVars, ghosts>>

(***************************************************************************)
(* Messages of msg_queue and events of the stack.  The number of the        *)
(* connection a frame came from is not in the code's message: it is there   *)
(* for the properties only.  BAD_TOKEN is a GET_TOKEN message whose text    *)
(* lacks a field.                                                           *)
(***************************************************************************)
Conn == 1 .. MaxConn

PlainMsg == [cmd : {"START", "DISCONNECT", "GET_TOKEN", "BAD_TOKEN", "STOP"}]
Msg == PlainMsg \cup [cmd : {"CONNECT"}, hdl : ConnIds]
                \cup [cmd : {"RECV_DATA"}, frame : Frames, conn : Conn]
Plain(c) == [cmd |-> c]

PlainEvt == [ev : {"DATA_SET", "RSP_SET", "ADV_START", "ADV_FAIL", "ADV_STOP", "DISCONNECT"}]
Evt == PlainEvt \cup [ev : {"CONNECT"}, hdl : ConnIds]
                \cup [ev : {"WRITE"}, frame : Frames, conn : Conn]
Happens(e) == [ev |-> e]

TaskSteps == {"boot", "start", "stack_init", "loop", "adv_wait", "adv_check",
              "adv_gap", "remove", "free", "yield", "dead", "panic"}

(* What a call of ble_msg_queue_insert can leave in the queue: it drops the *)
(* message when malloc fails, and an insert that overlaps another operation *)
(* of the other task can leave its node unreachable.                        *)
Inserted(q, m) == {Append(q, m)} \cup (IF Faults THEN {q} ELSE {})

Init ==
  /\ tpc = "boot"
  /\ svc = "null" /\ isStop = FALSE /\ connHdl = INVALID /\ keys = "none"
  /\ queue = <<>> /\ timer = FALSE
  /\ cbs = FALSE /\ sConn = INVALID
  /\ advRunning = FALSE /\ advPending = FALSE /\ bits = {}
  /\ advOn = FALSE /\ links = [c \in ConnIds |-> 0] /\ closing = {}
  /\ conns = 0 /\ evts = <<>>
  /\ token = FALSE /\ keyConn = 0 /\ idled = FALSE /\ unsafe = FALSE

-----------------------------------------------------------------------------
(* The provisioning task: tuya_ble_task and tuya_ble_service_start.         *)

(* The license must match the chip, or the task deletes itself. *)
ResolveLicense ==
  /\ tpc = "boot"
  /\ tpc' \in {"start", "dead"}
  /\ UNCHANGED <<svcVars, portVars, airVars, ghosts>>

(* Allocate and clear the service (conn_hdl becomes 0, not INVALID), then   *)
(* register the callbacks while the queue head is still all zeroes.         *)
ServiceAllocate ==
  /\ tpc = "start"
  /\ \/ /\ svc' = "alloc" /\ isStop' = FALSE /\ connHdl' = 0 /\ keys' = "none"
        /\ cbs' = TRUE /\ tpc' = "stack_init"
     \/ /\ Faults                      \* system_malloc fails
        /\ tpc' = "dead" /\ UNCHANGED <<svc, isStop, connHdl, keys, cbs>>
  /\ UNCHANGED <<queue, timer, sConn, advRunning, advPending, bits, airVars, ghosts>>

(* Bring the stack up, initialise the queue, post START.  When the stack    *)
(* does not come up the task ends and leaves the service allocated.         *)
ServiceReady ==
  /\ tpc = "stack_init"
  /\ \/ /\ svc' = "ready"
        /\ queue' \in Inserted(<<>>, Plain("START"))
        /\ tpc' = "loop"
     \/ /\ Faults
        /\ tpc' = "dead" /\ UNCHANGED <<svc, queue>>
  /\ UNCHANGED <<isStop, connHdl, keys, timer, portVars, airVars, ghosts>>

(* The test of the task's loop, and a call of ble_service_loop that finds   *)
(* no message.                                                              *)
LoopIdle ==
  /\ tpc = "loop"
  /\ \/ svc = "null" /\ tpc' = "dead"
     \/ svc # "null" /\ queue = <<>> /\ tpc' = "yield"
  /\ UNCHANGED <<svcVars, portVars, airVars, ghosts>>

Handling(c) == tpc = "loop" /\ svc # "null" /\ queue # <<>> /\ Head(queue).cmd = c

(* START: hand the advertising and scan response data to the stack, then    *)
(* wait for both to be set.  If the stack refuses either, the handler       *)
(* returns and the message stays at the head of the queue.                  *)
LoopStart ==
  /\ Handling("START")
  /\ bits' = {}
  /\ \/ /\ tpc' = "adv_wait" /\ advPending' = TRUE
        /\ evts' = evts \o <<Happens("DATA_SET"), Happens("RSP_SET")>>
     \/ /\ Faults
        /\ tpc' = "yield" /\ UNCHANGED advPending
        /\ \/ UNCHANGED evts
           \/ Len(evts) < MaxEvts /\ evts' = Append(evts, Happens("DATA_SET"))
  /\ UNCHANGED <<svcVars, cbs, sConn, advRunning, advOn, links, closing, conns, ghosts>>

(* wait_ble_event_bits: the stack has answered both requests. *)
BothSet == bits = {"DATA", "RSP"}

(* tkl_ble_gap_adv_start: both bits came in time, or two seconds passed and *)
(* the start is put off: s_adv_pending stays set and the call succeeds.     *)
AdvWait ==
  /\ tpc = "adv_wait"
  /\ \/ /\ BothSet
        /\ advPending' = FALSE /\ tpc' = "adv_check" /\ UNCHANGED keys
     \/ /\ ~BothSet
        /\ keys' = "none" /\ tpc' = "remove" /\ UNCHANGED advPending
  /\ UNCHANGED <<svc, isStop, connHdl, queue, timer, cbs, sConn, advRunning, bits,
                 airVars, ghosts>>

(* Mutant: the keys of the last phone are kept. *)
RequestAdvertisingKeepsKeys ==
  /\ \/ advOn' = TRUE /\ evts' = Append(evts, Happens("ADV_START"))
     \/ Faults /\ advOn' = advOn /\ evts' = Append(evts, Happens("ADV_FAIL"))
  /\ tpc' = "remove" /\ UNCHANGED keys

(* esp_ble_gap_start_advertising, and what the START handler does once      *)
(* tkl_ble_gap_adv_start has returned.                                      *)
RequestAdvertising ==
  /\ \/ advOn' = TRUE /\ evts' = Append(evts, Happens("ADV_START"))
     \/ Faults /\ advOn' = advOn /\ evts' = Append(evts, Happens("ADV_FAIL"))
  /\ keys' = "none" /\ tpc' = "remove"

(* start_advertising_now: nothing while connected; a running advertisement  *)
(* is stopped first and the task sleeps for 50 ms.                          *)
AdvCheck ==
  /\ tpc = "adv_check"
  /\ \/ /\ sConn # INVALID
        /\ keys' = "none" /\ tpc' = "remove" /\ UNCHANGED <<advOn, evts>>
     \/ /\ sConn = INVALID /\ advRunning
        /\ advOn' = FALSE /\ evts' = Append(evts, Happens("ADV_STOP"))
        /\ tpc' = "adv_gap" /\ UNCHANGED keys
     \/ /\ sConn = INVALID /\ ~advRunning
        /\ RequestAdvertising
  /\ UNCHANGED <<svc, isStop, connHdl, queue, timer, portVars, links, closing, conns, ghosts>>

AdvGap ==
  /\ tpc = "adv_gap"
  /\ advRunning' = FALSE
  /\ RequestAdvertising
  /\ UNCHANGED <<svc, isStop, connHdl, queue, timer, cbs, sConn, advPending, bits,
                 links, closing, conns, ghosts>>

(* CONNECT: remember the handle, start the 30 s timer. *)
LoopConnect ==
  /\ Handling("CONNECT")
  /\ connHdl' = Head(queue).hdl
  /\ timer' = TRUE
  /\ tpc' = "remove"
  /\ UNCHANGED <<svc, isStop, keys, queue, portVars, airVars, ghosts>>

(* Mutants: the timer goes on; the test of is_stop is the wrong way round;  *)
(* a disconnect ends the service.                                           *)
LoopDisconnectKeepsTimer ==
  /\ Handling("DISCONNECT")
  /\ IF isStop THEN UNCHANGED queue ELSE queue' \in Inserted(queue, Plain("START"))
  /\ tpc' = "remove"
  /\ UNCHANGED <<svc, isStop, connHdl, keys, timer, portVars, airVars, ghosts>>

LoopDisconnectInverted ==
  /\ Handling("DISCONNECT")
  /\ timer' = FALSE
  /\ IF isStop THEN queue' \in Inserted(queue, Plain("START")) ELSE UNCHANGED queue
  /\ tpc' = "remove"
  /\ UNCHANGED <<svc, isStop, connHdl, keys, portVars, airVars, ghosts>>

LoopDisconnectStops ==
  /\ Handling("DISCONNECT")
  /\ timer' = FALSE
  /\ IF isStop THEN UNCHANGED queue ELSE queue' \in Inserted(queue, Plain("STOP"))
  /\ tpc' = "remove"
  /\ UNCHANGED <<svc, isStop, connHdl, keys, portVars, airVars, ghosts>>

(* DISCONNECT: stop the timer, and advertise again unless stopping. *)
LoopDisconnect ==
  /\ Handling("DISCONNECT")
  /\ timer' = FALSE
  /\ IF isStop THEN UNCHANGED queue ELSE queue' \in Inserted(queue, Plain("START"))
  /\ tpc' = "remove"
  /\ UNCHANGED <<svc, isStop, connHdl, keys, portVars, airVars, ghosts>>

(* Decrypting makes the keys when there are none.  A frame under key_2      *)
(* (PAIR_REQ, GET_TOKEN) only decrypts when the answer to DEV_INFO has told *)
(* the phone the random part of it.                                         *)
KeysAfter(f) ==
  CASE f \in {"DEV_INFO", "TINY_MTU"} -> "told"
    [] f \notin {"DEV_INFO", "TINY_MTU"} /\ keys = "none" -> "made"
    [] OTHER -> keys

(* An accepted GET_TOKEN frame becomes a message of its own. *)
BringsToken(f) == f \in {"GET_TOKEN", "BAD_TOKEN"} /\ keys = "told"

(* Handling the frame ends the chip: one of the unsafe ones, or any that is *)
(* answered when there is no memory for the answer's frame.  (A bad token   *)
(* is not looked at yet.)                                                   *)
FrameCrashes(f) ==
  \/ f \in UnsafeFrames \ {"BAD_TOKEN"} /\ UNCHANGED unsafe
  \/ Faults /\ f \notin {"BAD", "MORE_PACKS"} /\ unsafe' = TRUE

(* RECV_DATA: nothing once conn_hdl is invalid, nor while the frame is not  *)
(* complete.  An answer that could not be sent does not tell the keys.      *)
LoopRecvData ==
  /\ Handling("RECV_DATA")
  /\ LET m == Head(queue)
     IN \/ /\ connHdl = INVALID \/ m.frame \in {"BAD", "MORE_PACKS"} \/ Faults
           /\ tpc' = "remove"
           /\ UNCHANGED <<keys, queue, keyConn, unsafe>>
        \/ /\ connHdl # INVALID
           /\ tpc' = "remove"
           /\ keyConn' = IF keys = "none" THEN m.conn ELSE keyConn
           /\ \/ keys' = KeysAfter(m.frame)
              \/ Faults /\ keys' = (IF keys = "none" THEN "made" ELSE keys)
           /\ IF BringsToken(m.frame) THEN queue' \in Inserted(queue, Plain(m.frame))
                                      ELSE UNCHANGED queue
           /\ UNCHANGED unsafe
        \/ /\ connHdl # INVALID
           /\ FrameCrashes(m.frame)
           /\ tpc' = "panic"
           /\ UNCHANGED <<keys, queue, keyConn>>
  /\ UNCHANGED <<svc, isStop, connHdl, timer, portVars, airVars, token, idled>>

(* Mutant: nobody asks for the stop. *)
LoopGetTokenOnly ==
  /\ Handling("GET_TOKEN")
  /\ token' = TRUE
  /\ tpc' = "remove"
  /\ UNCHANGED <<svc, isStop, connHdl, keys, queue, timer, portVars, airVars, keyConn,
                 idled, unsafe>>

(* GET_TOKEN: hand the token to the application and ask for a stop. *)
LoopGetToken ==
  /\ Handling("GET_TOKEN")
  /\ token' = TRUE
  /\ queue' \in Inserted(queue, Plain("STOP"))
  /\ tpc' = "remove"
  /\ UNCHANGED <<svc, isStop, connHdl, keys, timer, portVars, airVars, keyConn, idled,
                 unsafe>>

(* The same message when ble_service_token_parse dereferences the NULL that *)
(* cJSON gives it: for a field that is not there, or when there is no       *)
(* memory for the tree.                                                     *)
LoopBadToken ==
  /\ \/ Handling("BAD_TOKEN") /\ UNCHANGED unsafe
     \/ Faults /\ Handling("GET_TOKEN") /\ unsafe' = TRUE
  /\ tpc' = "panic"
  /\ UNCHANGED <<svcVars, portVars, airVars, token, keyConn, idled>>

(* STOP: end advertising and ask the stack to close the connection.  The    *)
(* close only completes when the stack reports it; closing a handle that    *)
(* has no connection does nothing.                                          *)
LoopStop ==
  /\ Handling("STOP")
  /\ isStop' = TRUE
  /\ advPending' = FALSE /\ advRunning' = FALSE
  /\ advOn' = FALSE /\ evts' = Append(evts, Happens("ADV_STOP"))
  /\ closing' = closing \cup {c \in ConnIds : c = connHdl /\ links[c] # 0}
  /\ connHdl' = INVALID
  /\ tpc' = "remove"
  /\ UNCHANGED <<svc, keys, queue, timer, cbs, sConn, bits, links, conns, ghosts>>

(* The end of ble_service_loop: remove the message that was handled; a      *)
(* stopping service whose queue is empty is freed.  The Bluetooth task can  *)
(* still add a message before that.                                         *)
LoopRemove ==
  /\ tpc = "remove"
  /\ queue' = Tail(queue)
  /\ tpc' = IF isStop /\ Tail(queue) = <<>> THEN "free" ELSE "yield"
  /\ UNCHANGED <<svc, isStop, connHdl, keys, timer, portVars, airVars, ghosts>>

(* Mutant: the task starts the service again. *)
LoopFreeRestarts ==
  /\ tpc = "free"
  /\ svc' = "null" /\ queue' = <<>>
  /\ tpc' = "start"
  /\ UNCHANGED <<isStop, connHdl, keys, timer, portVars, airVars, ghosts>>

LoopFree ==
  /\ tpc = "free"
  /\ svc' = "null" /\ queue' = <<>>
  /\ tpc' = "yield"
  /\ UNCHANGED <<isStop, connHdl, keys, timer, portVars, airVars, ghosts>>

(* MultiTimerYield after each pass: an expired idle timer restarts itself   *)
(* and its callback posts DISCONNECT.  The timer lives in the freed service *)
(* when the loop has just ended.                                            *)
Yield ==
  /\ tpc = "yield"
  /\ \/ /\ tpc' = "loop" /\ UNCHANGED <<queue, idled>>
     \/ /\ timer /\ svc = "ready" /\ Len(queue) < MaxQueue
        /\ queue' \in Inserted(queue, Plain("DISCONNECT"))
        /\ idled' = TRUE /\ tpc' = "loop"
     \/ /\ timer /\ svc = "null"
        /\ idled' = TRUE /\ tpc' = "panic" /\ UNCHANGED queue
  /\ UNCHANGED <<svc, isStop, connHdl, keys, timer, portVars, airVars, token, keyConn,
                 unsafe>>

-----------------------------------------------------------------------------
(* The Bluetooth task: tuya_ble_gap_event_handler, tuya_gatts_event_handler *)

Reported(e) == tpc # "panic" /\ evts # <<>> /\ Head(evts).ev = e

(* ble_gap_evt_cb and ble_gatt_evt_cb, called by the port: they use         *)
(* sg_ble_service_params unchecked, so a service that is not there (or      *)
(* whose queue is not yet initialised) crashes the chip.                    *)
Callback(m) ==
  \/ ~cbs /\ UNCHANGED <<tpc, queue>>
  \/ cbs /\ svc = "ready" /\ Len(queue) < MaxQueue
         /\ queue' \in Inserted(queue, m) /\ UNCHANGED tpc
  \/ cbs /\ svc # "ready" /\ tpc' = "panic" /\ UNCHANGED queue

(* The bit is set whether or not the request succeeded. *)
DataSet ==
  /\ \/ Reported("DATA_SET") /\ bits' = bits \cup {"DATA"}
     \/ Reported("RSP_SET") /\ bits' = bits \cup {"RSP"}
  /\ evts' = Tail(evts)
  /\ UNCHANGED <<tpc, svcVars, cbs, sConn, advRunning, advPending,
                 advOn, links, closing, conns, ghosts>>

(* Mutant: the stop event does not clear the flag. *)
AdvStartedOnly ==
  /\ \/ Reported("ADV_START") /\ advRunning' = TRUE
     \/ Reported("ADV_FAIL") /\ advRunning' = FALSE
     \/ Reported("ADV_STOP") /\ UNCHANGED advRunning
  /\ evts' = Tail(evts)
  /\ UNCHANGED <<tpc, svcVars, cbs, sConn, advPending, bits,
                 advOn, links, closing, conns, ghosts>>

AdvStarted ==
  /\ \/ Reported("ADV_START") /\ advRunning' = TRUE
     \/ Reported("ADV_FAIL") /\ advRunning' = FALSE
     \/ Reported("ADV_STOP") /\ advRunning' = FALSE
  /\ evts' = Tail(evts)
  /\ UNCHANGED <<tpc, svcVars, cbs, sConn, advPending, bits,
                 advOn, links, closing, conns, ghosts>>

Connected ==
  /\ Reported("CONNECT")
  /\ sConn' = Head(evts).hdl
  /\ advRunning' = FALSE
  /\ advOn' = FALSE /\ evts' = Append(Tail(evts), Happens("ADV_STOP"))
  /\ Callback([cmd |-> "CONNECT", hdl |-> Head(evts).hdl])
  /\ UNCHANGED <<svc, isStop, connHdl, keys, timer, cbs, advPending, bits,
                 links, closing, conns, ghosts>>

(* Mutant: the handle is set to a byte-sized "no connection". *)
DisconnectedByte ==
  /\ Reported("DISCONNECT")
  /\ sConn' = 255
  /\ evts' = Tail(evts)
  /\ Callback(Plain("DISCONNECT"))
  /\ UNCHANGED <<svc, isStop, connHdl, keys, timer, cbs, advRunning, advPending, bits,
                 advOn, links, closing, conns, ghosts>>

Disconnected ==
  /\ Reported("DISCONNECT")
  /\ sConn' = INVALID
  /\ evts' = Tail(evts)
  /\ Callback(Plain("DISCONNECT"))
  /\ UNCHANGED <<svc, isStop, connHdl, keys, timer, cbs, advRunning, advPending, bits,
                 advOn, links, closing, conns, ghosts>>

Written ==
  /\ Reported("WRITE")
  /\ evts' = Tail(evts)
  /\ Callback([cmd |-> "RECV_DATA", frame |-> Head(evts).frame, conn |-> Head(evts).conn])
  /\ UNCHANGED <<svc, isStop, connHdl, keys, timer, portVars,
                 advOn, links, closing, conns, ghosts>>

-----------------------------------------------------------------------------
(* The phones and the controller (external). *)

PeerConnect ==
  /\ tpc # "panic" /\ advOn /\ conns < MaxConn /\ Len(evts) < MaxEvts
  /\ \E c \in ConnIds :
       /\ links[c] = 0
       /\ \A d \in ConnIds : d < c => links[d] # 0
       /\ links' = [links EXCEPT ![c] = conns + 1]
       /\ evts' = Append(evts, [ev |-> "CONNECT", hdl |-> c])
  /\ conns' = conns + 1
  /\ advOn' = FALSE          \* a connectable advertisement ends with the connection
  /\ UNCHANGED <<tpc, svcVars, portVars, closing, ghosts>>

PeerWrite ==
  /\ tpc # "panic" /\ Len(evts) < MaxEvts
  /\ \E c \in ConnIds, f \in Frames :
       /\ links[c] # 0
       /\ evts' = Append(evts, [ev |-> "WRITE", frame |-> f, conn |-> links[c]])
       /\ unsafe' = (unsafe \/ f \in UnsafeFrames)
  /\ UNCHANGED <<tpc, svcVars, portVars, advOn, links, closing, conns, token, keyConn, idled>>

(* The phone leaves, the link times out, or a close completes. *)
LinkDown(c) ==
  /\ tpc # "panic" /\ links[c] # 0
  /\ links' = [links EXCEPT ![c] = 0]
  /\ closing' = closing \ {c}
  /\ evts' = Append(evts, Happens("DISCONNECT"))
  /\ UNCHANGED <<tpc, svcVars, portVars, advOn, conns, ghosts>>

(* The panic handler restarts the chip, and with it the controller. *)
Reboot ==
  /\ tpc = "panic"
  /\ tpc' = "boot"
  /\ svc' = "null" /\ isStop' = FALSE /\ connHdl' = INVALID /\ keys' = "none"
  /\ queue' = <<>> /\ timer' = FALSE
  /\ cbs' = FALSE /\ sConn' = INVALID
  /\ advRunning' = FALSE /\ advPending' = FALSE /\ bits' = {}
  /\ advOn' = FALSE /\ links' = [c \in ConnIds |-> 0] /\ closing' = {}
  /\ conns' = 0 /\ evts' = <<>>
  /\ token' = FALSE /\ keyConn' = 0 /\ idled' = FALSE /\ unsafe' = FALSE

-----------------------------------------------------------------------------
Task ==
  \/ ResolveLicense \/ ServiceAllocate \/ ServiceReady
  \/ LoopIdle \/ LoopStart \/ AdvWait \/ AdvCheck \/ AdvGap
  \/ LoopConnect \/ LoopDisconnect \/ LoopRecvData \/ LoopGetToken \/ LoopBadToken
  \/ LoopStop \/ LoopRemove \/ LoopFree \/ Yield

Bluetooth == DataSet \/ AdvStarted \/ Connected \/ Disconnected \/ Written

Phone == PeerConnect \/ PeerWrite \/ \E c \in ConnIds : LinkDown(c)

Next == Task \/ Bluetooth \/ Phone \/ Reboot

Spec == Init /\ [][Next]_vars

(* Both tasks run whenever they can: FreeRTOS schedules them preemptively   *)
(* and neither waits for the other for ever.  The stack completes a close.  *)
(* Phones owe nothing.                                                      *)
Fairness ==
  /\ WF_vars(Task)
  /\ WF_vars(Bluetooth)
  /\ WF_vars(Reboot)
  /\ \A c \in ConnIds : WF_vars(c \in closing /\ LinkDown(c))

FairSpec == Spec /\ Fairness

-----------------------------------------------------------------------------
(* Every variable has its type. *)
TypeOK ==
  /\ tpc \in TaskSteps
  /\ svc \in {"null", "alloc", "ready"} /\ isStop \in BOOLEAN
  /\ connHdl \in Handles /\ keys \in {"none", "made", "told"}
  /\ queue \in Seq(Msg) /\ timer \in BOOLEAN
  /\ cbs \in BOOLEAN /\ sConn \in Handles
  /\ advRunning \in BOOLEAN /\ advPending \in BOOLEAN /\ bits \subseteq {"DATA", "RSP"}
  /\ advOn \in BOOLEAN /\ links \in [ConnIds -> 0 .. MaxConn] /\ closing \subseteq ConnIds
  /\ conns \in 0 .. MaxConn /\ evts \in Seq(Evt)
  /\ token \in BOOLEAN /\ keyConn \in 0 .. MaxConn /\ idled \in BOOLEAN
  /\ unsafe \in BOOLEAN

Pending(e) == \E i \in DOMAIN evts : evts[i].ev = e
Queued(c) == \E i \in DOMAIN queue : queue[i].cmd = c
NoLink == \A c \in ConnIds : links[c] = 0

(* tuya_ble_service_start registers its callbacks before it initialises the *)
(* queue they insert into; no phone can reach them in between.              *)
NoTrafficBeforeQueue ==
  cbs /\ svc = "alloc" =>
    /\ ~advOn /\ NoLink
    /\ ~Pending("CONNECT") /\ ~Pending("DISCONNECT") /\ ~Pending("WRITE")

(* s_adv_running is written by both tasks, ahead of and behind the events   *)
(* it mirrors: when none is outstanding it still says what the controller   *)
(* is doing, so that start_advertising_now stops what it has to stop.       *)
RunningFlagAgrees ==
  (\A e \in {"ADV_START", "ADV_FAIL", "ADV_STOP", "CONNECT"} : ~Pending(e)) => advRunning = advOn

(* The idle timer outlives its connection only until the disconnect that    *)
(* stops it has been handled: it never fires on behalf of a phone that has  *)
(* gone and been forgotten.                                                 *)
TimerHasConnection ==
  timer /\ svc = "ready" /\ NoLink => Pending("DISCONNECT") \/ Queued("DISCONNECT")

(* A frame is decrypted with keys made for its own connection: the START    *)
(* that lets the next phone in has dropped the last one's keys.  (Not so    *)
(* once the idle timer has posted a DISCONNECT of its own.)                 *)
KeysOfThisConnection ==
  Handling("RECV_DATA") /\ connHdl # INVALID /\ keys # "none" /\ ~idled
    => keyConn = Head(queue).conn

(* The service implements what Provisioning promises. *)
phase ==
  CASE svc = "ready" /\ ~isStop -> "serving"
    [] svc = "ready" /\ isStop  -> "stopping"
    [] svc = "null" /\ isStop   -> "over"
    [] OTHER                    -> "off"

P == INSTANCE Provisioning

(* The service serves until it has handed over a token, stops only then and *)
(* is not abandoned before.  It crashes while it serves only when a phone   *)
(* has written a frame that its handlers do not check, or when a handler    *)
(* has run out of memory: never by the way the two tasks interleave.        *)
StopsOnlyWithToken == P!Spec

(* Once a token has been handed over the service comes to its end, provided *)
(* that phones leave some time: one that connects after STOP was handled is *)
(* not hung up on, and its frames are messages that put the end off.        *)
TokenEndsService ==
  (\A c \in ConnIds : WF_vars(LinkDown(c))) => (token ~> svc = "null")

(* A service that has not been told to stop and has lost its phone is       *)
(* advertising again some time later, unless the start was put off because  *)
(* the stack did not answer in time or a handler has crashed.               *)
AdvertisesAgain ==
  svc = "ready" /\ ~isStop /\ NoLink
    ~> advOn \/ ~NoLink \/ isStop \/ advPending \/ tpc = "panic"

-----------------------------------------------------------------------------
(* What comments of the code say and the code does not do. *)

(* tuya_ble_service.c:1122 "Not get token, start ble adv": a disconnect     *)
(* handled after the token has come starts no advertising.                  *)
NoAdvertisingAfterToken ==
  [][token /\ Handling("DISCONNECT") /\ tpc' = "remove" => queue' = queue]_vars

(* ble_wrapper.c:394 "The service callback queues BLE_SVC_STATUS_DISCONNECT *)
(* and owns ADV restart": every disconnect that is reported is queued.      *)
DisconnectIsQueued ==
  [][Disconnected => queue' = Append(queue, Plain("DISCONNECT"))]_vars
=============================================================================
