# A verification development of the leffberg-1001 firmware

The firmware lets a phone provision a Tuya device over Bluetooth Low Energy: the
device advertises, a phone connects, proves that it knows the device, and writes
the Wi-Fi credentials and a binding token. It runs on an ESP32 and builds a part
of Tuya's *connect-kit* SDK (`SDK` below is
`src/components/tuya-iot-link-sdk/tuya-connect-kit-for-mqtt-embedded-c`) over a
port of its own (`PORT` is `src/components/tuya-iot-link-sdk/port`). The rest of
the SDK (MQTT, MATOP, downloads, the IoT client's life cycle) is in the
repository and not in the firmware's build.

These modules model the firmware's provisioning service with the two tasks that
run it, its message queue down to the pointers, its framing and its timers, and the
SDK's MQTT service, IoT client and firmware download. TLC checks them on small
instances; TLAPS proves the safety properties of all of them for every value of their constants.

## 1. Inventory

| part | source | state | operations |
|---|---|---|---|
| provisioning service | `SDK/src/tuya_ble_service.c`, `src/main/main.c` | `sg_ble_service_params` (queue, `is_stop`, `conn_hdl`, `key_mask`, `timer_hdl`, `app_mtu`), static reassembly buffer | `tuya_ble_service_start`, `ble_service_loop` and its six handlers, the two callbacks, the timer's callback |
| port of the Bluetooth stack | `PORT/ble_wrapper.c` | `s_conn_handle`, `s_adv_running`, `s_adv_pending`, the event bits, the registered callbacks | advertising data, start and stop, disconnect, notify; the GAP and GATTS event handlers |
| message queue | `SDK/utils/queue.h`, `ble_msg_queue_insert` | head, nodes, `tqe_next`, `tqe_prev`, `tqh_last` | insert at the tail (both tasks), peek, remove, free (provisioning task) |
| framing | `tuya_ble_service.c` 452-514, 763-906 | `recv_pack`, `data_offset` | reassembly of packs, cutting an answer into packs |
| license binding | `src/main/tuya_license_bind.c` | none | matches the chip's MAC address with a table |
| MultiTimer | `SDK/utils/MultiTimer.c` | the sorted list of timers | start, stop, yield |
| MQTT service | `SDK/src/mqtt_service.c`, `SDK/middleware/mqtt_client_wrapper.c` | `publish_list`, `subscribe_list`, `is_connected`, `manual_disconnect` | start, stop, publish, loop; callbacks for connection, disconnection, PUBACK, messages |
| IoT client | `SDK/src/tuya_iot.c`, `mqtt_bind.c` | `state`, `nextstate`, `is_activated`, the credential, the binding, two keys in storage | `tuya_iot_yield`, start, stop, reconnect, reset, data removal; the callbacks of the MQTT service |
| MATOP | `SDK/src/matop_service.c` | list of requests with 16-bit ids | request, answer, timeout |
| download, OTA | `SDK/src/file_download.c`, `tuya_ota.c` | state, received size, retries, the retry timer | begin, start, yield, suspend, answers, the timer's callback |
| HTTPS requests, endpoint, DNS, utilities, platform, vendored libraries, examples, the I2S test, the handoff package | see `PROJECT.json` | none of their own, or cached data | not modelled |

**How the parts interact.** `app_main` creates one task, which runs
`tuya_ble_service_start` and then `ble_service_loop`, a sleep of 10 ms and
`MultiTimerYield` until `sg_ble_service_params` is NULL. The Bluetooth stack has a
task of its own; it calls the port's event handlers, which set the port's flags
and call the service's callbacks, and these insert messages into the queue that
the loop empties. Handlers insert messages too: DISCONNECT inserts START,
GET_TOKEN inserts STOP, an accepted frame inserts GET_TOKEN, and the idle timer
inserts DISCONNECT. The two tasks share the service, the queue and the flags
without a lock (the only mutex, `s_adv_lock`, is taken by one function of one task).
The MQTT service is single-threaded: application, loop and callbacks run in turn,
against a broker, a network and a clock that do not wait. In the same thread
`tuya_iot_yield` moves the client from state to state, `matop_serice_yield` times
requests out and `MultiTimerYield` calls the timers; answers to requests come through
the MQTT service's callbacks and call back into the download, which makes the next request.

**What is hard.** Every shared variable may change between two steps of a
handler. The service is freed while its callbacks stay registered. A START may be
queued behind a STOP. The stack's answers come late, or after the waiting task has
given up. Flags mirror the controller through events. Packs may be lost when memory runs out, and handlers
use frames, tokens and allocations that they have not checked.
Timeouts race acknowledgements, and lists change while they are walked. A
reconnection clears the list of requests and starts their ids again. Power may fail
between two writes to storage, a write may fail unnoticed, and `nextstate` is
written from several places within one yield.
`PROJECT.json` lists each of these at its line.

**What makes each part correct.**
- Service: it serves until a token has been delivered, then stops and ends; a phone that
  leaves makes it advertise again; nothing reaches a queue that is not there.
- Port: its flags agree with the controller once its events have been handled.
- Queue: first in, first out, nothing lost, leaked or used after it was freed.
- Framing: what is handed on is what the phone wrote, in order.
- MQTT: one answer for each report, and OK only for what the broker has received.
- Timers: none called before its time, none forgotten, in a list that changes under the loop.
- IoT client: memory and storage agree on whether the device is activated; no session outlives
  its credential; the device keeps its id; an unbinding is obeyed.
- Download: bytes at their place, one ending, and until it something that carries the download on.

## 2. Modules

| module | what it is |
|---|---|
| `Provisioning` | abstract: what the service promises in one boot (off, serving, stopping, over; a token) |
| `BleService` | the provisioning task, the loop's handlers, the port, the Bluetooth task, phones and controller; implements `Provisioning` |
| `BleServiceProofs` | its theorems: types, start-up, the refinement of `Provisioning`; the advertising flag and the idle timer; whose keys decrypt a frame |
| `Fifo` | abstract: a queue whose head stays while it is handled |
| `MsgQueue` | the TAILQ, one pointer assignment a step, from both tasks; implements `Fifo` |
| `MsgQueueProofs` | its theorems, the refinement of `Fifo` among them |
| `BleFraming` | packs, reassembly, answers |
| `BleFramingProofs` | its theorems |
| `MqttService` | the MQTT service with broker, network and clock |
| `MqttServiceProofs` | its theorems |
| `MultiTimer` | the timer list, its passes and a tick counter that wraps |
| `ListFacts` | lemmas about lists, sums and least numbers that the proofs of `MultiTimer`, `FileDownload`, `MsgQueue` and `BleFraming` share |
| `MultiTimerProofs` | its theorems |
| `Matop` | requests, answers and ids, as operators on a context |
| `FileDownload` | an upgrade: `tuya_ota.c` on `file_download.c` on `Matop`, with the timers and the cloud |
| `FileDownloadProofs` | its theorems |
| `IotClient` | the client's life cycle with storage, cloud and power failures |
| `IotClientProofs` | its theorems |
| `MCBleService`, `MCMsgQueue`, `MCBleFraming`, `MCMqttService`, `MCMultiTimer`, `MCFileDownload`, `MCIotClient` | values of the constants for TLC |

### BleService
One step runs from one point where the other task can interfere to the next.
`tpc` is where the provisioning task is: `boot`, `start`, `stack_init` are
`tuya_ble_task` and `tuya_ble_service_start` around the registration of the callbacks;
`loop` is the test of the while loop and the peek, with one action a command
(`LoopStart`, `LoopConnect`, `LoopDisconnect`, `LoopRecvData`, `LoopGetToken`, `LoopStop`);
`adv_wait`, `adv_check`, `adv_gap` are the waits inside START; `remove`, `free`,
`yield` are the end of a pass. `svc` is `sg_ble_service_params`: NULL, allocated
with a queue not yet initialised, or ready. `evts` is what the stack has yet to
report, in order; each action of `Bluetooth` is one case of an event handler with
the callback it makes (`Callback`): a message in the queue, or a crash when there is no
service to insert into. `advOn`, `links` and `closing` are the controller. A panic
restarts the chip: `Reboot` goes back to the initial state.

`Inserted` gives what an insert leaves: the message at the tail or, when `Faults` is
TRUE, nothing (malloc failed, or the insert overlapped another operation and its
node cannot be reached). `MsgQueue` shows where the second comes from. An overlap can
also leave other damage (a freed node that is reached again); that is not carried
over into `BleService`, whose results hold of runs whose overlaps lose messages at
most. Keys are `none`, `made` or `told`: a frame under the second key decrypts only
when the answer to DEV_INFO has told the phone the random part. A write carries a
frame kind; cutting it into packs is `BleFraming`'s matter.

The handlers do not check what they are given, and the model lets them crash where they may:
`FrameCrashes` for a pack that follows no first one (tuya_ble_service.c:502), an unknown command
(:702, then the free at :755), an `app_mtu` below the head of a pack (:822) and an answer there is no memory for
(:732); `LoopBadToken` for a token without one of its fields, or without memory for its tree (:920-931).
`UnsafeFrames` are the frames of which a phone may write these; `unsafe` records that one was
written or a handler ran out of memory. `Provisioning` lets a serving service restart only then, so
what `StopsOnlyWithToken` excludes is a crash by the interleaving of the two tasks. The history variables
`token`, `keyConn`, `idled` and `unsafe` are read by no guard.

### MsgQueue
A slot is the address of a `next` pointer, the head's or a node's, as `tqe_prev`
and `tqh_last` hold it. Freed memory keeps its contents until it is allocated again.
`Overlap` says whether an operation of one task may start inside one of the other.
Nothing in the code forbids it, so `Overlap = TRUE` is the code; `Overlap = FALSE`
asks whether the algorithm is right when the scheduler happens to keep operations apart.
`Refuse` is the return at tuya_ble_service.c:1103 when START fails: the node stays at the head and is
taken up again. A message therefore counts as handled when it is taken out (`Unlink`), and `Fifo`
has the same step.
`Chain` is the list as the pointers tell it: the longest walk from the head along `nxt` that meets no
node twice.

### BleFraming
Contents are segments: which bytes of which frame lie where in the buffer.
`FirstPack` and `NextPack` are `ble_recv_data_unpack` followed by what
`ble_recv_data_process` does with a whole frame. `Digits` and `Read` are the length
encoding with the weights the code uses. `Sent` is the sender's do-while loop, the bytes
counted as sent before each pack, and `PackCount` the pack it ends with.
`Mtus` is any set of numbers, as the phone says the MTU and nothing checks it (:672). When it leaves no room for a
pack's head the subtraction at :822 wraps, and the whole frame is copied behind a block that is too small for it:
`Overruns`, after which the program may end. Past the end of the reassembly buffer it
may end too (`NextPack`); when it goes on, what was overwritten is taken to be none of the model's variables.
`WriteStray` is a phone that repeats or skips a pack, or writes one pack of a frame and leaves. A
failed allocation in `ble_recv_cmd_process` is answered as if it had succeeded: with no bytes at :715, with
a read from NULL at :732 (`Answer`). `crashed` says how the program ended; `lost` and `stray` record what
the properties except. Two
assumptions say what the code's types hold: a frame no longer than four digits of seven bits can say, and an
answer of at most 289 bytes (`rsp_data` is an array of 255).

### MqttService
`pc` is `idle` between calls of `tuya_mqtt_loop`, `scan` while it walks
`publish_list` (one entry a step), `yield` in `mqtt_client_yield`, where PUBACKs
are handled. `crashed` is the read through NULL after the last entry of the list has
timed out, or the copy of the topic when there is no memory for it (mqtt_service.c:209). `Subscribed` is what a
connection makes of the subscription, whose result nobody looks at (:360): SUBSCRIBE was not sent, it was sent
and there is a handler, or it was sent and there was no memory for one. `unhandled` records the
last: the broker then sends what nobody handles, until a later session adds the handler.
The broker acknowledges what it received in the session it
received it in. The code's clock counts seconds, and `Timeout` is in the clock's unit.
tuya_iot.h:253 calls the argument milliseconds; nothing here depends on which it is.

### MultiTimer
`list` is the chain from `timerList`, `slot` the timer whose `next` field the loop's
`nextTimer` points to. `PassCall` is one turn of the loop: it takes the entry out, starts
it again when it has a period, calls it and steps on. The step passes over the timer
that took the entry's place, so a timer may wait for another pass; when the entry has
moved ahead of that place, nothing may be left there, and the step reads through NULL
(`crashed`). One thread makes all calls, as `tuya_ble_task` and the loop around
`tuya_iot_yield` do; a callback starts no timer but its own (file_download.c), and the
idle timer's only asks for a disconnect. `left` counts the ticks to each deadline
without wrapping. `crossed` is set when a deadline, or the clock under running
timers, wraps, and cleared when the list is empty or only the timer being started.
Insertion compares deadlines as plain numbers: once `crossed`, a timer may stand in front of one
that is due earlier, which then waits for it, and the read through NULL
is reachable. `SortedUntilWrap` says that this needs the wrap, 49.7 days at one tick a millisecond.

### Matop and FileDownload
`Matop` keeps one record for each request: an entry of `message_list` and what the
cloud knows of it are the same, so that whether an answer meets its own entry can be
said. An id is counted up whether or not the request was published. `FileDownload`
composes it with the download: `Yield` is `file_download_yield` from the state it is
called in, and every callback (`Failed`, `Succeeded`, `DataOn`, `RetryTimer`) ends in the
calls the code makes. An answer to a range may hold fewer bytes than asked for, none, or more (`Held`). None
resets `retry` and asks for the same range at once (file_download.c:50, :63), and a cloud that gives such answers for ever
keeps the download going for ever, so that it ends is not claimed. `DownloadGoesOn` claims that it never stalls, and that its failures in a row are counted up
to the one that ends it; `MaxEmpty` is a bound. More is added to `received_size` unchecked; `oversized` records it. `yielding` says that the client is
in STATE_MQTT_YIELD, where alone answers are read and requests time out (tuya_iot.c:607-609); `Leave` ends it and
`Reconnect` begins it again, while the timers go on in every state. The timers keep only their order; the first may fire at any
time, so the model has more behaviours than the clock has. `Begin` is an application that
starts an upgrade whenever it is told of one, also over a running one. Then
`file_download_init` clears a timer that may be linked, and those behind it are lost (`Cleared`); requests of the
old download may still be answered; `crossed`, `truncated` and `dropped` record it, and the
properties say what holds as long as it has not happened. An upgrade of unknown size asks
for the size for ever and restarts the chip on the first data (`Restarts`, the
division in tuya_ota.c:44); `MaxSizeAsks` cuts the asking off.

### IotClient
One call of `tuya_iot_yield` is one action, named for the state it enters. `client.next`
is `nextstate`. A yield that contains writes to storage has a second form that the
power interrupts (`ActivateCut`, `ResetCut`), after which `tuya_iot_init` reads what
is left (`Boot`). A torn record reads like none. The token is `none`, `good` or `spent`,
since the cloud accepts it once. Calls an event handler makes in the middle of a yield
are overwritten by what the yield assigns to `nextstate` afterwards and leave no trace.
`Offers` is the id an activation sends along: the saved one or none, also when there is one that
could not be read, since any failure of the read is taken for there being none (tuya_iot.c:176).
The cloud then issues a second id. `forgot` is set by this and by the other ways the code loses the id, each
a named operator: `Unsaved` (a first id did not get into storage), `Overwritten` (storage held
an id, saved or in its record, and it was not offered), `Forgets` (a reset saves none over it), and
data removed by the application before the id was saved.
The MQTT service is reduced to `mq` and the key it connects with; of its reconnection,
`MqttService` shows the detail. `upset`, `removed` and `forgot` record the
failures whose results the code does not look at, and the properties except them by name.

## 3. Runs

| run | bounds | shows |
|---|---|---|
| `ble_safety` | 2 link ids, 2 connections, the Bluetooth task adds to a queue shorter than 2, faults; DEV_INFO, GET_TOKEN, a pack that follows none, a small MTU, a bad token | no traffic before the queue exists; frames are decrypted with keys of their own connection unless the idle timer has fired; the service implements `Provisioning`: it stops only with a token, and crashes while it serves only after one of the last three frames or a failed allocation |
| `ble_live` | 1 link id, 2 connections, no faults, fairness | the flag mirrors the controller; the timer stays with its connection; advertising resumes; a token ends the service |
| `ble_stop_restart` | as `ble_live` | **violated**: START queued behind STOP |
| `ble_lost_hangup` | as `ble_live` | **violated**: the disconnect reported after the service was freed crashes the chip |
| `queue_serial` | 3 nodes, 5 messages, no overlap | the pointers implement `Fifo`; no leak, no use after free; no message lost, though its handler may refuse it |
| `queue_race` | 3 nodes, 5 messages, overlap, symmetric nodes | **violated**: a message is lost |
| `framing` | frames of one, two and three packs, 3 frames, answers of 11, 128 and 289 bytes, MTUs 3, 20 and 137, one stray pack, faults | order and number of frames handed on; single-pack frames intact; a copy through NULL needs a failed allocation or a stray pack; answers have no gap |
| `framing_packs` | the same without faults and stray packs | **violated**: later packs land 17 times too far into the buffer |
| `mqtt` | 3 reports, timeout 1, clock 3, 2 sessions, 3 packet ids, fairness | one answer each; OK means received; at most one handler, and one whenever the broker sends unless there was no memory for it; each report is answered unless the scan has crashed |
| `multi_timer` | 3 timers with delays 3, 1, 2 and periods 3, 4, 0, a counter modulo 32, at most 2 ticks from pass to pass | no timer is called early; until the wrap the list is sorted, every timer is called within three passes and the loop stays off NULL |
| `download` | ranges of 2 bytes, files of 2 bytes or of unknown size, 1 retry, 2 upgrades, 2 requests for information, 1 pause, stop or reconnection, 2 requests in the list, 1 late answer, 1 empty answer, answers up to 1 byte too long | unless a new download meets the old one's requests: bytes at their place, one ending, retries that come to an end; the check for upgrades goes on; a download does not stall unless a reconnection drops its request |
| `iot_client` | 2 credentials, 2 calls of the application, 1 failure of storage or memory, 2 power cuts, fairness | memory and storage agree; no session outlives its credential; one id, unless one of the named ways to lose it happened; an unbinding is obeyed |

**Why the bounds are enough.** Two connections let one phone leave and
another connect while the first one's messages are queued; two ids let the second come
before the first has gone. The bound on the queue lets
the Bluetooth task put a message behind the one being handled; the
loop's own inserts are not bounded, so START behind STOP and both behind a
DISCONNECT occur. Three nodes are the fewest for which a removal has a next node
and a next-but-one, and five messages let every node be used again. The frames of the
framing run need one, two and three packs, and the answers are below, at and
above a boundary of the encoding and of a pack; the head of the first pack fits the smallest MTU for the
shortest answer only. One stray pack is enough to meet no buffer, another frame's buffer, or its own twice. Two sessions and
three reports let a report be published in one session, time out in the next, and have
neighbours in the list on both sides.
The timer counter is wider than twice the longest delay and the longest lateness, so that
being due and being ahead stay apart, and every position of the wrap
is an initial state; three timers are the fewest of which one can be passed over.
A file of one full range comes in one answer or, when answers are short, in two; one retry is below
the limit and the next above it; two upgrades let one be begun over the other; two
requests in the list are the download's and one more. With two credentials the device
is activated, unbound and activated again; two power cuts let a cut follow the
recovery from another. `MaxEvts`, `MaxQueue`, `MaxConn`, `MaxChan`,
`MaxFrames`, `MaxMsgs`, `MaxTime`, `MaxId`, `Lag`, `MaxLate`, `MaxUpgrades`, `MaxInfo`, `MaxUpsets`, `Unsent`, `MaxPending`,
`MaxStray`, `MaxEmpty`, `MaxExtra`, `MaxSizeAsks`, `MaxIssued`, `MaxCalls`, `MaxFaults`, `MaxCuts` are the bounds; each is a constant of its
module and stands in the guards of environment actions. Four are on the system's side:
`MaxQueue` delays a callback until the queue is shorter (the code has no limit but memory),
`MaxId` stops packets from being sent, `MaxPending` rules out the steps that would add
to a full list, and `MaxSizeAsks` ends the asking for an unknown size.

**Fairness.** FreeRTOS schedules the two tasks preemptively, and none waits
for the other for ever, hence weak fairness of each. The panic handler restarts the
chip. The stack completes a close it was asked for. Phones owe
nothing; `TokenEndsService` assumes in its own statement that links end, since a phone that
connects after STOP is not hung up on. `ReportIsAnswered` assumes in its statement
that the loop gets to its list again and again: a network that is always down keeps it from there.
`AdvertisesAgain` excepts a start that was put off: the port sets `s_adv_pending` then
(ble_wrapper.c:564), and no code reads it.
Nothing of `FileDownload` needs fairness: requests time out only while the client is in STATE_MQTT_YIELD, which
the code does not promise to come back to, so its properties are about states. `LiveSpec` of `IotClient` is weak fairness of the yield. A yield
that changes nothing is a stutter, so it also assumes of the outside that a broker asked
again and again answers at some time, that a token arrives, and that a session whose key is no
longer accepted is told so or ends.

Deadlock is not checked where the system really stops: the task deletes itself, all
messages have been handled, the phones have sent everything, the process has crashed.

Each property of a passing run has a mutant in `PROJECT.json`: a plausible bug that
the run finds. The mutated forms stand beside the definitions they replace, marked
as mutants, and no specification uses them.

## 4. Proofs

`BleServiceProofs` proves, from `ConstantsAssumption` alone (any set of connection
ids with 0 and without 65535, any bounds, faults or none):
- `TypeCorrect`: `Spec => []TypeOK`;
- `RadioQuiet`: `Spec => []NoTrafficBeforeQueue`;
- `Implements`: `Spec => StopsOnlyWithToken`, that `BleService` implements `Provisioning`;
- `CrashesExplained`: `Spec => []UnsafeKnown`, that a chip that has crashed had no service, or `unsafe` is set.

The properties are not inductive. A step from an arbitrary state of the right
types could stop a service that has no token, or crash one that is serving. `IInv`
adds four facts:
- `NodeHeld`: the message being handled is at the head until it is removed;
- `Lifetime`: where the task is determines whether the service exists, and a
  service that is gone, or about to go, has been told to stop;
- `StopHasToken`: `is_stop`, or a STOP anywhere in the queue, implies a token;
- `QuietBeforeReady`: before the queue is initialised nothing is on the air and no event is pending.

`TaskInvariant` takes the actions of the provisioning task one at a time,
`BluetoothInvariant` the events, `OutsideInvariant` phones and reboot.
`InsertedMessages` and `RemovedMessage` say what an insert and a removal do to the
queue, `MessageTypes` and `EventTypes` type the records. `CrashesExplained` is what a restart of a
serving service needs: whatever may crash a handler is on its way or queued only when
`unsafe` says so (`EvtsSafe`, `QueueSafe`). With both, each step
maps to a step of `Provisioning` or leaves its variables unchanged, by cases of `Next`.
`ble_safety` checks the first three on a small instance.

Its second part proves, when no call fails (`Faults = FALSE`, as in `ble_live`), for any connection ids and bounds:
- `FlagCorrect`: `Spec => []RunningFlagAgrees`;
- `TimerCorrect`: `Spec => []TimerHasConnection`.

Both sides write the flag ahead of and behind the events it mirrors. `FlagFollows` says what the
events on their way will make of it: the last pending report of the advertisement says what the controller does,
and only with none pending the flag does; a pending connection is an exception, as its
handler ends the advertisement itself. `EndsFollow` says the same of the timer: no connection is
reported, and no CONNECT handled, without its disconnect behind it once the link is down, and
`HeadDone` that the message being removed has had its effect on the timer. With faults a dropped
DISCONNECT leaves the timer running, and nothing is claimed.

Its third part proves for every value of the constants, with faults or without:
- `KeysCorrect`: `Spec => []KeysOfThisConnection`.

Nothing in the code ties keys to a connection; they are dropped by the START that lets the next phone in. So the
proof is about the right to connect. `OnePlace` says that, until the idle timer fires, it is in one place: with the radio,
a link, the report of its end, the DISCONNECT queued for it, or the START that follows, and that
no frame is behind the one that passes it on. A START that opens the radio therefore finds no frame
of the last phone anywhere, and `OneConnection` follows: links, writes, queued frames and keys are
all of the latest connection. A fault can lose the right to connect (no phone gets in again
in that boot) but not double it. The idle timer can, with a DISCONNECT that no link's end is behind, and the theorem stops there, as the property does.

`MsgQueueProofs` proves for any heap, any number of messages, and with operations overlapping or not:
- `TypeCorrect`: `Spec => []TypeOK`;

and when no operation of one task starts inside an operation of the other (`~Overlap`, which is
what `queue_serial` checks; with overlap `queue_race` shows a message lost):
- `NodesStayAccountedFor`: `Spec => []NodesAccountedFor`;
- `QueueImplementsFifo`: `Spec => ImplementsFifo`;
- `NothingLostApart`: `Spec => []NothingLost`.

The types alone are not inductive: `Typed` adds which pointers are not NULL at which step. `IInv` says
of the chain `c` what the other pointers must hold: `Backwards` and `LastSlot` that `tqe_prev` and
`tqh_last` hold the slot `c` says, but for the one that the operation under way has still to write;
`NewNode` and `FirstNode` where the node is that a task has in its hands; `Accounted` and `Counted`
that every node and every message has a place. The proof never unfolds `Chain`. `ChainIs` says once
that a list of distinct nodes along which the pointers lead to NULL is the chain; after it each pointer
assignment is a lemma about such a list (`LeadsStill`, `LeadsOn`, `LeadsPast`), and each step of
`MsgQueue` one about `Core(c)`. A step of `Fifo` is then `Link`, `Peek`, `Refuse` or `Unlink`, and every
other step leaves `Fifo`'s variables alone. `Numbered`, for the last theorem, says that the messages handled and
queued are numbered from 1 without a gap.

`BleFramingProofs` proves, for any lengths of frames and answers that the code can say, any pack sizes, any
MTUs (those too small for the head of a pack included) and any stray packs, with faults or without:
- `TypeCorrect`: `Spec => []TypeOK`;
- `AnswersComplete`: `Spec => []AnswerComplete`;
- `SinglePacksIntact`: `Spec => []SinglePackIntact`;
- `BufferStaysThere`: `Spec => []BufferIsThere`: no copy through NULL unless an allocation failed or a phone wrote a stray pack;
- `FramesStayInOrder`: `Spec => []FramesInOrder`, for frames shorter than 16384 bytes.

The last needs its hypothesis. The third digit of a length counts 32768 where the encoding counts 16384 (the
weights are 1, 128, 128 * 256, 128 * 256 * 256), so the code reads a longer frame's length as more
than its bytes and never hands it on. `DigitsFacts` says what is left: a number below 16384 is read
as itself, a greater one as at least itself, and only 0 as 0, which is enough for the pack
numbers of the other theorems. `SentFacts` and `PackCountFacts` show that the sender's loop ends: each pack after the first takes at least one
byte of the answer (`SumExists` of `ListFacts` is what makes the recursive `Sent` a function that can be reasoned about).
`IInv` follows the packs until something is lost or a stray pack is written (`Steady`): those on their way are in the order they were written
(`InOrder`), each follows on from the one before it and the phone from the last (`NoGap`), the
buffer is there and is where the first of them expects it (`Receiving`), and what was written
to the last byte is what was handed on or whose last pack is on its way (`Written`). `SameIncreasing`
turns the last, which is about sets, into the equality of two sequences.

`IotClientProofs` proves, for any number of credentials, calls, failures and power cuts:
- `TypeCorrect`: `Spec => []TypeOK`, which includes that no activation runs without a token;
- `StorageCorrect`: `Spec => []StorageAgrees`;
- `SessionCorrect`: `Spec => []OneSession`;
- `IdCorrect`: `Spec => []DevidKept`.

`IInv` joins the types, `StorageAgrees`, `OneSession` and what they need: a client that waits for a token is
not activated (`NotYet`), and a client in one of the states that use the MQTT context,
or in one from which a call can lead there, is activated and its context holds
its key (`Belongs`). `DevidKept` speaks of a set's cardinality; the invariant behind it, `IdKept`, names the
id as long as nothing that `forgot` stands for has happened: there is a `d` such that every place that holds an id holds `d` or none, and once the cloud
has issued, storage holds `d` in one of its two keys. Each action has one step lemma.

`MqttServiceProofs` proves, for any reports, sessions, packet ids, timeout and clock:
- `TypeCorrect`: `Spec => []TypeOK`;
- `HandlerCorrect`: `Spec => []OneHandler`;
- `AnswerCorrect`: `Spec => []OneAnswerEach`;
- `OkCorrect`: `Spec => []OkWasReceived`.

`OneHandler` says that there is a handler whenever the broker sends, but for a session in which there was no memory for
it (`unhandled`), and never two. `OkWasReceived` is not inductive: an acknowledgement answers whichever entry has its id. `AcksMatch`
adds that ids are given out upwards, that what is acknowledged was received, and that an entry
with an acknowledgement's id is of the same report. `InListOnce` is `OneAnswerEach`
without counting. `WithoutFacts` says what is left of a list without an entry,
`Answered` what an answer does to both, `SendFacts` and `SendKeepsMatch` what sending does.

`MultiTimerProofs` proves, for any timers, any main loop and any width of the counter,
when no delay or period is longer than half of what it counts (`HalfRange`; the longest
is the day between two upgrade checks, and 32 bits of milliseconds are 49.7 days):
- `TypeCorrect`: `Spec => []TypeOK`;
- `ProperCorrect`: `Spec => []ListIsProper`;
- `SortedCorrect`: `Spec => []SortedUntilWrap`;
- `NeverEarlyCorrect`: `Spec => NeverEarly`;
- `OnTimeCorrect`: `Spec => []OnTimeUntilWrap`, when that lateness, `Cardinality(Timers) * Lag`, is less than half of what the counter counts.

The code compares deadlines plainly when it inserts and modulo the counter when it calls.
`Ahead` is what the second needs: a timer with time left has its deadline that far ahead
of the clock, in one of the two places where the counter can show it. `Plain` is what the first needs: until
a wrap the list is sorted and the time left is the plain difference. From it follows that the loop cannot step through
NULL (`RestartOffNull`): the timer that was called would have to be started ahead of the slot, whose
deadline is not later than its old one and therefore past.

A pass may end before timers that are due and step over others, so `OnTimeUntilWrap` needs a
count of passes. `OnTime` says that a timer at place `i` is at most `lag + Lag * Waits(i)` ticks late, where
`Waits(i)` is how many passes may still end before its turn: as many as there are places
behind `i`, one fewer once the pass under way has called a timer. `MovedUp` is why that is enough: a timer that is
started, or started again by a call, goes behind every timer that is due, so a late timer only
ever comes nearer to the head, and nearer with each pass. A pass ends before a timer only when that timer's time has not come
(`NotDueYet`, which needs the hypothesis: a timer late by half the counter's range looks early), or
when the slot has left the head (`SlotNotLast`: it is never on the last of all timers). `CutFacts` and `PutFacts` of `ListFacts` say what
is at each place of a list an element has been taken from or put into.

`FileDownloadProofs` proves, for any file sizes, range length, number of retries and bounds:
- `TypeCorrect`: `Spec => []TypeOK`;
- `PlaceCorrect`: `Spec => []FileInPlace`;
- `EndingCorrect`: `Spec => []OneEnding`;
- `CheckCorrect`: `Spec => []CheckGoesOn`;
- `GoesOnCorrect`: `Spec => []DownloadGoesOn`.

The code counts no requests: it makes one at a time because a callback or the retry timer makes the
next. `Carried` says so: at most one request in the list is the download's own, none while the retry
timer runs, and neither once the download has ended. `AsksForNext` says that a range in the list asks
for the bytes after the last received, within the file; `Named`, that an answer whose id is in the
list is to that request; `EndsOnce`, that a download is in an end state only after its one event. All
four hold until requests of two downloads may have met (`crossed`). `file_download_yield` is called
from six places; `Free` is what each of them must establish, that nothing else
carries the download, and `YieldStraight` is the one proof of what it then leaves.
`DownloadGoesOn` has an invariant of its own on top, `JInv`, each action again one lemma: `GoesOn`, which holds also after
requests have met, since every state that has data to come was left by a call that asked for a range or started the timer, and
only the removal of a range takes one away (`AskedAfterRemoval`); and `RetryCounted`, that the failure that is one
too many is followed by nothing but the timer that ends the download.

**Only model-checked.** Liveness and everything under fairness: the prover does
not reason about ENABLED. The four violated properties are
shown by their runs, and there is nothing to prove of them. Every other property of a run is a theorem, on the
hypotheses named above.

## 5. Not modelled, and why

- Contents: AES, MD5, CRC, JSON, advertising payloads. They decide between
  accepting and refusing a frame, which the models choose freely.
- The GATT table's creation, and the MTU event except as the constant `Mtus`.
- `s_adv_lock`: only the provisioning task takes it.
- The torn result of a data race on one aligned word: on this chip such loads and stores are single.
- Back-off times, QoS 0 publishes and message parsing in the MQTT service.
- A failed publish still consumes a packet id in coreMQTT; the model gives out the next id only with a packet that is sent.
- The schema, the region and the registration key among the stored data: nothing decides on them
  but the endpoint, whose cached certificate is not modelled either.
- Progress reports of an upgrade, and the digest of the file.
- Third-party code under `SDK/libraries` (mbedTLS, coreMQTT, coreHTTP, coreJSON) and the table-driven
  utilities make up some nine tenths of the repository's lines. They are modelled only as their
  callers see them, so the share of all lines that the map covers stays small.
- The components with status `not_modelled` in `PROJECT.json`, each with its reason.

## 6. Plan

1. *Done:* `BleService` with `Provisioning`, `MsgQueue` with `Fifo`, `BleFraming`,
   `MqttService`, `MultiTimer`, `Matop`, `FileDownload`, `IotClient`; proofs about all of them.
2. `IotClient` composed with `MqttService` in detail: are owed reports lost when
   `tuya_mqtt_init` clears the context; and with `FileDownload`, whose requests a reset leaves behind.
3. `LicenseBind`: the table search against a reference definition over small tables; the
   endpoint's cached certificate over failed updates.
4. Theorems about the composition of 2.
