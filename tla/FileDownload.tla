----------------------------- MODULE FileDownload -----------------------------
(***************************************************************************)
(* An upgrade of the firmware over MQTT: tuya_ota.c on file_download.c on   *)
(* matop_service.c, with the callbacks of tuya_iot.c that ask for upgrade   *)
(* information and the two timers involved.  One thread runs all of it.     *)
(* Requests may fail to be published, go unanswered, be answered late or    *)
(* with an error, and a reconnection clears the list of requests.  Data is  *)
(* abstracted to where it comes from: the upgrade and the range.            *)
(***************************************************************************)
EXTENDS Matop, FiniteSets

CONSTANTS
  Sizes,         \* the file sizes the cloud announces
  RangeLength,   \* the most bytes one request asks for
  MaxRetryTimes, \* MAX_DL_RETRY_TIMES
  MaxUpgrades,   \* bound: calls of tuya_ota_begin
  MaxInfo,       \* bound: requests for upgrade information
  MaxUpsets,     \* bound: pauses of the download and reconnections
  Unsent,        \* bound: the kinds of requests that may fail to be published
  MaxPending,    \* bound: requests in the list
  MaxLate,       \* bound: answers that come after their request was given up
  MaxEmpty,      \* bound: answers to ranges that hold no byte
  MaxExtra,      \* bound: bytes an answer holds beyond those asked for
  MaxSizeAsks    \* bound: the id up to which an unknown size is asked for

ASSUME DownloadAssumption ==
  /\ Sizes \subseteq Nat /\ RangeLength \in Nat \ {0} /\ MaxRetryTimes \in Nat
  /\ {MaxUpgrades, MaxInfo, MaxUpsets, MaxPending, MaxLate, MaxEmpty, MaxExtra, MaxSizeAsks} \subseteq Nat

VARIABLES
  dl,         \* file_download_context_t; ended: its FINISH and FAULT events so far
  matop,      \* the context of Matop, with the answers on their way
  timers,     \* timerList, by deadline: "retry" and "check"
  yielding,   \* the client is in STATE_MQTT_YIELD
  used,       \* what has been used of each bound
  crossed,    \* history: two requests of one download may have met, see Crossing
  dropped,    \* history: a reconnection has dropped this download's request
  truncated,  \* history: file_download_init has cleared a timer in front of another
  oversized,  \* history: an answer of this download held more than was asked for
  intact      \* history: every byte was handed over at the place it belongs to

history == <<crossed, dropped, truncated, oversized, intact>>
vars == <<dl, matop, timers, yielding, used, history>>

States == {"idle", "start", "filesize_get", "data_get", "complete", "fault"}
OwnKinds == {"range", "size"}                       \* asked for by the download
Kinds == OwnKinds \cup {"report", "notify", "auto"}

(* Zero-initialised contexts; the first connection starts the check timer. *)
Zero == [state |-> "idle", nextstate |-> "idle", size |-> 0, received |-> 0,
         retry |-> 0, file |-> 0, ended |-> 0]

Init ==
  /\ dl = Zero
  /\ matop = EmptyMatop
  /\ timers = <<"check">>
  /\ yielding = TRUE
  /\ used = [info |-> 0, upsets |-> 0, empty |-> 0]
  /\ crossed = FALSE /\ dropped = FALSE /\ truncated = FALSE /\ oversized = FALSE
  /\ intact = TRUE

-----------------------------------------------------------------------------
(* The timers.  Only their order is kept: a timer may come to stand at any  *)
(* place, and the first one may fire at any time.                           *)

InList(x, t) == \E i \in DOMAIN t : t[i] = x
PlaceIn(x, t) == CHOOSE i \in DOMAIN t : t[i] = x
Unlinked(x, t) ==
  IF InList(x, t)
  THEN SubSeq(t, 1, PlaceIn(x, t) - 1) \o SubSeq(t, PlaceIn(x, t) + 1, Len(t))
  ELSE t

(* Mutant: the timer is not taken out first. *)
StartedTwice(x, t) ==
  {SubSeq(t, 1, i) \o <<x>> \o SubSeq(t, i + 1, Len(t)) : i \in 0 .. Len(t)}

(* MultiTimerStart. *)
Started(x, t) ==
  LET u == Unlinked(x, t)
  IN {SubSeq(u, 1, i) \o <<x>> \o SubSeq(u, i + 1, Len(u)) : i \in 0 .. Len(u)}

(* memset over a timer that is still linked: its next pointer is lost, and  *)
(* with it every timer behind it.                                           *)
Cleared(x, t) == IF InList(x, t) THEN SubSeq(t, 1, PlaceIn(x, t)) ELSE t

-----------------------------------------------------------------------------
(* file_download_yield, from the state d, the requests m and the timers t.  *)

(* Nothing is published by a client that has been stopped or reset.         *)
Sending(m, kind) ==
  (IF yielding /\ Len(m.list) < MaxPending THEN {TRUE} ELSE {})
    \cup (IF ~yielding \/ kind \in Unsent THEN {FALSE} ELSE {})

Asks(m, kind, d, from, len) ==
  \E published \in Sending(m, kind) : matop' = Request(m, kind, d.file, from, len, published)

(* DL_EVENT_FINISH and DL_EVENT_FAULT: the application is told and the      *)
(* status is reported to the cloud.                                         *)
Ends(d, m, t) ==
  /\ dl' = [d EXCEPT !.ended = @ + 1]
  /\ Asks(m, "report", d, 0, 0)
  /\ timers' = t

(* Mutant: the timer is not started. *)
UncountedRetry(d, t) ==
  /\ dl' = d
  /\ timers' = Unlinked("retry", t)

(* A request failed: the next one is made when the timer fires. *)
Retry(d, t) ==
  /\ dl' = [d EXCEPT !.retry = @ + 1]
  /\ timers' \in Started("retry", t)

NextLen(d) ==
  IF d.size - d.received > RangeLength THEN RangeLength ELSE d.size - d.received

(* DL_STATE_DATE_GET *)
DataGet(d, m, t) ==
  IF d.received < d.size
  THEN \E published \in Sending(m, "range") :
         /\ matop' = Request(m, "range", d.file, d.received, NextLen(d), published)
         /\ IF published THEN dl' = d /\ timers' = t ELSE Retry(d, t)
  ELSE Ends([d EXCEPT !.state = "complete"], m, t)

(* DL_STATE_FILESIZE_GET.  The size that is asked for is never stored. *)
FilesizeGet(d, m, t) ==
  IF d.size = 0
  THEN /\ m.idCnt < MaxSizeAsks
       /\ Asks(m, "size", d, 0, 0)
       /\ dl' = d /\ timers' = t
  ELSE DataGet([d EXCEPT !.state = "data_get", !.retry = 0], m, t)

(* DL_STATE_START: the cloud is told that the upgrade begins. *)
StartState(d, m, t) ==
  \E published \in Sending(m, "report") :
     FilesizeGet([d EXCEPT !.state = "filesize_get"],
                 Request(m, "report", d.file, 0, 0, published), t)

Yield(d, m, t) ==
  \/ d.state = "idle" /\ dl' = d /\ matop' = m /\ timers' = t
  \/ d.state = "start" /\ StartState(d, m, t)
  \/ d.state = "filesize_get" /\ FilesizeGet(d, m, t)
  \/ d.state = "data_get" /\ DataGet(d, m, t)
  \/ d.state \in {"complete", "fault"} /\ Ends(d, m, t)

-----------------------------------------------------------------------------
(* A download may meet its own past: another request of it is in the list   *)
(* or will be made by the timer when one more is made.                      *)
Crossing == Pending(matop, OwnKinds) \/ InList("retry", timers)

(* tuya_ota_begin, called by the application when it is told of an upgrade: *)
(* file_download_init and file_download_start.                              *)
Begin(m) ==
  \E size \in Sizes :
     /\ dl.file < MaxUpgrades
     /\ Yield([state |-> "start", nextstate |-> "start", size |-> size, received |-> 0,
               retry |-> 0, file |-> dl.file + 1, ended |-> 0],
              m, Cleared("retry", timers))
     /\ crossed' = (crossed \/ Crossing)
     /\ truncated' = (truncated \/ Cleared("retry", timers) # timers)
     /\ dropped' = FALSE /\ oversized' = FALSE /\ intact' = TRUE
     /\ UNCHANGED used

(* file_download_suspend and file_download_stop are the same code. *)
Pause ==
  /\ dl.file > 0 /\ used.upsets < MaxUpsets
  /\ dl' = [dl EXCEPT !.nextstate = dl.state, !.state = "idle"]
  /\ used' = [used EXCEPT !.upsets = @ + 1]
  /\ UNCHANGED <<matop, timers, yielding, history>>

(* file_download_start, called again after a pause. *)
Resume ==
  /\ dl.file > 0 /\ dl.state = "idle"
  /\ Yield([dl EXCEPT !.state = dl.nextstate], matop, timers)
  /\ crossed' = (crossed \/ Crossing \/ dl.ended > 0)
  /\ UNCHANGED <<yielding, used, dropped, truncated, oversized, intact>>

-----------------------------------------------------------------------------
(* The callbacks.  m is the context without the entry that is answered.     *)

(* The percentage of a file of unknown size: a division by zero restarts    *)
(* the chip (tuya_ota.c:44).  Answers may still come.                       *)
Restarts(m) ==
  /\ dl' = [Zero EXCEPT !.file = dl.file]
  /\ matop' = Initialised(m)
  /\ timers' = <<"check">>
  /\ crossed' = (m.answers # {})
  /\ dropped' = FALSE /\ truncated' = FALSE /\ oversized' = FALSE /\ intact' = TRUE
  /\ UNCHANGED used

(* file_download_data_on, then file_download_yield: n bytes of the answer a *)
(* are handed over at received_size.  The application leaves the offset of  *)
(* the event as it is.  Nothing is made of n: when it is 0 the same range is *)
(* asked for again at once, with no retry counted.                          *)
DataOn(a, n, m) ==
  \/ dl.size = 0 /\ Restarts(m)
  \/ /\ dl.size # 0
     /\ n = 0 => used.empty < MaxEmpty
     /\ Yield([dl EXCEPT !.received = @ + n, !.retry = 0], m, timers)
     /\ used' = IF n = 0 THEN [used EXCEPT !.empty = @ + 1] ELSE used
     /\ intact' = (intact /\ (n = 0 \/ (a.file = dl.file /\ a.from = dl.received)))
     /\ oversized' = (oversized \/ n > a.len)
     /\ UNCHANGED <<crossed, dropped, truncated>>

(* The callback is told of a failure: an error in the answer, or no answer. *)
Failed(kind, m) ==
  \/ /\ kind = "range" /\ Retry(dl, timers) /\ matop' = m
     /\ UNCHANGED <<used, history>>
  \/ /\ kind = "size" /\ Yield(dl, m, timers)
     /\ UNCHANGED <<used, history>>
  \/ /\ kind = "notify" /\ Asks(m, "report", dl, 0, 0)
     /\ UNCHANGED <<dl, timers, used, history>>
  \/ /\ kind \in {"report", "auto"} /\ matop' = m
     /\ UNCHANGED <<dl, timers, used, history>>

(* How many bytes of the file an answer may hand over: what was asked for,  *)
(* fewer or more; none in a payload of only the id, in a JSON answer, and   *)
(* in the answer to anything but a range.                                   *)
Held(a) == 0 .. (IF a.kind = "range" THEN a.len + MaxExtra ELSE 0)

(* An answer a without an error reaches the callback of an entry of the     *)
(* kind given.  An entry may get an answer that was meant for another one,  *)
(* of an earlier connection.                                                *)
Succeeded(kind, a, m) ==
  \/ /\ kind = "range"
     /\ \E n \in Held(a) : DataOn(a, n, m)
  \/ /\ kind = "size" /\ Yield(dl, m, timers)
     /\ UNCHANGED <<used, history>>
  \/ /\ kind \in {"notify", "auto"} /\ a.kind \in {"notify", "auto"} /\ Begin(m)
  \/ /\ kind \in {"notify", "auto", "report"} /\ matop' = m
     /\ UNCHANGED <<dl, timers, used, history>>

(* matop_service_data_receive_cb, matop_service_file_rawdata_receive_cb *)
Answer(a) ==
  LET i == PlaceOf(matop, a.id)
      m == RemovedAt(Read(matop, a), i)
  IN \/ /\ i = 0 /\ matop' = Read(matop, a)
        /\ UNCHANGED <<dl, timers, used, history>>
     \/ i # 0 /\ Succeeded(matop.list[i].kind, a, m)
     \/ i # 0 /\ Failed(matop.list[i].kind, m)

(* Mutant: the entry stays in the list. *)
TimeoutKeeps(i) == Failed(matop.list[i].kind, matop)

(* matop_serice_yield: the timeouts of requests differ, so that the first   *)
(* entry that is due may be any.  Its answer is lost or may still come.     *)
Timeout(i) ==
  LET r == matop.list[i]
      m == RemovedAt(matop, i)
  IN \/ Failed(r.kind, Read(m, r))
     \/ Cardinality(Late(matop)) < MaxLate /\ Failed(r.kind, m)

(* file_download_retry_timer_cb *)
RetryTimer ==
  /\ timers # <<>> /\ Head(timers) = "retry"
  /\ Yield(IF dl.retry > MaxRetryTimes THEN [dl EXCEPT !.state = "fault"] ELSE dl,
           matop, Tail(timers))
  /\ UNCHANGED <<used, history>>

(* Mutant: the timer is not periodic. *)
CheckTimerOnce ==
  /\ timers # <<>> /\ Head(timers) = "check"
  /\ timers' = Tail(timers)
  /\ UNCHANGED <<dl, matop, used, history>>

(* check_auto_upgrade_timeout_on: a periodic timer, started again first;    *)
(* the request is made only when connected.                                 *)
CheckTimer ==
  /\ timers # <<>> /\ Head(timers) = "check"
  /\ timers' = Append(Tail(timers), "check")
  /\ \/ /\ yielding /\ used.info < MaxInfo
        /\ Asks(matop, "auto", dl, 0, 0)
        /\ used' = [used EXCEPT !.info = @ + 1]
     \/ UNCHANGED <<matop, used>>
  /\ UNCHANGED <<dl, history>>

(* mqtt_service_upgrade_notify_on *)
Notify ==
  /\ yielding /\ used.info < MaxInfo
  /\ Asks(matop, "notify", dl, 0, 0)
  /\ used' = [used EXCEPT !.info = @ + 1]
  /\ UNCHANGED <<dl, timers, yielding, history>>

(* STATE_STOP, STATE_RESET and STATE_MQTT_RECONNECT: the connection is      *)
(* closed, the list of requests is left as it is.                           *)
Leave ==
  /\ yielding /\ used.upsets < MaxUpsets
  /\ yielding' = FALSE
  /\ used' = [used EXCEPT !.upsets = @ + 1]
  /\ UNCHANGED <<dl, matop, timers, history>>

(* mqtt_client_connected_on, after the connection was lost or the client    *)
(* was started again.                                                       *)
Reconnect ==
  /\ matop' = Initialised(matop)
  /\ IF InList("check", timers) THEN UNCHANGED timers ELSE timers' \in Started("check", timers)
  /\ \/ ~yielding /\ UNCHANGED used
     \/ /\ yielding /\ used.upsets < MaxUpsets
        /\ used' = [used EXCEPT !.upsets = @ + 1]
  /\ yielding' = TRUE
  /\ crossed' = (crossed \/ matop.answers # {})
  /\ dropped' = (dropped \/ Pending(matop, OwnKinds))
  /\ UNCHANGED <<dl, truncated, oversized, intact>>

(* tuya_iot_yield: tuya_mqtt_loop and matop_serice_yield in STATE_MQTT_YIELD, *)
(* MultiTimerYield in every state.                                          *)
AnyAnswer == /\ yielding /\ UNCHANGED yielding
             /\ \E a \in matop.answers : Answer(a)
AnyTimeout == /\ yielding /\ UNCHANGED yielding
              /\ \E i \in DOMAIN matop.list : Timeout(i)
AnyTimer == /\ UNCHANGED yielding
            /\ RetryTimer \/ CheckTimer

Next ==
  \/ Pause \/ Resume \/ AnyAnswer \/ AnyTimeout
  \/ AnyTimer \/ Notify \/ Leave \/ Reconnect

Spec == Init /\ [][Next]_vars

-----------------------------------------------------------------------------
(* The variables hold values of their types; timers are linked at most once. *)
TypeOK ==
  /\ dl \in [state : States, nextstate : States, size : Nat, received : Nat,
             retry : Nat, file : Nat, ended : Nat]
  /\ matop.idCnt \in Nat
  /\ \A i \in DOMAIN matop.list : matop.list[i].kind \in Kinds
  /\ \A a \in matop.answers : a.kind \in Kinds
  /\ timers \in {<<>>, <<"retry">>, <<"check">>, <<"retry", "check">>, <<"check", "retry">>}
  /\ {yielding, crossed, dropped, truncated, oversized, intact} \subseteq BOOLEAN

(* Late, lost, failed, empty, short and long answers and any number of      *)
(* retries never put bytes of the file at a wrong place, and a download is  *)
(* complete only with the whole file, unless a new download or a resumed    *)
(* one has met requests of the old one (file_download.c:85-115 cancels      *)
(* nothing), or a reconnection has let ids be used again                    *)
(* (matop_service.c:179).  It has no more than the whole file unless an     *)
(* answer held more than was asked for, which nothing checks                *)
(* (file_download.c:49).                                                    *)
FileInPlace ==
  ~crossed => /\ intact
              /\ dl.state = "complete" => dl.received >= dl.size
              /\ ~oversized => dl.received <= dl.size

(* The application is told at most once how a download ended. *)
OneEnding == ~crossed => dl.ended <= 1

(* The periodic check for upgrades goes on for ever, unless a download was  *)
(* begun over one whose timer was running in front of the periodic one      *)
(* (file_download.c:89).                                                    *)
CheckGoesOn == ~truncated => InList("check", timers)

(* A download does not stall and does not fail for ever: while data is to   *)
(* come, a range is asked for, to be answered or to time out, or the retry  *)
(* timer is linked, unless a reconnection has dropped the request; and the  *)
(* failures since data last came are counted, up to the one that ends the   *)
(* download when the timer fires.  That the data comes to an end is not     *)
(* said: an answer of no byte resets the count and asks again at once       *)
(* (file_download.c:50, 63), as often as the cloud gives one.               *)
DownloadGoesOn ==
  /\ dl.state = "data_get" /\ ~dropped => Pending(matop, {"range"}) \/ InList("retry", timers)
  /\ ~crossed => dl.retry <= MaxRetryTimes + 1
=============================================================================
