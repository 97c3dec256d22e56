------------------------------- MODULE IotClient -------------------------------
(***************************************************************************)
(* The life cycle of the IoT client (tuya_iot.c): activation with a token,  *)
(* connection, reset and restart, with what it keeps in storage and what    *)
(* the cloud knows of it.  The application calls tuya_iot_yield in a loop;  *)
(* one call is one action, named for the state it enters.  Calls that the   *)
(* application makes between two yields, or that its event handlers make as *)
(* the last thing of one, are Call; those that the rest of the yield        *)
(* overwrites leave no trace.  Power may fail between two writes.           *)
(***************************************************************************)
EXTENDS Naturals, FiniteSets

CONSTANTS
  MaxIssued,   \* bound: credentials the cloud issues
  MaxCalls,    \* bound: calls of the application other than tuya_iot_start
  MaxFaults,   \* bound: failures of storage and of memory
  MaxCuts      \* bound: power failures

ASSUME IotAssumption == {MaxIssued, MaxCalls, MaxFaults, MaxCuts} \subseteq Nat

VARIABLES
  client,      \* tuya_iot_client_t
  store,       \* what storage holds: the activation record and the saved devid
  cloud,       \* the credentials issued, the ids in them, the key it accepts
  used,        \* what has been used of each bound
  upset,       \* history: a deletion or a read failed, or memory for a read
  removed,     \* history: the application removed the data of a running client
  forgot       \* history: the id was lost, see DevidKept

vars == <<client, store, cloud, used, upset, removed, forgot>>
history == <<upset, removed, forgot>>

States == {"idle", "start", "data_load", "token_pending", "activating",
           "startup_update", "mqtt_connect_start", "mqtt_connecting", "mqtt_yield",
           "mqtt_reconnect", "restart", "reset", "stop"}

(* Of a credential: the id of the device and the number of its keys.  A     *)
(* record that was torn reads like none (activate_json_string_parse), and a *)
(* torn id is one the cloud does not know.                                  *)
Cred == [id : Nat \ {0}, key : Nat \ {0}]
NoCred == [id |-> 0, key |-> 0]

(* mq: not initialised, disconnected on request, without connection, up. *)
MqStates == {"none", "manual", "down", "up"}

Fresh == [state |-> "idle", next |-> "idle", activated |-> FALSE, cred |-> NoCred,
          token |-> "none", mq |-> "none", mqKey |-> 0]

Init ==
  /\ client = Fresh
  /\ store = [record |-> NoCred, devid |-> 0]
  /\ cloud = [issued |-> 0, ids |-> {}, bound |-> 0]
  /\ used = [calls |-> 0, faults |-> 0, cuts |-> 0]
  /\ upset = FALSE /\ removed = FALSE /\ forgot = FALSE

-----------------------------------------------------------------------------
(* activated_data_read over a structure that holds `before`.  When there is *)
(* no memory it returns OPRT_OK without having read (tuya_iot.c:84-87).     *)
Reads(s, before) ==
  {[ok |-> s.record # NoCred, cred |-> IF s.record # NoCred THEN s.record ELSE before,
    faults |-> 0]}
  \cup {[ok |-> ok, cred |-> before, faults |-> 1] : ok \in BOOLEAN}

Takes(r) ==
  /\ used.faults + r.faults <= MaxFaults
  /\ used' = [used EXCEPT !.faults = @ + r.faults]
  /\ upset' = (upset \/ r.faults = 1)

(* tuya_iot_init after a power failure that left s in storage. *)
Boot(s) ==
  \E r \in Reads(s, NoCred) :
     /\ used.cuts < MaxCuts /\ used.faults + r.faults <= MaxFaults
     /\ used' = [used EXCEPT !.cuts = @ + 1, !.faults = @ + r.faults]
     /\ upset' = (upset \/ r.faults = 1)
     /\ client' = [Fresh EXCEPT !.activated = r.ok, !.cred = r.cred]
     /\ store' = s

PowerCut == Boot(store) /\ UNCHANGED <<cloud, removed, forgot>>

-----------------------------------------------------------------------------
(* tuya_iot_yield: state := nextstate, then the case of that state. *)
At(s) == client.next = s
Then(c, nx) == [c EXCEPT !.state = client.next, !.next = nx]
Moves(nx) == client' = Then(client, nx)

Idle == At("idle") /\ Moves("idle") /\ UNCHANGED <<store, cloud, used, history>>
Start == At("start") /\ Moves("data_load") /\ UNCHANGED <<store, cloud, used, history>>
Restart == At("restart") /\ Moves("start") /\ UNCHANGED <<store, cloud, used, history>>

(* Mutant: a token is taken to be there already. *)
DataLoadSkips ==
  /\ At("data_load")
  /\ Moves(IF client.activated THEN "startup_update" ELSE "activating")
  /\ UNCHANGED <<store, cloud, used, history>>

(* STATE_DATA_LOAD; a new binding is allocated, without freeing an old one. *)
TokenGone(nx) == client' = Then([client EXCEPT !.token = "none"], nx)

DataLoad ==
  /\ At("data_load")
  /\ \/ client.activated /\ Moves("startup_update") /\ UNCHANGED used
     \/ ~client.activated /\ TokenGone("token_pending") /\ UNCHANGED used
     \/ /\ ~client.activated /\ used.faults < MaxFaults
        /\ TokenGone("data_load")
        /\ used' = [used EXCEPT !.faults = @ + 1]
  /\ UNCHANGED <<store, cloud, history>>

(* STATE_TOKEN_PENDING.  The cloud may refuse the token that arrives. *)
TokenPending ==
  /\ At("token_pending")
  /\ \/ Moves("token_pending")
     \/ \E t \in {"good", "spent"} : client' = Then([client EXCEPT !.token = t], "activating")
  /\ UNCHANGED <<store, cloud, used, history>>

(* The id that the request offers: the saved one, or 0 for none, also when   *)
(* there is one that could not be read (tuya_iot.c:176).                    *)
Offers == {store.devid, 0}

(* The cloud accepts a token once.  It keeps the id o it is offered.        *)
Issues(c, o) ==
  /\ client.token = "good" /\ cloud.issued < MaxIssued
  /\ c.key = cloud.issued + 1
  /\ c.id = IF o # 0 THEN o ELSE c.key
  /\ cloud' = [issued |-> c.key, ids |-> cloud.ids \cup {c.id}, bound |-> c.key]

Empty == [record |-> NoCred, devid |-> 0]

(* No id was offered, and what was issued does not get into storage. *)
Unsaved(o) == forgot' = (forgot \/ o = 0)

(* No id was offered although storage holds one, saved or in a record that  *)
(* is now written over.                                                     *)
Overwritten(o) == forgot' = (forgot \/ (o = 0 /\ store # Empty))

NewCreds == [id : 1 .. MaxIssued, key : 1 .. MaxIssued]

(* STATE_ACTIVATING: the request fails, before or after the cloud has       *)
(* issued; the cloud refuses, and the same token is tried again; the        *)
(* credential cannot be saved; or it is saved and read back.                *)
ActivateFails ==
  /\ At("activating")
  /\ \/ Moves("restart") /\ UNCHANGED <<cloud, history>>
     \/ \E c \in NewCreds, o \in Offers :
          /\ Issues(c, o) /\ Unsaved(o)
          /\ client' = Then([client EXCEPT !.token = "spent"], "restart")
          /\ UNCHANGED <<upset, removed>>
     \/ client.token = "spent" /\ Moves("activating") /\ UNCHANGED <<cloud, history>>
  /\ UNCHANGED <<store, used>>

ActivateUnsaved ==
  /\ At("activating") /\ used.faults < MaxFaults
  /\ \E c \in NewCreds, o \in Offers : Issues(c, o) /\ Unsaved(o)
  /\ \E r \in {store.record, NoCred} : store' = [store EXCEPT !.record = r]
  /\ client' = Then([client EXCEPT !.token = "spent"], "activating")
  /\ used' = [used EXCEPT !.faults = @ + 1]
  /\ upset' = (upset \/ store.record # NoCred)
  /\ UNCHANGED removed

ActivateSaved ==
  /\ At("activating")
  /\ \E c \in NewCreds, o \in Offers :
       /\ Issues(c, o) /\ Overwritten(o)
       /\ store' = [store EXCEPT !.record = c]
       /\ \E r \in Reads(store', client.cred) :
            /\ Takes(r)
            /\ client' = Then([client EXCEPT !.token = "none", !.cred = r.cred,
                                             !.activated = r.ok],
                              IF r.ok THEN "startup_update" ELSE "reset")
  /\ UNCHANGED removed

ActivateCut ==
  /\ At("activating")
  /\ \E c \in NewCreds, o \in Offers :
       /\ Issues(c, o)
       /\ \/ Boot([store EXCEPT !.record = c]) /\ Overwritten(o)
          \/ \E r \in {store.record, NoCred} : Boot([store EXCEPT !.record = r]) /\ Unsaved(o)
  /\ UNCHANGED removed

Activating == ActivateFails \/ ActivateUnsaved \/ ActivateSaved

(* STATE_STARTUP_UPDATE: tuya_mqtt_init clears the context, whatever it was. *)
StartupUpdate ==
  /\ At("startup_update")
  /\ \/ /\ client' = Then([client EXCEPT !.mq = "manual", !.mqKey = client.cred.key],
                          "mqtt_connect_start")
        /\ UNCHANGED used
     \/ /\ used.faults < MaxFaults
        /\ client' = Then([client EXCEPT !.mq = "none", !.mqKey = 0], "mqtt_connect_start")
        /\ used' = [used EXCEPT !.faults = @ + 1]
  /\ UNCHANGED <<store, cloud, history>>

-----------------------------------------------------------------------------
(* The connection: STATE_MQTT_CONNECT_START, and the reconnection that      *)
(* tuya_mqtt_loop makes in STATE_MQTT_YIELD.                                *)
Connecting(next) ==
  \/ At("mqtt_connect_start") /\ client.mq # "none" /\ next = "mqtt_connecting"
  \/ At("mqtt_yield") /\ client.mq = "down" /\ next = "mqtt_yield"

Accepted == client.mqKey # 0 /\ client.mqKey = cloud.bound

(* Mutant: the refusal is taken for a failure of the network. *)
AnsweredIgnored ==
  /\ \E next \in States :
       /\ Connecting(next)
       /\ client' = Then([client EXCEPT !.mq = IF Accepted THEN "up" ELSE "down"],
                         IF Accepted THEN next ELSE client.next)
  /\ UNCHANGED <<store, cloud, used, history>>

(* The broker answers; when it refuses, mqtt_client_unbind_on is called. *)
Answered ==
  /\ \E next \in States :
       /\ Connecting(next)
       /\ client' = Then([client EXCEPT !.mq = IF Accepted THEN "up" ELSE "down"],
                         IF Accepted THEN next ELSE "reset")
  /\ UNCHANGED <<store, cloud, used, history>>

Unanswered ==
  /\ \E next \in States : Connecting(next)
  /\ client' = Then([client EXCEPT !.mq = "down"], client.next)
  /\ UNCHANGED <<store, cloud, used, history>>

(* A context that could not be initialised is asked to start for ever. *)
CannotStart ==
  /\ At("mqtt_connect_start") /\ client.mq = "none" /\ Moves("mqtt_connect_start")
  /\ UNCHANGED <<store, cloud, used, history>>

Connected ==
  /\ At("mqtt_connecting")
  /\ Moves(IF client.mq = "up" THEN "mqtt_yield" ELSE "mqtt_connecting")
  /\ UNCHANGED <<store, cloud, used, history>>

(* A pass over the session that brings nothing, or no session to pass over. *)
YieldQuiet ==
  /\ At("mqtt_yield") /\ client.mq # "down" /\ Moves("mqtt_yield")
  /\ UNCHANGED <<store, cloud, used, history>>

(* The session ends. *)
YieldLost ==
  /\ At("mqtt_yield") /\ client.mq = "up"
  /\ client' = Then([client EXCEPT !.mq = "down"], "mqtt_yield")
  /\ UNCHANGED <<store, cloud, used, history>>

(* mqtt_service_reset_cmd_on, sent when the cloud no longer accepts the key. *)
YieldOrder ==
  /\ At("mqtt_yield") /\ client.mq = "up" /\ ~Accepted
  /\ Moves("reset")
  /\ UNCHANGED <<store, cloud, used, history>>

-----------------------------------------------------------------------------
(* tuya_mqtt_stop *)
Stopped(c) == IF c.mq = "none" THEN c ELSE [c EXCEPT !.mq = "manual"]

Stop ==
  /\ At("stop") /\ client' = Then(Stopped(client), "idle")
  /\ UNCHANGED <<store, cloud, used, history>>

Reconnect ==
  /\ At("mqtt_reconnect") /\ client' = Then(Stopped(client), "mqtt_connect_start")
  /\ UNCHANGED <<store, cloud, used, history>>

(* Mutant: the record is left in storage. *)
DataRemoveKeeps(c, s) ==
  /\ client' = [c EXCEPT !.activated = FALSE]
  /\ store' = s
  /\ UNCHANGED <<used, upset>>

(* tuya_iot_activated_data_remove, for the client c and the storage s: the  *)
(* result of the deletion is not looked at.  Nothing reads the schema.      *)
DataRemove(c, s) ==
  \/ /\ client' = [c EXCEPT !.activated = FALSE]
     /\ store' = IF c.activated THEN [s EXCEPT !.record = NoCred] ELSE s
     /\ UNCHANGED <<used, upset>>
  \/ /\ c.activated /\ used.faults < MaxFaults
     /\ client' = [c EXCEPT !.activated = FALSE]
     /\ store' = s
     /\ used' = [used EXCEPT !.faults = @ + 1]
     /\ upset' = TRUE

(* Saving d as the id over what storage holds. *)
Forgets(d) == d = 0 /\ store # Empty

(* Mutant: the session is left as it is. *)
ResetClientOnline == Then(client, "restart")

ResetClient ==
  Then(IF client.activated /\ client.mq = "up" THEN Stopped(client) ELSE client, "restart")

(* Mutant: the id is not saved. *)
SavedIdOf(c) == store.devid

(* What run_state_reset saves: strlen(client->activate.devid) bytes. *)
IdToSave(c) == c.cred.id

(* STATE_RESET: the id in memory is saved before the data is removed.  When *)
(* that fails, the file is empty, or as it was if it could not be opened.   *)
Reset ==
  /\ At("reset")
  /\ \/ /\ DataRemove(ResetClient, [store EXCEPT !.devid = IdToSave(client)])
        /\ forgot' = (forgot \/ Forgets(client.cred.id))
     \/ /\ used.faults < MaxFaults
        /\ client' = [ResetClient EXCEPT !.activated = FALSE]
        /\ \E d \in {0, store.devid} :
             /\ store' = [record |-> IF client.activated THEN NoCred ELSE store.record, devid |-> d]
             /\ forgot' = (forgot \/ Forgets(d))
        /\ used' = [used EXCEPT !.faults = @ + 1]
        /\ UNCHANGED upset
  /\ UNCHANGED <<cloud, removed>>

ResetCut ==
  /\ At("reset")
  /\ \E d \in {0, client.cred.id}, r \in {store.record, NoCred} :
       /\ r # store.record => client.activated /\ d = client.cred.id
       /\ Boot([record |-> r, devid |-> d])
       /\ forgot' = (forgot \/ Forgets(d))
  /\ UNCHANGED <<cloud, removed>>

-----------------------------------------------------------------------------
(* The application. *)

(* tuya_iot_start, which overwrites a stop or a reset asked for in between. *)
CallStart ==
  /\ client.state = "idle"
  /\ client' = [client EXCEPT !.next = "start"]
  /\ UNCHANGED <<store, cloud, used, history>>

Counted ==
  /\ used.calls < MaxCalls
  /\ used' = [used EXCEPT !.calls = @ + 1]

(* tuya_iot_stop *)
CallStop ==
  /\ Counted /\ client' = [client EXCEPT !.next = "stop"]
  /\ UNCHANGED <<store, cloud, history>>

(* tuya_iot_reconnect *)
CallReconnect ==
  /\ Counted /\ client.state = "mqtt_yield"
  /\ client' = [client EXCEPT !.next = "mqtt_reconnect"]
  /\ UNCHANGED <<store, cloud, history>>

(* tuya_iot_reset: the request may reach the cloud or not. *)
CallReset ==
  /\ Counted /\ client' = [client EXCEPT !.next = "reset"]
  /\ \/ UNCHANGED cloud
     \/ /\ client.state = "mqtt_yield" /\ client.activated /\ client.mq = "up" /\ Accepted
        /\ cloud' = [cloud EXCEPT !.bound = 0]
  /\ UNCHANGED <<store, history>>

(* tuya_iot_activated_data_remove, which is part of the interface. *)
CallRemove ==
  /\ used.calls < MaxCalls /\ client.activated
  /\ \/ client' = [client EXCEPT !.activated = FALSE] /\ store' = [store EXCEPT !.record = NoCred]
        /\ used' = [used EXCEPT !.calls = @ + 1] /\ UNCHANGED upset
     \/ client' = [client EXCEPT !.activated = FALSE] /\ UNCHANGED store
        /\ used.faults < MaxFaults
        /\ used' = [used EXCEPT !.calls = @ + 1, !.faults = @ + 1] /\ upset' = TRUE
  /\ removed' = (removed \/ client.next # "idle")
  /\ forgot' = (forgot \/ store.devid # store.record.id)
  /\ UNCHANGED cloud

Call == CallStart \/ CallStop \/ CallReconnect \/ CallReset \/ CallRemove

(* The user removes the device from the cloud. *)
CloudUnbind ==
  /\ cloud.bound # 0
  /\ cloud' = [cloud EXCEPT !.bound = 0]
  /\ UNCHANGED <<client, store, used, history>>

Yield ==
  \/ Idle \/ Start \/ Restart \/ DataLoad \/ TokenPending \/ Activating \/ StartupUpdate
  \/ Answered \/ Unanswered \/ CannotStart \/ Connected \/ YieldQuiet \/ YieldLost \/ YieldOrder
  \/ Stop \/ Reconnect \/ Reset

Next == Yield \/ Call \/ CloudUnbind \/ PowerCut \/ ActivateCut \/ ResetCut

(* The application calls tuya_iot_yield in its main loop.  A yield that     *)
(* changes nothing is a stutter, so that weak fairness also says what is    *)
(* assumed of the outside: a broker that is asked again and again answers   *)
(* at some time, a token arrives, and a session whose key is no longer      *)
(* accepted is told so or ends.                                             *)
Spec == Init /\ [][Next]_vars
LiveSpec == Spec /\ WF_vars(Yield)

-----------------------------------------------------------------------------
(* The variables hold values of their types; a token is there when          *)
(* STATE_ACTIVATING reads it through client->binding (tuya_iot.c:627).      *)
TypeOK ==
  /\ client \in [state : States, next : States, activated : BOOLEAN, cred : Cred \cup {NoCred},
                 token : {"none", "good", "spent"}, mq : MqStates, mqKey : Nat]
  /\ store \in [record : Cred \cup {NoCred}, devid : Nat]
  /\ cloud \in [issued : Nat, ids : SUBSET (Nat \ {0}), bound : Nat]
  /\ upset \in BOOLEAN /\ removed \in BOOLEAN /\ forgot \in BOOLEAN
  /\ client.next = "activating" => client.token # "none"

(* The client is activated exactly when storage holds an activation record, *)
(* and with that record, however often power failed between two writes: a   *)
(* reset is complete or has not happened.  Excepted are failed deletions    *)
(* and reads, whose results are not looked at (tuya_iot.c:771-772, :85).    *)
StorageAgrees ==
  ~upset => /\ client.activated <=> store.record # NoCred
            /\ client.activated => client.cred = store.record

(* A session is up only where the code may use or end it, and belongs to    *)
(* the credential of the client: it is never left open behind a reset, and  *)
(* tuya_mqtt_init never clears a context in use, unless the application     *)
(* removed the data of a running client (tuya_iot.c:477 tests is_activated). *)
OneSession ==
  client.mq = "up" /\ ~removed =>
    /\ client.next \in {"mqtt_connecting", "mqtt_yield", "mqtt_reconnect", "reset", "stop"}
    /\ client.activated /\ client.mqKey = client.cred.key

(* The device keeps one id over resets, unbindings and new activations,     *)
(* since the id is saved and offered again.  It may get a second one after  *)
(* one of these: the saved id could not be read when a token arrived, or    *)
(* was not saved yet and the record that holds it was not read (Overwritten; *)
(* tuya_iot.c:176, :541); a first id was issued and did not get into        *)
(* storage (Unsaved); a reset saved no id over what storage held, since the *)
(* save failed or there was none in memory (Forgets; :483-487); the         *)
(* application removed the data while the id was not saved (CallRemove).    *)
DevidKept == ~forgot => Cardinality(cloud.ids) <= 1

(* A device the cloud has unbound gives up its activation, whether the      *)
(* order reaches it, is overwritten by a call, or is found out by the next  *)
(* connection, unless the client is stopped or could not initialise MQTT.   *)
OrderIsObeyed ==
  (client.activated /\ client.cred.key # cloud.bound) ~>
    \/ ~client.activated \/ client.state = "idle"
    \/ client.next = "mqtt_connect_start" /\ client.mq = "none"
=============================================================================
