------------------------------- MODULE MsgQueue -------------------------------
(***************************************************************************)
(* The message queue of the provisioning service, pointer by pointer: the   *)
(* TAILQ macros of queue.h as ble_service_loop and ble_msg_queue_insert use  *)
(* them, from the provisioning task ("loop") and from the Bluetooth task    *)
(* ("bt") that runs the stack's callbacks.  Nothing in the code keeps the   *)
(* two apart; Overlap says whether the scheduler lets an operation of one   *)
(* start inside an operation of the other.                                  *)
(*                                                                          *)
(* A slot is the address of a "next" pointer: the one of the queue's head,  *)
(* or the one inside a node.  tqe_prev and tqh_last hold slots.  Freed      *)
(* memory keeps its contents until malloc hands it out again.               *)
(***************************************************************************)
EXTENDS Naturals, Sequences, FiniteSets

CONSTANTS
  Nodes,     \* the heap: memory for this many messages at a time
  MaxMsgs,   \* bound: messages inserted in all
  Overlap    \* TRUE: operations of the two tasks may overlap

NULL == "NULL"
HEAD == "HEAD"
Slots == Nodes \cup {HEAD}
Pointers == Nodes \cup {NULL}
Tasks == {"loop", "bt"}

ASSUME QueueAssumption ==
  /\ IsFiniteSet(Nodes) /\ Nodes \cap {NULL, HEAD} = {}
  /\ MaxMsgs \in Nat /\ Overlap \in BOOLEAN

VARIABLES
  nxt,       \* the pointer in each slot: tqh_first and every tqe_next
  prv,       \* tqe_prev of each node
  last,      \* tqh_last
  msg,       \* the message in each node, by its number
  heap,      \* nodes that are not allocated
  pc,        \* where each task is
  new,       \* the node each task is inserting
  first,     \* first_node of ble_service_loop
  sent,      \* messages inserted or being inserted
  handled    \* history: the messages the loop has handled and taken out

vars == <<nxt, prv, last, msg, heap, pc, new, first, sent, handled>>

Init ==
  /\ nxt = [s \in Slots |-> NULL] /\ prv = [n \in Nodes |-> HEAD] /\ last = HEAD
  /\ msg = [n \in Nodes |-> 0] /\ heap = Nodes
  /\ pc = [t \in Tasks |-> "idle"] /\ new = [t \in Tasks |-> NULL]
  /\ first = NULL /\ sent = 0 /\ handled = <<>>

Goto(t, step) == pc' = [pc EXCEPT ![t] = step]

Inside(t) == pc[t] \notin {"idle", "handle", "free"}
MayEnter(t) == Overlap \/ \A u \in Tasks \ {t} : ~Inside(u)

-----------------------------------------------------------------------------
(* ble_msg_queue_insert: malloc and fill a node, then TAILQ_INSERT_TAIL.    *)
(* The loop inserts from a handler, the Bluetooth task from a callback.     *)

Allocate(t) ==
  /\ pc[t] = (IF t = "loop" THEN "handle" ELSE "idle")
  /\ MayEnter(t) /\ sent < MaxMsgs
  /\ \E n \in heap :
       /\ heap' = heap \ {n}
       /\ new' = [new EXCEPT ![t] = n]
       /\ msg' = [msg EXCEPT ![n] = sent + 1]
       /\ nxt' = [nxt EXCEPT ![n] = NULL]        \* memset, and tqe_next = NULL
  /\ sent' = sent + 1
  /\ Goto(t, "set_prev")
  /\ UNCHANGED <<prv, last, first, handled>>

(* Mutant: tqe_prev is cleared with the rest of the node and not set. *)
SetPrevNull(t) ==
  /\ pc[t] = "set_prev"
  /\ prv' = [prv EXCEPT ![new[t]] = NULL]
  /\ Goto(t, "link")
  /\ UNCHANGED <<nxt, last, msg, heap, new, first, sent, handled>>

SetPrev(t) ==
  /\ pc[t] = "set_prev"
  /\ prv' = [prv EXCEPT ![new[t]] = last]
  /\ Goto(t, "link")
  /\ UNCHANGED <<nxt, last, msg, heap, new, first, sent, handled>>

Link(t) ==
  /\ pc[t] = "link"
  /\ nxt' = [nxt EXCEPT ![last] = new[t]]
  /\ Goto(t, "set_last")
  /\ UNCHANGED <<prv, last, msg, heap, new, first, sent, handled>>

SetLast(t) ==
  /\ pc[t] = "set_last"
  /\ last' = new[t]
  /\ new' = [new EXCEPT ![t] = NULL]
  /\ Goto(t, IF t = "loop" THEN "handle" ELSE "idle")
  /\ UNCHANGED <<nxt, prv, msg, heap, first, sent, handled>>

-----------------------------------------------------------------------------
(* ble_service_loop: TAILQ_FIRST, the handler, TAILQ_REMOVE, free. *)

Peek ==
  /\ pc["loop"] = "idle" /\ nxt[HEAD] # NULL
  /\ MayEnter("loop")
  /\ first' = nxt[HEAD]
  /\ Goto("loop", "handle")
  /\ UNCHANGED <<nxt, prv, last, msg, heap, new, sent, handled>>

(* The handler of START fails: ble_service_loop returns at once, the node   *)
(* stays where it is and the next call takes it up again.  (Which message   *)
(* is a START is not modelled: any may be.)                                 *)
Refuse ==
  /\ pc["loop"] = "handle"
  /\ first' = NULL
  /\ Goto("loop", "idle")
  /\ UNCHANGED <<nxt, prv, last, msg, heap, new, sent, handled>>

TestNext ==
  /\ pc["loop"] = "handle"
  /\ MayEnter("loop")
  /\ Goto("loop", IF nxt[first] # NULL THEN "next_prev" ELSE "last_prev")
  /\ UNCHANGED <<nxt, prv, last, msg, heap, new, first, sent, handled>>

(* tqe_next->tqe_prev = tqe_prev, or tqh_last = tqe_prev. *)
PassBack ==
  /\ \/ /\ pc["loop"] = "next_prev"
        /\ prv' = [prv EXCEPT ![nxt[first]] = prv[first]]
        /\ UNCHANGED last
     \/ /\ pc["loop"] = "last_prev"
        /\ last' = prv[first]
        /\ UNCHANGED prv
  /\ Goto("loop", "unlink")
  /\ UNCHANGED <<nxt, msg, heap, new, first, sent, handled>>

(* Mutant: the head is set to NULL whatever follows. *)
UnlinkAll ==
  /\ pc["loop"] = "unlink"
  /\ nxt' = [nxt EXCEPT ![prv[first]] = NULL]
  /\ handled' = Append(handled, msg[first])
  /\ Goto("loop", "free")
  /\ UNCHANGED <<prv, last, msg, heap, new, first, sent>>

Unlink ==
  /\ pc["loop"] = "unlink"
  /\ nxt' = [nxt EXCEPT ![prv[first]] = nxt[first]]
  /\ handled' = Append(handled, msg[first])
  /\ Goto("loop", "free")
  /\ UNCHANGED <<prv, last, msg, heap, new, first, sent>>

(* Mutant: the node is forgotten. *)
FreeLeaks ==
  /\ pc["loop"] = "free"
  /\ first' = NULL
  /\ Goto("loop", "idle")
  /\ UNCHANGED <<nxt, prv, last, msg, heap, new, sent, handled>>

Free ==
  /\ pc["loop"] = "free"
  /\ heap' = heap \cup {first}
  /\ first' = NULL
  /\ Goto("loop", "idle")
  /\ UNCHANGED <<nxt, prv, last, msg, new, sent, handled>>

-----------------------------------------------------------------------------
Insert(t) == Allocate(t) \/ SetPrev(t) \/ Link(t) \/ SetLast(t)
Remove == Peek \/ Refuse \/ TestNext \/ PassBack \/ Unlink \/ Free

Next == Remove \/ \E t \in Tasks : Insert(t)

Spec == Init /\ [][Next]_vars

-----------------------------------------------------------------------------
(* Every pointer points to a slot or a node, every number is in its bounds. *)
TypeOK ==
  /\ nxt \in [Slots -> Pointers] /\ prv \in [Nodes -> Slots] /\ last \in Slots
  /\ msg \in [Nodes -> 0 .. MaxMsgs] /\ heap \subseteq Nodes
  /\ pc \in [Tasks -> {"idle", "handle", "set_prev", "link", "set_last",
                       "next_prev", "last_prev", "unlink", "free"}]
  /\ new \in [Tasks -> Pointers] /\ first \in Pointers
  /\ sent \in 0 .. MaxMsgs /\ handled \in Seq(1 .. MaxMsgs)

(* The slot that points to the node at place i of a list of nodes.          *)
Slot(c, i) == IF i = 1 THEN HEAD ELSE c[i - 1]

(* The nodes that the pointers of h lead to from the head, one after the    *)
(* other, up to NULL or to a node that has come before.                     *)
Walks(h) ==
  {c \in UNION {[1 .. k -> Nodes] : k \in 0 .. Cardinality(Nodes)} :
     \A i \in DOMAIN c : h[Slot(c, i)] = c[i] /\ \A j \in DOMAIN c : c[i] = c[j] => i = j}

ChainOf(h) == CHOOSE c \in Walks(h) : \A d \in Walks(h) : Len(d) <= Len(c)
Chain == ChainOf(nxt)

(* Every allocated node can be reached from the head, or is the one a task  *)
(* is inserting or removing, and no node that is reached has been freed:    *)
(* nothing leaks and nothing is used after it was freed.                    *)
NodesAccountedFor ==
  LET reached == {Chain[i] : i \in DOMAIN Chain}
  IN  /\ reached \cap heap = {}
      /\ Nodes \ heap \subseteq reached \cup {new[t] : t \in Tasks} \cup {first}

(* The pointers implement a first-in first-out queue of the messages, each  *)
(* of which is handled, and handled again while its handler refuses it,     *)
(* before the next.  The message being removed is gone once the head points *)
(* past it.                                                                 *)
F == INSTANCE Fifo WITH
       items <- [i \in DOMAIN Chain |-> msg[Chain[i]]],
       busy <- first # NULL /\ pc["loop"] # "free"

ImplementsFifo == F!Spec

(* ble_wrapper.c:394 "The service callback queues BLE_SVC_STATUS_DISCONNECT *)
(* and owns ADV restart": when both tasks are between operations, every     *)
(* message that was inserted is in the queue or has been handled.           *)
NothingLost ==
  (\A t \in Tasks : pc[t] = "idle") =>
    \A m \in 1 .. sent : \/ \E i \in DOMAIN handled : handled[i] = m
                         \/ \E i \in DOMAIN Chain : msg[Chain[i]] = m
===============================================================================
