---------------------------- MODULE MsgQueueProofs ----------------------------
(***************************************************************************)
(* Proofs about MsgQueue, for any heap and any number of messages: types,   *)
(* whatever the two tasks do; and, when an operation of one task never      *)
(* starts inside an operation of the other, that no node leaks or is used   *)
(* after it was freed and that the pointers implement a FIFO queue.         *)
(*                                                                          *)
(* With Chain, the nodes in the order of the pointers, tqe_prev and         *)
(* tqh_last each hold the slot that Chain says, but for the steps of an     *)
(* operation at which exactly one of them has not been written yet.         *)
(***************************************************************************)
EXTENDS MsgQueue, ListFacts

Places(c) == 1 .. Len(c)
EndSlot(c) == Slot(c, Len(c) + 1)
Listed(c, n) == \E i \in Places(c) : c[i] = n

(* The pointers of h lead through the nodes of c, each once, and then to NULL. *)
Leads(h, c) ==
  /\ c \in Seq(Nodes)
  /\ \A i \in Places(c) : h[Slot(c, i)] = c[i]
  /\ \A i, j \in Places(c) : c[i] = c[j] => i = j
  /\ h[EndSlot(c)] = NULL

-----------------------------------------------------------------------------
(* The types need more than themselves: which pointers are not NULL when,   *)
(* and that a node that is linked holds a message.                          *)

Inserting == {"set_prev", "link", "set_last"}
Removing == {"next_prev", "last_prev", "unlink"}

Typed ==
  /\ TypeOK
  /\ \A t \in Tasks : pc[t] \in Inserting <=> new[t] # NULL
  /\ pc["loop"] # "idle" <=> first # NULL
  /\ first # NULL => msg[first] # 0
  /\ pc["bt"] \in Inserting \cup {"idle"}
  /\ \A t \in Tasks : new[t] # NULL => msg[new[t]] # 0
  /\ \A s \in Slots : nxt[s] # NULL => msg[nxt[s]] # 0

-----------------------------------------------------------------------------
(* The rest holds when operations do not overlap. *)

Busy == first # NULL /\ pc["loop"] # "free"

(* At most one task is inside an operation. *)
Alone == Inside("loop") => ~Inside("bt")

(* A node that is being put in is not in the queue until Link. *)
NewNode(c) ==
  \A t \in Tasks : pc[t] \in {"set_prev", "link"} =>
    /\ ~Listed(c, new[t]) /\ new[t] \notin heap /\ new[t] # first
    /\ nxt[new[t]] = NULL /\ msg[new[t]] = sent
    /\ sent = Len(handled) + Len(c) + 1

(* The node at the head stays while it is handled and removed. *)
FirstNode(c) ==
  /\ Busy => c # <<>> /\ c[1] = first
  /\ pc["loop"] = "free" => ~Listed(c, first) /\ first \notin heap
  /\ pc["loop"] = "next_prev" => Len(c) > 1
  /\ pc["loop"] = "last_prev" => Len(c) = 1

(* tqe_prev holds the slot that leads to its node. *)
Backwards(c) ==
  /\ \A t \in Tasks : pc[t] = "link" => prv[new[t]] = EndSlot(c)
  /\ \A i \in Places(c) :
       prv[c[i]] = IF i = 2 /\ pc["loop"] = "unlink" THEN HEAD ELSE Slot(c, i)

(* tqh_last holds the slot at the end. *)
LastSlot(c) ==
  /\ \A t \in Tasks : pc[t] = "set_last" =>
       c # <<>> /\ c[Len(c)] = new[t] /\ last = Slot(c, Len(c))
  /\ pc["loop"] = "unlink" => last = IF Len(c) = 1 THEN HEAD ELSE EndSlot(c)
  /\ pc["loop"] # "unlink" /\ (\A t \in Tasks : pc[t] # "set_last") => last = EndSlot(c)

(* Every node is in the heap, in the queue, or in the hands of a task. *)
Accounted(c) ==
  /\ \A i \in Places(c) : c[i] \notin heap
  /\ \A n \in Nodes : n \in heap \/ Listed(c, n) \/ n = first \/ \E t \in Tasks : new[t] = n

(* Messages that have been numbered are in the queue or were taken out. *)
Counted(c) ==
  (\A t \in Tasks : pc[t] \notin {"set_prev", "link"}) =>
    sent = Len(handled) + Len(c)

Shape(c) ==
  /\ Leads(nxt, c) /\ NewNode(c) /\ FirstNode(c) /\ Backwards(c)
  /\ LastSlot(c) /\ Accounted(c) /\ Counted(c)

IInv == Typed /\ Alone /\ Shape(Chain)

-----------------------------------------------------------------------------
(* Types. *)

Steps == {"idle", "handle", "set_prev", "link", "set_last",
          "next_prev", "last_prev", "unlink", "free"}

LEMMA GotoFacts ==
  ASSUME NEW t \in Tasks, NEW step \in Steps, Goto(t, step), pc \in [Tasks -> Steps]
  PROVE  /\ pc' \in [Tasks -> Steps] /\ pc'[t] = step
         /\ \A u \in Tasks : u # t => pc'[u] = pc[u]
BY DEF Goto

LEMMA Constants ==
  /\ NULL \notin Nodes /\ HEAD \notin Nodes /\ NULL # HEAD
  /\ "loop" \in Tasks /\ "bt" \in Tasks /\ \A t \in Tasks : t = "loop" \/ t = "bt"
  /\ MaxMsgs \in Nat /\ HEAD \in Slots /\ Nodes \subseteq Slots
  /\ \A s \in Slots : s \in Nodes \/ s = HEAD
  /\ \A p \in Pointers : p \in Nodes \/ p = NULL
  /\ NULL \in Pointers /\ Nodes \subseteq Pointers /\ NULL \notin Slots
BY QueueAssumption DEF Tasks, NULL, HEAD, Slots, Pointers

LEMMA TypedInit == Init => Typed
<1> SUFFICES ASSUME Init PROVE Typed
  OBVIOUS
<1>1. TypeOK
  BY Constants DEF Init, TypeOK
<1>2. QED
  BY <1>1, Constants DEF Init, Typed, Inserting

LEMMA AllocateTyped == ASSUME Typed, NEW t \in Tasks, Allocate(t) PROVE Typed'
<1>1. PICK n \in heap :
        /\ heap' = heap \ {n} /\ new' = [new EXCEPT ![t] = n]
        /\ msg' = [msg EXCEPT ![n] = sent + 1] /\ nxt' = [nxt EXCEPT ![n] = NULL]
  BY DEF Allocate
<1>2. TypeOK /\ n \in Nodes /\ n # NULL
  BY <1>1, Constants DEF Typed, TypeOK
<1>3. /\ pc' \in [Tasks -> Steps] /\ pc'[t] = "set_prev"
      /\ \A u \in Tasks : u # t => pc'[u] = pc[u]
  BY <1>2, GotoFacts DEF Allocate, Steps, TypeOK
<1>4. sent < MaxMsgs /\ sent' = sent + 1 /\ UNCHANGED <<prv, last, first, handled>>
      /\ pc[t] = IF t = "loop" THEN "handle" ELSE "idle"
  BY DEF Allocate
<1>5. sent + 1 \in 0 .. MaxMsgs /\ sent + 1 # 0
  BY <1>2, <1>4, Constants DEF TypeOK
<1>6. TypeOK'
  BY <1>1, <1>2, <1>3, <1>4, <1>5, Constants DEF TypeOK, Steps
<1>7. \A u \in Tasks : pc'[u] \in Inserting <=> new'[u] # NULL
  BY <1>1, <1>2, <1>3 DEF Typed, TypeOK, Inserting
<1>8. (pc'["loop"] # "idle" <=> first' # NULL) /\ pc'["bt"] \in Inserting \cup {"idle"}
  BY <1>3, <1>4, Constants DEF Typed, Inserting
<1>9. \A m \in Nodes : msg[m] # 0 => msg'[m] # 0
  BY <1>1, <1>2, <1>5 DEF TypeOK
<1>10. \A u \in Tasks : new'[u] # NULL => msg'[new'[u]] # 0
  BY <1>1, <1>2, <1>5, <1>9, Constants DEF Typed, TypeOK
<1>11. \A s \in Slots : nxt'[s] # NULL => msg'[nxt'[s]] # 0
  BY <1>1, <1>2, <1>9, Constants DEF Typed, TypeOK
<1>12. first' # NULL => msg'[first'] # 0
  BY <1>2, <1>4, <1>9, Constants DEF Typed, TypeOK
<1>13. QED
  BY <1>6, <1>7, <1>8, <1>10, <1>11, <1>12 DEF Typed

LEMMA SetPrevTyped == ASSUME Typed, NEW t \in Tasks, SetPrev(t) PROVE Typed'
<1>1. TypeOK /\ new[t] \in Nodes /\ pc[t] = "set_prev"
  BY Constants DEF Typed, TypeOK, SetPrev, Inserting
<1>2. /\ pc' \in [Tasks -> Steps] /\ pc'[t] = "link"
      /\ \A u \in Tasks : u # t => pc'[u] = pc[u]
  BY <1>1, GotoFacts DEF SetPrev, Steps, TypeOK
<1>3. prv' = [prv EXCEPT ![new[t]] = last] /\ UNCHANGED <<nxt, last, msg, heap, new, first, sent, handled>>
  BY DEF SetPrev
<1>4. TypeOK'
  BY <1>1, <1>2, <1>3 DEF TypeOK, Steps
<1>5. \A u \in Tasks : pc'[u] \in Inserting <=> new'[u] # NULL
  BY <1>1, <1>2, <1>3 DEF Typed, Inserting
<1>6. (pc'["loop"] # "idle" <=> first' # NULL) /\ pc'["bt"] \in Inserting \cup {"idle"}
  BY <1>1, <1>2, <1>3, Constants DEF Typed, Inserting
<1>7. QED
  BY <1>3, <1>4, <1>5, <1>6 DEF Typed

LEMMA LinkTyped == ASSUME Typed, NEW t \in Tasks, Link(t) PROVE Typed'
<1>1. TypeOK /\ new[t] \in Nodes /\ new[t] # NULL /\ msg[new[t]] # 0 /\ pc[t] = "link"
  BY Constants DEF Typed, TypeOK, Link, Inserting
<1>2. /\ pc' \in [Tasks -> Steps] /\ pc'[t] = "set_last"
      /\ \A u \in Tasks : u # t => pc'[u] = pc[u]
  BY <1>1, GotoFacts DEF Link, Steps, TypeOK
<1>3. nxt' = [nxt EXCEPT ![last] = new[t]] /\ UNCHANGED <<prv, last, msg, heap, new, first, sent, handled>>
  BY DEF Link
<1>4. TypeOK'
  BY <1>1, <1>2, <1>3, Constants DEF TypeOK, Steps
<1>5. \A u \in Tasks : pc'[u] \in Inserting <=> new'[u] # NULL
  BY <1>1, <1>2, <1>3 DEF Typed, Inserting
<1>6. (pc'["loop"] # "idle" <=> first' # NULL) /\ pc'["bt"] \in Inserting \cup {"idle"}
  BY <1>1, <1>2, <1>3, Constants DEF Typed, Inserting
<1>7. \A s \in Slots : nxt'[s] # NULL => msg'[nxt'[s]] # 0
  BY <1>1, <1>3 DEF Typed, TypeOK
<1>8. QED
  BY <1>3, <1>4, <1>5, <1>6, <1>7 DEF Typed

LEMMA SetLastTyped == ASSUME Typed, NEW t \in Tasks, SetLast(t) PROVE Typed'
<1>1. TypeOK /\ new[t] \in Nodes /\ pc[t] = "set_last"
  BY Constants DEF Typed, TypeOK, SetLast, Inserting
<1> DEFINE step == IF t = "loop" THEN "handle" ELSE "idle"
<1>2. step \in Steps /\ step \notin Inserting
  BY DEF Steps, Inserting
<1>3. /\ pc' \in [Tasks -> Steps] /\ pc'[t] = step
      /\ \A u \in Tasks : u # t => pc'[u] = pc[u]
  <2>1. Goto(t, step)
    BY DEF SetLast
  <2> HIDE DEF step
  <2>2. QED
    BY <1>1, <1>2, <2>1, GotoFacts DEF Steps, TypeOK
<1>4. /\ last' = new[t] /\ new' = [new EXCEPT ![t] = NULL]
      /\ UNCHANGED <<nxt, prv, msg, heap, first, sent, handled>>
  BY DEF SetLast
<1>5. TypeOK'
  BY <1>1, <1>3, <1>4, Constants DEF TypeOK, Steps
<1>6. \A u \in Tasks : pc'[u] \in Inserting <=> new'[u] # NULL
  BY <1>1, <1>2, <1>3, <1>4 DEF Typed, TypeOK
<1>7. (pc'["loop"] # "idle" <=> first' # NULL) /\ pc'["bt"] \in Inserting \cup {"idle"}
  BY <1>1, <1>3, <1>4, Constants DEF Typed, Inserting
<1>8. \A u \in Tasks : new'[u] # NULL => msg'[new'[u]] # 0
  BY <1>1, <1>4 DEF Typed, TypeOK
<1>9. QED
  BY <1>4, <1>5, <1>6, <1>7, <1>8 DEF Typed

LEMMA PeekTyped == ASSUME Typed, Peek PROVE Typed'
<1>1. /\ TypeOK /\ pc["loop"] = "idle" /\ nxt[HEAD] # NULL /\ nxt[HEAD] \in Nodes
      /\ msg[nxt[HEAD]] # 0
  BY Constants DEF Typed, TypeOK, Peek
<1>2. /\ pc' \in [Tasks -> Steps] /\ pc'["loop"] = "handle"
      /\ \A u \in Tasks : u # "loop" => pc'[u] = pc[u]
  BY <1>1, GotoFacts, Constants DEF Peek, Steps, TypeOK
<1>3. /\ first' = nxt[HEAD]
      /\ UNCHANGED <<nxt, prv, last, msg, heap, new, sent, handled>>
  BY DEF Peek
<1>4. first' # NULL => msg'[first'] # 0
  BY <1>1, <1>3
<1>5. TypeOK'
  BY <1>1, <1>2, <1>3, Constants DEF TypeOK, Steps
<1>6. \A u \in Tasks : pc'[u] \in Inserting <=> new'[u] # NULL
  BY <1>1, <1>2, <1>3 DEF Typed, Inserting
<1>7. (pc'["loop"] # "idle" <=> first' # NULL) /\ pc'["bt"] \in Inserting \cup {"idle"}
  BY <1>1, <1>2, <1>3, Constants DEF Typed, Inserting
<1>8. QED
  BY <1>3, <1>4, <1>5, <1>6, <1>7 DEF Typed

(* A step of the loop that leaves it inside its removal, or at its end. *)
LEMMA LoopTyped ==
  ASSUME Typed, TypeOK', NEW step, pc' = [pc EXCEPT !["loop"] = step],
         pc["loop"] \notin Inserting, step \notin Inserting,
         step # "idle" <=> first' # NULL,
         first' # NULL => first' = first,
         UNCHANGED <<new, msg>>,
         \A s \in Slots : nxt'[s] # NULL => msg[nxt'[s]] # 0
  PROVE  Typed'
<1>1. pc'["loop"] = step /\ pc'["bt"] = pc["bt"]
  BY Constants DEF Typed, TypeOK, Tasks
<1>2. \A u \in Tasks : pc'[u] \in Inserting <=> new'[u] # NULL
  BY <1>1, Constants DEF Typed
<1>3. (pc'["loop"] # "idle" <=> first' # NULL) /\ pc'["bt"] \in Inserting \cup {"idle"}
  BY <1>1 DEF Typed
<1>4. QED
  BY <1>2, <1>3 DEF Typed

LEMMA RemovalTyped ==
  ASSUME Typed, Refuse \/ TestNext \/ PassBack \/ Unlink \/ Free
  PROVE  Typed'
<1>0. TypeOK /\ (pc["loop"] # "idle" <=> first # NULL)
      /\ (first # NULL => first \in Nodes /\ msg[first] # 0)
      /\ \A s \in Slots : nxt[s] # NULL => msg[nxt[s]] # 0
  BY Constants DEF Typed, TypeOK
<1>1. CASE TestNext
  <2> DEFINE step == IF nxt[first] # NULL THEN "next_prev" ELSE "last_prev"
  <2>1. /\ pc["loop"] = "handle" /\ pc' = [pc EXCEPT !["loop"] = step]
        /\ UNCHANGED <<nxt, prv, last, msg, heap, new, first, sent, handled>>
    BY <1>1 DEF TestNext, Goto
  <2>2. step \in Steps /\ step \notin Inserting /\ step # "idle"
    BY DEF Steps, Inserting
  <2> HIDE DEF step
  <2>3. TypeOK'
    BY <1>0, <2>1, <2>2, Constants DEF TypeOK, Steps
  <2>4. QED
    BY <1>0, <2>1, <2>2, <2>3, LoopTyped DEF Inserting
<1>2. CASE PassBack
  <2>1. /\ pc["loop"] \in {"next_prev", "last_prev"} /\ pc' = [pc EXCEPT !["loop"] = "unlink"]
        /\ UNCHANGED <<nxt, msg, heap, new, first, sent, handled>>
    BY <1>2 DEF PassBack, Goto
  <2>2. prv[first] \in Slots
    BY <1>0, <2>1 DEF TypeOK
  <2>3. prv' \in [Nodes -> Slots] /\ last' \in Slots
    BY <1>0, <1>2, <2>2 DEF PassBack, TypeOK
  <2>4. TypeOK'
    BY <1>0, <2>1, <2>3, Constants DEF TypeOK
  <2>5. "unlink" \notin Inserting /\ pc["loop"] \notin Inserting
    BY <2>1 DEF Inserting
  <2>6. QED
    BY <1>0, <2>1, <2>4, <2>5, LoopTyped
<1>3. CASE Unlink
  <2>1. /\ pc["loop"] = "unlink" /\ pc' = [pc EXCEPT !["loop"] = "free"]
        /\ nxt' = [nxt EXCEPT ![prv[first]] = nxt[first]]
        /\ handled' = Append(handled, msg[first])
        /\ UNCHANGED <<prv, last, msg, heap, new, first, sent>>
    BY <1>3 DEF Unlink, Goto
  <2>2. prv[first] \in Slots /\ first \in Slots /\ msg[first] \in 1 .. MaxMsgs
    <3>1. prv[first] \in Slots /\ first \in Slots /\ msg[first] \in 0 .. MaxMsgs
      BY <1>0, <2>1, Constants DEF TypeOK
    <3>2. QED
      BY <1>0, <2>1, <3>1, Constants
  <2>3. TypeOK'
    <3>1. handled' \in Seq(1 .. MaxMsgs)
      BY <1>0, <2>1, <2>2, AppendFacts DEF TypeOK
    <3>2. QED
      BY <1>0, <2>1, <2>2, <3>1, Constants DEF TypeOK
  <2>4. \A s \in Slots : nxt'[s] # NULL => msg[nxt'[s]] # 0
    BY <1>0, <2>1, <2>2 DEF TypeOK
  <2>5. "free" \notin Inserting /\ pc["loop"] \notin Inserting
    BY <2>1 DEF Inserting
  <2>6. QED
    BY <1>0, <2>1, <2>3, <2>4, <2>5, LoopTyped
<1>4. CASE Free
  <2>1. /\ pc["loop"] = "free" /\ pc' = [pc EXCEPT !["loop"] = "idle"]
        /\ heap' = heap \cup {first} /\ first' = NULL
        /\ UNCHANGED <<nxt, prv, last, msg, new, sent, handled>>
    BY <1>4 DEF Free, Goto
  <2>2. TypeOK'
    BY <1>0, <2>1, Constants DEF TypeOK
  <2>3. "idle" \notin Inserting /\ pc["loop"] \notin Inserting
    BY <2>1 DEF Inserting
  <2>4. QED
    BY <1>0, <2>1, <2>2, <2>3, LoopTyped
<1>5. CASE Refuse
  <2>1. /\ pc["loop"] = "handle" /\ pc' = [pc EXCEPT !["loop"] = "idle"] /\ first' = NULL
        /\ UNCHANGED <<nxt, prv, last, msg, heap, new, sent, handled>>
    BY <1>5 DEF Refuse, Goto
  <2>2. TypeOK'
    BY <1>0, <2>1, Constants DEF TypeOK
  <2>3. "idle" \notin Inserting /\ pc["loop"] \notin Inserting
    BY <2>1 DEF Inserting
  <2>4. QED
    BY <1>0, <2>1, <2>2, <2>3, LoopTyped
<1>6. QED
  BY <1>1, <1>2, <1>3, <1>4, <1>5

LEMMA TypedStep == Typed /\ [Next]_vars => Typed'
<1> SUFFICES ASSUME Typed, [Next]_vars PROVE Typed'
  OBVIOUS
<1>1. CASE Remove
  BY <1>1, PeekTyped, RemovalTyped DEF Remove
<1>2. CASE \E t \in Tasks : Insert(t)
  BY <1>2, AllocateTyped, SetPrevTyped, LinkTyped, SetLastTyped DEF Insert
<1>3. CASE UNCHANGED vars
  BY <1>3 DEF vars, Typed, TypeOK
<1>4. QED
  BY <1>1, <1>2, <1>3 DEF Next

(* Whatever the two tasks do, and even when their operations overlap, every *)
(* pointer holds NULL, a node or a slot, and the loop never handles a node  *)
(* that holds no message (queue.h:438-538, tuya_ble_service.c:181-195).     *)
THEOREM TypeCorrect == Spec => []TypeOK
<1>1. Spec => []Typed
  BY TypedInit, TypedStep, PTL DEF Spec
<1>2. Typed => TypeOK
  BY DEF Typed
<1>3. QED
  BY <1>1, <1>2, PTL

-----------------------------------------------------------------------------
(* The chain. *)

LEMMA SlotFacts ==
  ASSUME NEW c \in Seq(Nodes)
  PROVE  /\ Len(c) \in Nat /\ \A i \in Places(c) : c[i] \in Nodes
         /\ \A i \in 1 .. Len(c) + 1 : Slot(c, i) \in Slots /\ (i = 1 <=> Slot(c, i) = HEAD)
         /\ EndSlot(c) \in Slots
         /\ Len(c) = 0 <=> c = <<>>
<1>1. Len(c) \in Nat /\ \A i \in Places(c) : c[i] \in Nodes
  BY LenProperties, ElementOfSeq DEF Places
<1>2. \A i \in 1 .. Len(c) + 1 : Slot(c, i) \in Slots /\ (i = 1 <=> Slot(c, i) = HEAD)
  BY <1>1, Constants DEF Slot, Places
<1>3. EndSlot(c) \in Slots
  BY <1>1, <1>2 DEF EndSlot
<1>4. Len(c) = 0 <=> c = <<>>
  BY EmptySeq
<1>5. QED
  BY <1>1, <1>2, <1>3, <1>4

(* Distinct nodes are reached from distinct slots. *)
LEMMA SlotsDiffer ==
  ASSUME NEW c \in Seq(Nodes), \A i, j \in Places(c) : c[i] = c[j] => i = j,
         NEW i \in 1 .. Len(c) + 1, NEW j \in 1 .. Len(c) + 1, Slot(c, i) = Slot(c, j)
  PROVE  i = j
<1>1. Len(c) \in Nat /\ (i = 1 <=> Slot(c, i) = HEAD) /\ (j = 1 <=> Slot(c, j) = HEAD)
  BY SlotFacts
<1>2. CASE i = 1 \/ j = 1
  BY <1>1, <1>2
<1>3. CASE i # 1 /\ j # 1
  <2>1. i - 1 \in Places(c) /\ j - 1 \in Places(c) /\ c[i - 1] = c[j - 1]
    BY <1>1, <1>3 DEF Slot, Places
  <2>2. i - 1 = j - 1
    BY <2>1
  <2>3. QED
    BY <1>1, <2>2
<1>4. QED
  BY <1>2, <1>3

(* Every walk follows the one that ends in NULL. *)
LEMMA WalkFollows ==
  ASSUME NEW h, NEW c, Leads(h, c), NEW d \in Seq(Nodes),
         \A i \in Places(d) : h[Slot(d, i)] = d[i]
  PROVE  \A i \in Places(d) : i \in Places(c) /\ d[i] = c[i]
<1> DEFINE bad == {i \in Places(d) : ~(i \in Places(c) /\ d[i] = c[i])}
<1>0. /\ c \in Seq(Nodes) /\ Len(c) \in Nat /\ Len(d) \in Nat
      /\ \A i \in Places(d) : d[i] \in Nodes
  BY SlotFacts DEF Leads
<1>1. SUFFICES ASSUME bad # {} PROVE FALSE
  OBVIOUS
<1>2. bad \subseteq Nat
  BY <1>0 DEF Places
<1>3. PICK i \in bad : \A j \in bad : i <= j
  <2> HIDE DEF bad
  <2>1. QED
    BY <1>1, <1>2, LeastOf
<1>4. i \in Places(d) /\ i \in Nat /\ i >= 1 /\ ~(i \in Places(c) /\ d[i] = c[i])
  BY <1>0, <1>3 DEF Places
<1>5. i = 1 \/ (i - 1 \in Places(c) /\ d[i - 1] = c[i - 1])
  <2>1. CASE i # 1
    <3>1. i - 1 \in Places(d) /\ ~(i <= i - 1)
      BY <1>0, <1>4, <2>1 DEF Places
    <3>2. i - 1 \notin bad
      BY <1>3, <3>1
    <3>3. QED
      BY <3>1, <3>2
  <2>2. QED
    BY <2>1
<1> HIDE DEF bad
<1>6. Slot(d, i) = Slot(c, i)
  BY <1>5 DEF Slot
<1>7. i \in 1 .. Len(c) + 1
  BY <1>0, <1>4, <1>5 DEF Places
<1>8. CASE i = Len(c) + 1
  <2>1. h[Slot(c, i)] = NULL
    BY <1>8 DEF Leads, EndSlot
  <2>2. d[i] = NULL /\ d[i] \in Nodes
    BY <1>0, <1>4, <1>6, <2>1
  <2>3. QED
    BY <2>2, Constants
<1>9. CASE i # Len(c) + 1
  <2>1. i \in Places(c)
    BY <1>0, <1>7, <1>9 DEF Places
  <2>2. h[Slot(c, i)] = c[i] /\ h[Slot(d, i)] = d[i]
    BY <1>4, <2>1 DEF Leads
  <2>3. QED
    BY <1>4, <1>6, <2>1, <2>2
<1>10. QED
  BY <1>8, <1>9

LEMMA ChainIs ==
  ASSUME NEW h, NEW c, Leads(h, c)
  PROVE  ChainOf(h) = c
<1>0. c \in Seq(Nodes) /\ Len(c) \in Nat /\ DOMAIN c = Places(c)
  BY LenProperties DEF Leads, Places
<1>1. c \in Walks(h)
  <2>1. Len(c) \in 0 .. Cardinality(Nodes)
    BY NoLonger, QueueAssumption DEF Leads, Places
  <2>2. c \in [1 .. Len(c) -> Nodes]
    BY <1>0 DEF Places
  <2>3. \A i \in DOMAIN c : h[Slot(c, i)] = c[i] /\ \A j \in DOMAIN c : c[i] = c[j] => i = j
    BY <1>0 DEF Leads
  <2>4. QED
    BY <2>1, <2>2, <2>3 DEF Walks
<1>2. ASSUME NEW d \in Walks(h)
      PROVE  /\ d \in Seq(Nodes) /\ Len(d) \in Nat /\ Len(d) <= Len(c)
             /\ \A i \in 1 .. Len(d) : d[i] = c[i]
  <2>0. Cardinality(Nodes) \in Nat
    BY FS_CardinalityType, QueueAssumption
  <2>1. PICK k \in 0 .. Cardinality(Nodes) : d \in [1 .. k -> Nodes]
    BY <1>2 DEF Walks
  <2>2. d \in Seq(Nodes)
    BY <2>0, <2>1, IsASeq
  <2>3. Len(d) \in Nat /\ DOMAIN d = Places(d)
    BY <2>2, LenProperties DEF Places
  <2>4. \A i \in Places(d) : h[Slot(d, i)] = d[i]
    BY <1>2, <2>3 DEF Walks
  <2>5. \A i \in Places(d) : i \in Places(c) /\ d[i] = c[i]
    BY <2>2, <2>4, WalkFollows
  <2>6. Len(d) <= Len(c)
    <3>1. CASE Len(d) = 0
      BY <1>0, <3>1
    <3>2. CASE Len(d) # 0
      <4>1. Len(d) \in Places(d)
        BY <2>3, <3>2 DEF Places
      <4>2. Len(d) \in Places(c)
        BY <2>5, <4>1
      <4>3. QED
        BY <1>0, <4>2 DEF Places
    <3>3. QED
      BY <3>1, <3>2
  <2>7. QED
    BY <2>2, <2>3, <2>5, <2>6 DEF Places
<1> DEFINE x == ChainOf(h)
<1>3. x \in Walks(h) /\ \A d \in Walks(h) : Len(d) <= Len(x)
  BY <1>1, <1>2 DEF ChainOf
<1> HIDE DEF x
<1>4. x \in Seq(Nodes) /\ Len(x) = Len(c) /\ \A i \in 1 .. Len(x) : x[i] = c[i]
  BY <1>0, <1>1, <1>2, <1>3
<1>5. x = c
  BY <1>0, <1>4, SeqEqual
<1>6. QED
  BY <1>5 DEF x

LEMMA Unmarked ==
  ASSUME NEW c \in Seq(Nodes), NEW n \in Nodes, ~Listed(c, n)
  PROVE  \A i \in 1 .. Len(c) + 1 : Slot(c, i) # n
<1> SUFFICES ASSUME NEW i \in 1 .. Len(c) + 1, Slot(c, i) = n PROVE FALSE
  OBVIOUS
<1>1. Len(c) \in Nat /\ i # 1
  BY SlotFacts, Constants
<1>2. i - 1 \in Places(c) /\ c[i - 1] = n
  BY <1>1 DEF Slot, Places
<1>3. QED
  BY <1>2 DEF Listed

(* Writing to a node that is not in the chain leaves the chain as it is. *)
LEMMA LeadsStill ==
  ASSUME NEW h \in [Slots -> Pointers], NEW c, Leads(h, c),
         NEW n \in Nodes, ~Listed(c, n), NEW p
  PROVE  Leads([h EXCEPT ![n] = p], c)
<1>1. c \in Seq(Nodes) /\ Len(c) \in Nat
  BY SlotFacts DEF Leads
<1>2. \A i \in 1 .. Len(c) + 1 : Slot(c, i) \in Slots /\ Slot(c, i) # n
  BY <1>1, SlotFacts, Unmarked
<1> DEFINE g == [h EXCEPT ![n] = p]
<1>3. \A i \in 1 .. Len(c) + 1 : g[Slot(c, i)] = h[Slot(c, i)]
  BY <1>2
<1> HIDE DEF g
<1>4. g[EndSlot(c)] = h[EndSlot(c)]
  BY <1>1, <1>3 DEF EndSlot
<1>5. \A i \in Places(c) : g[Slot(c, i)] = h[Slot(c, i)]
  BY <1>1, <1>3 DEF Places
<1>6. Leads(g, c)
  BY <1>4, <1>5 DEF Leads
<1>7. QED
  BY <1>6 DEF g

(* d is c with n linked behind the others. *)
Longer(d, c, n) ==
  /\ d \in Seq(Nodes) /\ Len(d) = Len(c) + 1 /\ Len(c) \in Nat
  /\ \A i \in Places(c) : d[i] = c[i]
  /\ d[Len(c) + 1] = n
  /\ \A i \in 1 .. Len(c) + 1 : Slot(d, i) = Slot(c, i)
  /\ EndSlot(d) = n
  /\ \A i \in Places(d) : i \in Places(c) \/ i = Len(c) + 1
  /\ \A m \in Nodes : Listed(d, m) <=> Listed(c, m) \/ m = n

LEMMA AppendSlots ==
  ASSUME NEW c \in Seq(Nodes), NEW n \in Nodes, NEW d, d = Append(c, n)
  PROVE  Longer(d, c, n)
<1>1. d \in Seq(Nodes) /\ Len(d) = Len(c) + 1 /\ Len(c) \in Nat
  BY AppendFacts, LenProperties
<1>2. (\A i \in Places(c) : d[i] = c[i]) /\ d[Len(c) + 1] = n
  BY AppendFacts DEF Places
<1>3. \A i \in 1 .. Len(c) + 1 : Slot(d, i) = Slot(c, i)
  <2> SUFFICES ASSUME NEW i \in 1 .. Len(c) + 1, i # 1 PROVE d[i - 1] = c[i - 1]
    BY DEF Slot
  <2>1. i - 1 \in Places(c)
    BY <1>1 DEF Places
  <2>2. QED
    BY <1>2, <2>1
<1>4. EndSlot(d) = n
  <2>1. Len(d) + 1 # 1 /\ Len(d) + 1 - 1 = Len(c) + 1
    BY <1>1
  <2>2. QED
    BY <1>2, <2>1 DEF EndSlot, Slot
<1>5. \A i \in Places(d) : i \in Places(c) \/ i = Len(c) + 1
  BY <1>1 DEF Places
<1>6. ASSUME NEW m \in Nodes PROVE Listed(d, m) <=> Listed(c, m) \/ m = n
  <2>1. Len(c) + 1 \in Places(d) /\ \A i \in Places(c) : i \in Places(d)
    BY <1>1 DEF Places
  <2>2. QED
    BY <1>2, <1>5, <2>1 DEF Listed
<1>7. QED
  BY <1>1, <1>2, <1>3, <1>4, <1>5, <1>6 DEF Longer

LEMMA LeadsOn ==
  ASSUME NEW h \in [Slots -> Pointers], NEW c, Leads(h, c),
         NEW n \in Nodes, ~Listed(c, n), h[n] = NULL,
         NEW d, d = Append(c, n)
  PROVE  Leads([h EXCEPT ![EndSlot(c)] = n], d)
<1>1. c \in Seq(Nodes)
  BY DEF Leads
<1>2. /\ d \in Seq(Nodes) /\ Len(d) = Len(c) + 1 /\ Len(c) \in Nat
      /\ \A i \in Places(c) : d[i] = c[i]
      /\ d[Len(c) + 1] = n
      /\ \A i \in 1 .. Len(c) + 1 : Slot(d, i) = Slot(c, i)
      /\ EndSlot(d) = n
      /\ \A i \in Places(d) : i \in Places(c) \/ i = Len(c) + 1
  <2>1. Longer(d, c, n)
    BY <1>1, AppendSlots, Zenon
  <2>2. QED
    BY <2>1 DEF Longer
<1>3. /\ \A i \in 1 .. Len(c) + 1 : Slot(c, i) \in Slots /\ Slot(c, i) # n
      /\ n \in Slots
  BY <1>1, SlotFacts, Unmarked, Constants
<1> DEFINE g == [h EXCEPT ![EndSlot(c)] = n]
<1>4. EndSlot(c) = Slot(c, Len(c) + 1) /\ EndSlot(c) \in Slots /\ EndSlot(c) # n
  BY <1>2, <1>3 DEF EndSlot
<1>5. g[EndSlot(c)] = n /\ g[n] = NULL /\ \A s \in Slots : s # EndSlot(c) => g[s] = h[s]
  BY <1>3, <1>4
<1> HIDE DEF g
<1>6. ASSUME NEW i \in Places(d) PROVE g[Slot(d, i)] = d[i]
  <2>1. CASE i \in Places(c)
    <3>1. i \in 1 .. Len(c) + 1 /\ i # Len(c) + 1 /\ Len(c) + 1 \in 1 .. Len(c) + 1
      BY <1>2, <2>1 DEF Places
    <3>2. Slot(c, i) # EndSlot(c)
      BY <1>1, <1>4, <3>1, SlotsDiffer DEF Leads
    <3>3. h[Slot(c, i)] = c[i]
      BY <2>1 DEF Leads
    <3>4. QED
      BY <1>2, <1>3, <1>5, <2>1, <3>1, <3>2, <3>3
  <2>2. CASE i = Len(c) + 1
    <3>1. Slot(d, i) = EndSlot(c)
      BY <1>2, <1>4, <2>2
    <3>2. QED
      BY <1>2, <1>5, <2>2, <3>1
  <2>3. QED
    BY <1>2, <2>1, <2>2
<1>7. \A i, j \in Places(d) : d[i] = d[j] => i = j
  <2>1. \A i \in Places(c) : c[i] # n
    BY DEF Listed
  <2>2. \A i, j \in Places(c) : c[i] = c[j] => i = j
    BY DEF Leads
  <2> SUFFICES ASSUME NEW i \in Places(d), NEW j \in Places(d), d[i] = d[j] PROVE i = j
    OBVIOUS
  <2>3. CASE i \in Places(c) /\ j \in Places(c)
    BY <1>2, <2>2, <2>3
  <2>4. CASE i = Len(c) + 1 \/ j = Len(c) + 1
    BY <1>2, <2>1, <2>4
  <2>5. QED
    BY <1>2, <2>3, <2>4
<1>8. g[EndSlot(d)] = NULL
  BY <1>2, <1>5
<1>9. Leads(g, d)
  BY <1>2, <1>6, <1>7, <1>8 DEF Leads
<1>10. QED
  BY <1>9 DEF g

(* d is c with the node at the head unlinked. *)
Shorter(d, c) ==
  /\ d \in Seq(Nodes) /\ Len(d) = Len(c) - 1 /\ Len(c) \in Nat /\ Len(c) >= 1
  /\ \A i \in Places(d) : d[i] = c[i + 1] /\ i + 1 \in Places(c)
  /\ \A i \in 1 .. Len(d) + 1 : Slot(d, i) = IF i = 1 THEN HEAD ELSE Slot(c, i + 1)
  /\ EndSlot(d) = IF Len(c) = 1 THEN HEAD ELSE EndSlot(c)
  /\ \A m \in Nodes : Listed(c, m) <=> m = c[1] \/ Listed(d, m)

LEMMA TailSlots ==
  ASSUME NEW c \in Seq(Nodes), c # <<>>, NEW d, d = Tail(c)
  PROVE  Shorter(d, c)
<1>1. d \in Seq(Nodes) /\ Len(d) = Len(c) - 1 /\ Len(c) \in Nat /\ Len(c) >= 1
  <2>1. d \in Seq(Nodes) /\ Len(d) = Len(c) - 1
    BY HeadTailProperties
  <2>2. QED
    BY <2>1, SlotFacts
<1>2. \A i \in Places(d) : d[i] = c[i + 1] /\ i + 1 \in Places(c)
  <2>1. \A i \in 1 .. Len(d) : d[i] = c[i + 1]
    BY HeadTailProperties
  <2>2. QED
    BY <1>1, <2>1 DEF Places
<1>3. \A i \in 1 .. Len(d) + 1 : Slot(d, i) = IF i = 1 THEN HEAD ELSE Slot(c, i + 1)
  <2> SUFFICES ASSUME NEW i \in 1 .. Len(d) + 1, i # 1 PROVE d[i - 1] = Slot(c, i + 1)
    BY DEF Slot
  <2>1. i - 1 \in Places(d) /\ i + 1 # 1 /\ i + 1 - 1 = i /\ i - 1 + 1 = i
    BY <1>1 DEF Places
  <2>2. d[i - 1] = c[i]
    BY <1>2, <2>1
  <2>3. QED
    BY <2>1, <2>2 DEF Slot
<1>4. EndSlot(d) = IF Len(c) = 1 THEN HEAD ELSE EndSlot(c)
  <2>1. Len(d) + 1 \in 1 .. Len(d) + 1 /\ Len(d) + 1 = Len(c)
    BY <1>1
  <2>2. QED
    BY <1>3, <2>1 DEF EndSlot
<1>5. ASSUME NEW m \in Nodes PROVE Listed(c, m) <=> m = c[1] \/ Listed(d, m)
  <2>1. 1 \in Places(c) /\ \A i \in Places(c) : i = 1 \/ (i - 1 \in Places(d) /\ i - 1 + 1 = i)
    BY <1>1 DEF Places
  <2>2. ASSUME NEW i \in Places(c), c[i] = m PROVE m = c[1] \/ Listed(d, m)
    <3>1. CASE i = 1
      BY <2>2, <3>1
    <3>2. CASE i # 1
      <4>1. i - 1 \in Places(d) /\ d[i - 1] = c[i]
        BY <1>2, <2>1, <3>2
      <4>2. QED
        BY <2>2, <4>1 DEF Listed
    <3>3. QED
      BY <3>1, <3>2
  <2>3. ASSUME NEW i \in Places(d), d[i] = m PROVE Listed(c, m)
    BY <1>2, <2>3 DEF Listed
  <2>4. QED
    BY <2>1, <2>2, <2>3 DEF Listed
<1>6. QED
  BY <1>1, <1>2, <1>3, <1>4, <1>5 DEF Shorter

LEMMA SecondSlot ==
  ASSUME NEW h, NEW c, Leads(h, c), c # <<>>
  PROVE  /\ c[1] \in Nodes /\ h[HEAD] = c[1] /\ 1 \in Places(c)
         /\ c[1] = Slot(c, 2)
         /\ IF Len(c) = 1 THEN h[c[1]] = NULL ELSE 2 \in Places(c) /\ h[c[1]] = c[2] /\ c[2] \in Nodes
<1>1. c \in Seq(Nodes) /\ Len(c) \in Nat /\ Len(c) # 0
  BY SlotFacts DEF Leads
<1>2. 1 \in Places(c) /\ Slot(c, 1) = HEAD /\ Slot(c, 2) = c[1] /\ (Len(c) # 1 => 2 \in Places(c))
  <2>1. 1 \in Places(c) /\ (Len(c) # 1 => 2 \in Places(c))
    <3> DEFINE k == Len(c)
    <3>1. k \in Nat /\ k # 0
      BY <1>1
    <3> HIDE DEF k
    <3>2. 1 \in 1 .. k /\ (k # 1 => 2 \in 1 .. k)
      BY <3>1
    <3>3. QED
      BY <3>2 DEF k, Places
  <2>2. 2 # 1 /\ 2 - 1 = 1
    OBVIOUS
  <2>3. Slot(c, 1) = HEAD /\ Slot(c, 2) = c[1]
    BY <2>2 DEF Slot
  <2>4. QED
    BY <2>1, <2>3
<1>3. \A i \in Places(c) : h[Slot(c, i)] = c[i] /\ c[i] \in Nodes
  BY <1>1, SlotFacts DEF Leads
<1>4. Len(c) = 1 => h[c[1]] = NULL
  BY <1>2 DEF Leads, EndSlot
<1>5. QED
  BY <1>2, <1>3, <1>4

LEMMA LeadsPast ==
  ASSUME NEW h \in [Slots -> Pointers], NEW c, Leads(h, c), c # <<>>,
         NEW d, d = Tail(c)
  PROVE  Leads([h EXCEPT ![HEAD] = h[c[1]]], d)
<1>1. c \in Seq(Nodes) /\ \A i, j \in Places(c) : c[i] = c[j] => i = j
  BY DEF Leads
<1>2. /\ d \in Seq(Nodes) /\ Len(d) = Len(c) - 1 /\ Len(c) \in Nat /\ Len(c) >= 1
      /\ \A i \in Places(d) : d[i] = c[i + 1] /\ i + 1 \in Places(c)
      /\ \A i \in 1 .. Len(d) + 1 : Slot(d, i) = IF i = 1 THEN HEAD ELSE Slot(c, i + 1)
      /\ EndSlot(d) = IF Len(c) = 1 THEN HEAD ELSE EndSlot(c)
  <2>1. Shorter(d, c)
    BY <1>1, TailSlots, Zenon
  <2>2. QED
    BY <2>1 DEF Shorter
<1> DEFINE g == [h EXCEPT ![HEAD] = h[c[1]]]
<1>3. g[HEAD] = h[c[1]] /\ \A s \in Slots : s # HEAD => g[s] = h[s]
  BY Constants
<1> HIDE DEF g
<1>4. IF Len(c) = 1 THEN h[c[1]] = NULL ELSE h[c[1]] = c[2]
  BY SecondSlot
<1>5. ASSUME NEW i \in Places(d) PROVE g[Slot(d, i)] = d[i]
  <2>1. i \in 1 .. Len(d) + 1 /\ i \in Nat /\ i >= 1 /\ d[i] = c[i + 1] /\ i + 1 \in Places(c)
    BY <1>2 DEF Places
  <2>2. CASE i = 1
    <3>1. Len(c) # 1
      BY <1>2, <2>2 DEF Places
    <3>2. QED
      BY <1>2, <1>3, <1>4, <2>1, <2>2, <3>1
  <2>3. CASE i # 1
    <3>1. i + 1 \in 1 .. Len(c) + 1 /\ i + 1 # 1
      BY <1>2, <2>1 DEF Places
    <3>2. Slot(c, i + 1) \in Slots /\ Slot(c, i + 1) # HEAD
      BY <1>1, <3>1, SlotFacts
    <3>3. h[Slot(c, i + 1)] = c[i + 1]
      BY <2>1 DEF Leads
    <3>4. QED
      BY <1>2, <1>3, <2>1, <2>3, <3>2, <3>3
  <2>4. QED
    BY <2>2, <2>3
<1>6. \A i, j \in Places(d) : d[i] = d[j] => i = j
  <2> SUFFICES ASSUME NEW i \in Places(d), NEW j \in Places(d), d[i] = d[j] PROVE i = j
    OBVIOUS
  <2>1. i + 1 = j + 1
    BY <1>1, <1>2
  <2>2. QED
    BY <1>2, <2>1 DEF Places
<1>7. g[EndSlot(d)] = NULL
  <2>1. CASE Len(c) = 1
    BY <1>2, <1>3, <1>4, <2>1
  <2>2. CASE Len(c) # 1
    <3>1. Len(c) + 1 \in 1 .. Len(c) + 1 /\ Len(c) + 1 # 1
      BY <1>2
    <3>2. EndSlot(c) \in Slots /\ EndSlot(c) # HEAD
      BY <1>1, <3>1, SlotFacts DEF EndSlot
    <3>3. h[EndSlot(c)] = NULL
      BY DEF Leads
    <3>4. QED
      BY <1>2, <1>3, <2>2, <3>2, <3>3
  <2>3. QED
    BY <2>1, <2>2
<1>8. Leads(g, d)
  BY <1>2, <1>5, <1>6, <1>7 DEF Leads
<1>9. QED
  BY <1>8 DEF g

-----------------------------------------------------------------------------
(* The steps of the two operations, on the chain c. *)

Core(c) == Typed /\ Alone /\ Shape(c)

LEMMA CoreFacts ==
  ASSUME NEW c, Core(c)
  PROVE  /\ TypeOK /\ c \in Seq(Nodes) /\ Len(c) \in Nat /\ Len(handled) \in Nat
         /\ sent \in Nat
         /\ \A i \in Places(c) : c[i] \in Nodes /\ Listed(c, c[i])
         /\ first # NULL => first \in Nodes /\ first \notin heap
<1>1. TypeOK /\ c \in Seq(Nodes)
  BY DEF Core, Typed, Shape, Leads
<1>2. Len(c) \in Nat /\ \A i \in Places(c) : c[i] \in Nodes
  BY <1>1, SlotFacts
<1>3. Len(handled) \in Nat /\ sent \in Nat
  BY <1>1, LenProperties, Constants DEF TypeOK
<1>4. first # NULL => first \in Nodes /\ first \notin heap
  <2> SUFFICES ASSUME first # NULL PROVE first \in Nodes /\ first \notin heap
    OBVIOUS
  <2>1. first \in Nodes
    BY <1>1, Constants DEF TypeOK
  <2>2. CASE Busy
    <3>1. c # <<>> /\ c[1] = first
      BY <2>2 DEF Core, Shape, FirstNode
    <3>2. 1 \in Places(c)
      BY <1>1, <3>1, SecondSlot DEF Core, Shape
    <3>3. QED
      BY <2>1, <3>1, <3>2 DEF Core, Shape, Accounted
  <2>3. CASE ~Busy
    BY <2>1, <2>3 DEF Busy, Core, Shape, FirstNode
  <2>4. QED
    BY <2>2, <2>3
<1>5. QED
  BY <1>1, <1>2, <1>3, <1>4 DEF Listed

Resting(u) == pc[u] \in {"idle", "handle", "free"} /\ new[u] = NULL

LEMMA OthersRest ==
  ASSUME Typed, Alone, NEW t \in Tasks, Inside(t), NEW u \in Tasks, u # t
  PROVE  Resting(u)
<1>1. ~Inside(u)
  BY Constants DEF Alone
<1>2. QED
  BY <1>1 DEF Typed, Inside, Inserting, Resting

LEMMA EnterAlone ==
  ASSUME Typed, ~Overlap, NEW t \in Tasks, MayEnter(t), ~Inside(t), NEW u \in Tasks
  PROVE  Resting(u)
<1>1. ~Inside(u)
  BY DEF MayEnter
<1>2. QED
  BY <1>1 DEF Typed, Inside, Inserting, Resting

LEMMA AllocateShape ==
  ASSUME NEW c, Core(c), ~Overlap, NEW t \in Tasks, Allocate(t)
  PROVE  Alone' /\ Shape(c)' /\ UNCHANGED Busy /\ \A i \in Places(c) : msg'[c[i]] = msg[c[i]]
<1>0. /\ TypeOK /\ c \in Seq(Nodes) /\ Len(c) \in Nat /\ Len(handled) \in Nat
      /\ sent \in Nat
      /\ \A i \in Places(c) : c[i] \in Nodes /\ Listed(c, c[i])
      /\ first # NULL => first \in Nodes /\ first \notin heap
  BY CoreFacts
<1>1. PICK n \in heap :
        /\ heap' = heap \ {n} /\ new' = [new EXCEPT ![t] = n]
        /\ msg' = [msg EXCEPT ![n] = sent + 1] /\ nxt' = [nxt EXCEPT ![n] = NULL]
  BY DEF Allocate
<1>2. \A u \in Tasks : Resting(u)
  BY EnterAlone DEF Core, Allocate, Inside
<1>3. /\ sent' = sent + 1 /\ UNCHANGED <<prv, last, first, handled>>
      /\ pc[t] = IF t = "loop" THEN "handle" ELSE "idle"
  BY DEF Allocate
<1>4. /\ pc'[t] = "set_prev" /\ \A u \in Tasks : u # t => pc'[u] = pc[u]
  BY <1>0, GotoFacts DEF Allocate, Steps, TypeOK
<1>5. n \in Nodes /\ ~Listed(c, n) /\ n # first
  BY <1>0, <1>1, Constants DEF TypeOK, Core, Shape, Accounted, Listed
<1>6. UNCHANGED Busy
  BY <1>3, <1>4, Constants DEF Busy
<1>7. pc'["loop"] \notin Removing \cup {"link", "set_last"} /\ (pc'["loop"] = "free" => pc["loop"] = "free")
      /\ \A u \in Tasks : pc'[u] \notin {"link", "set_last"}
  BY <1>2, <1>4, Constants DEF Resting, Removing
<1>8. pc["loop"] # "unlink" /\ \A u \in Tasks : pc[u] \notin {"set_prev", "link", "set_last"}
  BY <1>2, Constants DEF Resting
<1>9. Alone'
  BY <1>2, <1>4, Constants DEF Alone, Inside, Resting
<1>10. Leads(nxt, c)'
  BY <1>0, <1>1, <1>5, LeadsStill DEF Core, Shape, TypeOK
<1>11. NewNode(c)'
  <2>1. sent = Len(handled) + Len(c)
    BY <1>8 DEF Core, Shape, Counted
  <2>2. SUFFICES ASSUME NEW u \in Tasks, pc'[u] \in {"set_prev", "link"}
                 PROVE  /\ ~Listed(c, new'[u]) /\ new'[u] \notin heap' /\ new'[u] # first'
                        /\ nxt'[new'[u]] = NULL /\ msg'[new'[u]] = sent'
                        /\ sent' = Len(handled') + Len(c) + 1
    BY DEF NewNode
  <2>3. u = t
    BY <1>4, <1>8, <2>2
  <2>4. new'[u] = n
    BY <1>0, <1>1, <2>3 DEF TypeOK
  <2>5. nxt'[n] = NULL /\ msg'[n] = sent'
    BY <1>0, <1>1, <1>3, <1>5, Constants DEF TypeOK
  <2>6. sent' = Len(handled') + Len(c) + 1
    BY <1>0, <1>3, <1>6, <2>1
  <2>7. QED
    BY <1>1, <1>3, <1>5, <2>4, <2>5, <2>6
<1>12. FirstNode(c)'
  BY <1>1, <1>3, <1>6, <1>7 DEF FirstNode, Core, Shape, Removing
<1>13. Backwards(c)'
  BY <1>3, <1>7, <1>8 DEF Backwards, Core, Shape, Removing
<1>14. LastSlot(c)'
  BY <1>3, <1>7, <1>8 DEF LastSlot, Core, Shape, Removing
<1>15. Accounted(c)'
  <2>1. \A m \in Nodes : \A u \in Tasks : new[u] # m
    BY <1>2, Constants DEF Resting
  <2>2. new'[t] = n
    BY <1>0, <1>1 DEF TypeOK
  <2>3. QED
    BY <1>1, <1>3, <2>1, <2>2 DEF Accounted, Core, Shape
<1>16. Counted(c)'
  BY <1>4 DEF Counted
<1>17. \A i \in Places(c) : msg'[c[i]] = msg[c[i]]
  BY <1>0, <1>1, <1>5 DEF TypeOK
<1>18. QED
  BY <1>6, <1>9, <1>10, <1>11, <1>12, <1>13, <1>14, <1>15, <1>16, <1>17 DEF Shape

LEMMA SetPrevShape ==
  ASSUME NEW c, Core(c), NEW t \in Tasks, SetPrev(t)
  PROVE  Alone' /\ Shape(c)' /\ UNCHANGED Busy
<1>0. /\ TypeOK /\ c \in Seq(Nodes) /\ Len(c) \in Nat
      /\ \A i \in Places(c) : c[i] \in Nodes /\ Listed(c, c[i])
  BY CoreFacts
<1>1. /\ prv' = [prv EXCEPT ![new[t]] = last] /\ pc[t] = "set_prev"
      /\ UNCHANGED <<nxt, last, msg, heap, new, first, sent, handled>>
  BY DEF SetPrev
<1>2. \A u \in Tasks : u # t => Resting(u)
  BY <1>1, OthersRest DEF Core, Inside
<1>3. /\ pc'[t] = "link" /\ \A u \in Tasks : u # t => pc'[u] = pc[u]
  BY <1>0, GotoFacts DEF SetPrev, Steps, TypeOK
<1>4. UNCHANGED Busy
  BY <1>1, <1>3, Constants DEF Busy
<1>5. /\ pc["loop"] # "unlink" /\ pc'["loop"] \notin Removing
      /\ pc'["loop"] = "free" => pc["loop"] = "free"
      /\ \A u \in Tasks : pc[u] # "set_last" /\ pc'[u] # "set_last" /\ (pc'[u] = "link" => u = t)
  BY <1>1, <1>2, <1>3, Constants DEF Resting, Removing
<1>6. new[t] \in Nodes /\ ~Listed(c, new[t])
  BY <1>0, <1>1, Constants DEF Core, Typed, TypeOK, Inserting, Shape, NewNode
<1>7. Alone'
  BY <1>2, <1>3, Constants DEF Alone, Inside, Resting
<1>8. NewNode(c)'
  BY <1>1, <1>2, <1>3, <1>4 DEF NewNode, Core, Shape, Resting
<1>9. FirstNode(c)'
  BY <1>1, <1>4, <1>5 DEF FirstNode, Core, Shape, Removing
<1>10. Backwards(c)'
  <2>1. last = EndSlot(c)
    BY <1>5 DEF Core, Shape, LastSlot
  <2>2. prv'[new[t]] = EndSlot(c)
    BY <1>0, <1>1, <1>6, <2>1 DEF TypeOK
  <2>3. \A i \in Places(c) : prv'[c[i]] = prv[c[i]]
    BY <1>0, <1>1, <1>6 DEF TypeOK
  <2>4. QED
    BY <1>1, <1>5, <2>2, <2>3 DEF Backwards, Core, Shape, Removing
<1>11. LastSlot(c)'
  BY <1>1, <1>5 DEF LastSlot, Core, Shape, Removing
<1>12. Leads(nxt, c)' /\ Accounted(c)'
  BY <1>1 DEF Leads, Accounted, Core, Shape
<1>13. Counted(c)'
  BY <1>3 DEF Counted
<1>14. QED
  BY <1>4, <1>7, <1>8, <1>9, <1>10, <1>11, <1>12, <1>13 DEF Shape

LEMMA LinkShape ==
  ASSUME NEW c, Core(c), NEW t \in Tasks, Link(t), NEW d, d = Append(c, new[t])
  PROVE  /\ Alone' /\ Shape(d)' /\ UNCHANGED Busy /\ new[t] \in Nodes
         /\ msg[new[t]] = Len(handled) + Len(c) + 1
<1>0. /\ TypeOK /\ c \in Seq(Nodes) /\ Len(c) \in Nat /\ Len(handled) \in Nat
      /\ sent \in Nat
      /\ \A i \in Places(c) : c[i] \in Nodes /\ Listed(c, c[i])
  BY CoreFacts
<1>1. /\ nxt' = [nxt EXCEPT ![last] = new[t]] /\ pc[t] = "link"
      /\ UNCHANGED <<prv, last, msg, heap, new, first, sent, handled>>
  BY DEF Link
<1>2. \A u \in Tasks : u # t => Resting(u)
  BY <1>1, OthersRest DEF Core, Inside
<1>3. /\ pc'[t] = "set_last" /\ \A u \in Tasks : u # t => pc'[u] = pc[u]
  BY <1>0, GotoFacts DEF Link, Steps, TypeOK
<1>4. UNCHANGED Busy
  BY <1>1, <1>3, Constants DEF Busy
<1>5. /\ pc["loop"] # "unlink" /\ pc'["loop"] \notin Removing
      /\ pc'["loop"] = "free" => pc["loop"] = "free"
      /\ \A u \in Tasks : /\ pc[u] # "set_last" /\ pc'[u] \notin {"set_prev", "link"}
                          /\ pc'[u] = "set_last" => u = t
  BY <1>1, <1>2, <1>3, Constants DEF Resting, Removing
<1> DEFINE n == new[t]
<1>6. /\ n \in Nodes /\ ~Listed(c, n) /\ n \notin heap /\ n # first
      /\ nxt[n] = NULL /\ msg[n] = sent
      /\ sent = Len(handled) + Len(c) + 1
      /\ prv[n] = EndSlot(c)
  <2>1. n \in Nodes
    BY <1>0, <1>1, Constants DEF Core, Typed, TypeOK, Inserting
  <2>2. QED
    BY <1>1, <2>1 DEF Core, Shape, NewNode, Backwards
<1>7. last = EndSlot(c)
  BY <1>5 DEF Core, Shape, LastSlot
<1> HIDE DEF n
<1>8. Longer(d, c, n)
  BY <1>0, <1>6, AppendSlots, Zenon DEF n
<1>9. /\ d \in Seq(Nodes) /\ Len(d) = Len(c) + 1
      /\ \A i \in Places(c) : d[i] = c[i]
      /\ d[Len(c) + 1] = n
      /\ \A i \in 1 .. Len(c) + 1 : Slot(d, i) = Slot(c, i)
      /\ EndSlot(d) = n
      /\ \A i \in Places(d) : i \in Places(c) \/ i = Len(c) + 1
      /\ \A m \in Nodes : Listed(d, m) <=> Listed(c, m) \/ m = n
  BY <1>8 DEF Longer
<1>10. d # <<>> /\ Len(c) + 1 \in 1 .. Len(c) + 1 /\ \A i \in Places(c) : i \in 1 .. Len(c) + 1
  <2>1. Len(d) # 0
    BY <1>0, <1>9
  <2>2. QED
    BY <1>0, <1>9, <2>1, EmptySeq DEF Places
<1>11. Alone'
  BY <1>2, <1>3, Constants DEF Alone, Inside, Resting
<1>12. Leads(nxt, d)'
  <2>1. nxt' = [nxt EXCEPT ![EndSlot(c)] = n] /\ nxt \in [Slots -> Pointers] /\ Leads(nxt, c)
    BY <1>0, <1>1, <1>7 DEF TypeOK, Core, Shape, n
  <2>2. d = Append(c, n)
    BY DEF n
  <2>3. Leads([nxt EXCEPT ![EndSlot(c)] = n], d)
    BY <1>6, <2>1, <2>2, LeadsOn, Zenon
  <2>4. QED
    BY <2>1, <2>3
<1>13. NewNode(d)'
  BY <1>5 DEF NewNode
<1>14. FirstNode(d)'
  <2>1. Busy => d # <<>> /\ d[1] = first
    <3>1. SUFFICES ASSUME Busy PROVE d[1] = first
      BY <1>10
    <3>2. c # <<>> /\ c[1] = first
      BY <3>1 DEF Core, Shape, FirstNode
    <3>3. 1 \in Places(c)
      BY <1>0, <3>2, SecondSlot DEF Core, Shape
    <3>4. QED
      BY <1>9, <3>2, <3>3
  <2>2. pc["loop"] = "free" => ~Listed(d, first) /\ first \notin heap
    <3>1. SUFFICES ASSUME pc["loop"] = "free" PROVE ~Listed(d, first) /\ first \notin heap
      OBVIOUS
    <3>2. first \in Nodes
      BY <1>0, <3>1, Constants DEF Core, Typed, TypeOK
    <3>3. QED
      BY <1>6, <1>9, <3>1, <3>2 DEF Core, Shape, FirstNode
  <2>3. QED
    BY <1>1, <1>4, <1>5, <2>1, <2>2 DEF FirstNode, Removing
<1>15. Backwards(d)'
  <2>1. pc'["loop"] # "unlink" /\ pc["loop"] # "unlink"
    BY <1>5 DEF Removing
  <2>2. ASSUME NEW i \in Places(d) PROVE prv[d[i]] = Slot(d, i)
    <3>1. CASE i \in Places(c)
      <4>1. prv[c[i]] = Slot(c, i)
        BY <2>1, <3>1 DEF Core, Shape, Backwards
      <4>2. QED
        BY <1>9, <1>10, <3>1, <4>1
    <3>2. CASE i = Len(c) + 1
      BY <1>6, <1>9, <1>10, <3>2 DEF EndSlot
    <3>3. QED
      BY <1>9, <3>1, <3>2
  <2>3. QED
    BY <1>1, <1>5, <2>1, <2>2 DEF Backwards
<1>16. LastSlot(d)'
  <2>1. Slot(d, Len(d)) = EndSlot(c) /\ d[Len(d)] = n
    BY <1>9, <1>10 DEF EndSlot
  <2>2. QED
    BY <1>1, <1>3, <1>5, <1>7, <1>10, <2>1 DEF LastSlot, Removing, n
<1>17. Accounted(d)'
  <2>1. \A i \in Places(d) : d[i] \notin heap
    BY <1>6, <1>9 DEF Core, Shape, Accounted
  <2>2. ASSUME NEW m \in Nodes PROVE m \in heap \/ Listed(d, m) \/ m = first \/ \E u \in Tasks : new[u] = m
    BY <1>9 DEF Core, Shape, Accounted
  <2>3. QED
    BY <1>1, <2>1, <2>2 DEF Accounted
<1>18. Counted(d)'
  <2>1. sent = Len(handled) + Len(d)
    BY <1>0, <1>6, <1>9
  <2>2. QED
    BY <1>1, <1>4, <2>1 DEF Counted
<1>19. Shape(d)'
  BY <1>12, <1>13, <1>14, <1>15, <1>16, <1>17, <1>18 DEF Shape
<1>20. QED
  BY <1>4, <1>6, <1>11, <1>19 DEF n

LEMMA SetLastShape ==
  ASSUME NEW c, Core(c), NEW t \in Tasks, SetLast(t)
  PROVE  Alone' /\ Shape(c)' /\ UNCHANGED Busy
<1>0. /\ TypeOK /\ c \in Seq(Nodes) /\ Len(c) \in Nat
  BY CoreFacts
<1>1. /\ last' = new[t] /\ new' = [new EXCEPT ![t] = NULL] /\ pc[t] = "set_last"
      /\ UNCHANGED <<nxt, prv, msg, heap, first, sent, handled>>
  BY DEF SetLast
<1>2. \A u \in Tasks : u # t => Resting(u)
  BY <1>1, OthersRest DEF Core, Inside
<1> DEFINE step == IF t = "loop" THEN "handle" ELSE "idle"
<1>3. /\ pc'[t] = step /\ \A u \in Tasks : u # t => pc'[u] = pc[u]
  <2>1. Goto(t, step) /\ step \in Steps
    BY DEF SetLast, Steps
  <2> HIDE DEF step
  <2>2. QED
    BY <1>0, <2>1, GotoFacts DEF Steps, TypeOK
<1>4. \A u \in Tasks : pc'[u] \in {"idle", "handle", "free"}
  BY <1>2, <1>3 DEF Resting
<1>5. /\ pc["loop"] # "unlink"
      /\ pc'["loop"] = "free" <=> pc["loop"] = "free"
      /\ \A u \in Tasks : pc[u] \notin {"set_prev", "link"}
  BY <1>1, <1>2, <1>3, Constants DEF Resting
<1>6. UNCHANGED Busy
  BY <1>1, <1>5 DEF Busy
<1>7. c # <<>> /\ c[Len(c)] = new[t]
  BY <1>1 DEF Core, Shape, LastSlot
<1>8. EndSlot(c) = new[t] /\ Listed(c, new[t])
  <2>1. Len(c) # 0
    BY <1>0, <1>7, SlotFacts
  <2>2. Len(c) \in Places(c) /\ Len(c) + 1 # 1 /\ Len(c) + 1 - 1 = Len(c)
    BY <1>0, <2>1 DEF Places
  <2>3. QED
    BY <1>7, <2>2 DEF EndSlot, Slot, Listed
<1>9. Alone'
  BY <1>4, Constants DEF Alone, Inside
<1>10. NewNode(c)'
  BY <1>4 DEF NewNode
<1>11. FirstNode(c)'
  BY <1>1, <1>4, <1>5, <1>6, Constants DEF FirstNode, Core, Shape
<1>12. Backwards(c)'
  BY <1>1, <1>4, <1>5, Constants DEF Backwards, Core, Shape
<1>13. LastSlot(c)'
  BY <1>1, <1>4, <1>8, Constants DEF LastSlot
<1>14. Accounted(c)'
  <2>1. ASSUME NEW m \in Nodes
        PROVE  m \in heap \/ Listed(c, m) \/ m = first \/ \E u \in Tasks : new'[u] = m
    BY <1>0, <1>1, <1>8 DEF Core, Shape, Accounted, TypeOK
  <2>2. QED
    BY <1>1, <2>1 DEF Accounted, Core, Shape
<1>15. Counted(c)'
  BY <1>1, <1>5, <1>6 DEF Counted, Core, Shape
<1>16. Leads(nxt, c)'
  BY <1>1 DEF Leads, Core, Shape
<1>17. QED
  BY <1>6, <1>9, <1>10, <1>11, <1>12, <1>13, <1>14, <1>15, <1>16 DEF Shape

LEMMA PeekShape ==
  ASSUME NEW c, Core(c), ~Overlap, Peek
  PROVE  Alone' /\ Shape(c)' /\ ~Busy /\ Busy' /\ c # <<>>
<1>0. /\ TypeOK /\ c \in Seq(Nodes) /\ Len(c) \in Nat /\ Len(handled) \in Nat
      /\ sent \in Nat
  BY CoreFacts
<1>1. /\ pc["loop"] = "idle" /\ nxt[HEAD] # NULL /\ first' = nxt[HEAD]
      /\ UNCHANGED <<nxt, prv, last, msg, heap, new, sent, handled>>
  BY DEF Peek
<1>2. \A u \in Tasks : Resting(u)
  BY <1>1, EnterAlone, Constants DEF Core, Peek, Inside
<1>3. pc'["loop"] = "handle" /\ \A u \in Tasks : u # "loop" => pc'[u] = pc[u]
  BY <1>0, GotoFacts, Constants DEF Peek, Steps, TypeOK
<1>4. /\ \A u \in Tasks : pc'[u] \in {"idle", "handle", "free"}
      /\ pc["loop"] # "unlink"
      /\ \A u \in Tasks : pc[u] \notin {"set_prev", "link", "set_last"}
  BY <1>1, <1>2, <1>3 DEF Resting
<1>5. first = NULL /\ ~Busy
  BY <1>1 DEF Core, Typed, Busy
<1>6. c # <<>>
  <2>1. SUFFICES ASSUME c = <<>> PROVE FALSE
    OBVIOUS
  <2>2. Len(c) + 1 = 1
    BY <1>0, <2>1, SlotFacts
  <2>3. EndSlot(c) = HEAD
    BY <2>2 DEF EndSlot, Slot
  <2>4. QED
    BY <1>1, <2>3 DEF Core, Shape, Leads
<1>7. c[1] \in Nodes /\ nxt[HEAD] = c[1]
  BY <1>6, SecondSlot DEF Core, Shape
<1>8. Busy' /\ first' = c[1]
  BY <1>1, <1>3, <1>7, Constants DEF Busy
<1>10. Alone'
  BY <1>4, Constants DEF Alone, Inside
<1>11. NewNode(c)'
  BY <1>4 DEF NewNode
<1>12. FirstNode(c)'
  BY <1>3, <1>6, <1>8 DEF FirstNode
<1>13. Backwards(c)'
  BY <1>1, <1>4, Constants DEF Backwards, Core, Shape
<1>14. LastSlot(c)'
  BY <1>1, <1>4, Constants DEF LastSlot, Core, Shape
<1>15. Accounted(c)'
  <2>1. \A m \in Nodes : m # first
    BY <1>5, Constants
  <2>2. QED
    BY <1>1, <2>1 DEF Accounted, Core, Shape
<1>16. Counted(c)'
  BY <1>1, <1>4 DEF Counted, Core, Shape
<1>17. Leads(nxt, c)'
  BY <1>1 DEF Leads, Core, Shape
<1>18. QED
  BY <1>5, <1>6, <1>8, <1>10, <1>11, <1>12, <1>13, <1>14, <1>15, <1>16, <1>17 DEF Shape

(* Before Unlink the loop handles the node at the head. *)
LEMMA AtHead ==
  ASSUME NEW c, Core(c), pc["loop"] \in Removing \cup {"handle"}
  PROVE  /\ Busy /\ c # <<>> /\ c[1] = first /\ first \in Nodes /\ prv[first] = HEAD
         /\ 1 \in Places(c) /\ nxt[HEAD] = first /\ Len(c) \in Nat
         /\ IF Len(c) = 1 THEN nxt[first] = NULL
            ELSE 2 \in Places(c) /\ nxt[first] = c[2] /\ c[2] \in Nodes
<1>1. Busy
  BY DEF Core, Typed, Busy, Removing
<1>2. c # <<>> /\ c[1] = first
  BY <1>1 DEF Core, Shape, FirstNode
<1>3. Leads(nxt, c)
  BY DEF Core, Shape
<1>4. /\ first \in Nodes /\ nxt[HEAD] = first /\ 1 \in Places(c)
      /\ IF Len(c) = 1 THEN nxt[first] = NULL
         ELSE 2 \in Places(c) /\ nxt[first] = c[2] /\ c[2] \in Nodes
  BY <1>2, <1>3, SecondSlot
<1>5. prv[first] = HEAD
  <2>1. prv[c[1]] = Slot(c, 1)
    BY <1>4 DEF Core, Shape, Backwards
  <2>2. QED
    BY <1>2, <2>1 DEF Slot
<1>6. QED
  BY <1>1, <1>2, <1>4, <1>5, CoreFacts

LEMMA RefuseShape ==
  ASSUME NEW c, Core(c), Refuse
  PROVE  Alone' /\ Shape(c)' /\ Busy /\ ~Busy'
<1>0. /\ TypeOK /\ c \in Seq(Nodes) /\ Len(c) \in Nat
      /\ \A i \in Places(c) : c[i] \in Nodes /\ Listed(c, c[i])
  BY CoreFacts
<1>1. /\ pc["loop"] = "handle" /\ first' = NULL
      /\ UNCHANGED <<nxt, prv, last, msg, heap, new, sent, handled>>
  BY DEF Refuse
<1>2. pc'["loop"] = "idle" /\ \A u \in Tasks : u # "loop" => pc'[u] = pc[u]
  BY <1>0, GotoFacts, Constants DEF Refuse, Steps, TypeOK
<1>3. /\ pc["loop"] # "unlink" /\ pc'["loop"] # "unlink"
      /\ \A u \in Tasks : \A s \in {"set_prev", "link", "set_last"} : pc'[u] = s <=> pc[u] = s
  BY <1>1, <1>2
<1>4. Busy /\ ~Busy' /\ c[1] = first /\ 1 \in Places(c)
  BY <1>1, AtHead DEF Busy
<1>5. Listed(c, first)
  BY <1>4 DEF Listed
<1>6. Alone'
  BY <1>2 DEF Alone, Inside
<1>7. NewNode(c)'
  <2>1. SUFFICES ASSUME NEW u \in Tasks, pc[u] \in {"set_prev", "link"}
                 PROVE  /\ ~Listed(c, new[u]) /\ new[u] \notin heap /\ new[u] # first'
                        /\ nxt[new[u]] = NULL /\ msg[new[u]] = sent
                        /\ sent = Len(handled) + Len(c) + 1
    BY <1>1, <1>3 DEF NewNode
  <2>2. new[u] # NULL
    BY <2>1 DEF Core, Typed, Inserting
  <2>3. QED
    BY <1>1, <2>1, <2>2 DEF Core, Shape, NewNode
<1>8. FirstNode(c)'
  BY <1>2, <1>4 DEF FirstNode
<1>9. Backwards(c)'
  BY <1>1, <1>3 DEF Backwards, Core, Shape
<1>10. LastSlot(c)'
  BY <1>1, <1>3 DEF LastSlot, Core, Shape
<1>11. Accounted(c)'
  BY <1>0, <1>1, <1>5 DEF Accounted, Core, Shape
<1>12. Counted(c)'
  BY <1>1, <1>3 DEF Counted, Core, Shape
<1>13. Leads(nxt, c)'
  BY <1>1 DEF Leads, Core, Shape
<1>14. QED
  BY <1>4, <1>6, <1>7, <1>8, <1>9, <1>10, <1>11, <1>12, <1>13 DEF Shape

LEMMA TestNextShape ==
  ASSUME NEW c, Core(c), ~Overlap, TestNext
  PROVE  Alone' /\ Shape(c)' /\ UNCHANGED Busy
<1>0. /\ TypeOK /\ c \in Seq(Nodes) /\ Len(c) \in Nat
  BY CoreFacts
<1>1. /\ pc["loop"] = "handle"
      /\ UNCHANGED <<nxt, prv, last, msg, heap, new, first, sent, handled>>
  BY DEF TestNext
<1>2. \A u \in Tasks : Resting(u)
  BY <1>1, EnterAlone, Constants DEF Core, TestNext, Inside
<1> DEFINE step == IF nxt[first] # NULL THEN "next_prev" ELSE "last_prev"
<1>3. pc'["loop"] = step /\ \A u \in Tasks : u # "loop" => pc'[u] = pc[u]
  <2>1. Goto("loop", step) /\ step \in Steps
    BY DEF TestNext, Steps
  <2> HIDE DEF step
  <2>2. QED
    BY <1>0, <2>1, GotoFacts, Constants DEF Steps, TypeOK
<1>4. /\ Busy /\ c # <<>> /\ c[1] = first /\ 1 \in Places(c)
      /\ IF Len(c) = 1 THEN nxt[first] = NULL
         ELSE 2 \in Places(c) /\ nxt[first] = c[2] /\ c[2] \in Nodes
  BY <1>1, AtHead
<1>5. IF Len(c) = 1 THEN step = "last_prev" ELSE step = "next_prev" /\ Len(c) > 1
  BY <1>0, <1>4, Constants DEF Places
<1> HIDE DEF step
<1>6. /\ \A u \in Tasks : pc'[u] \notin {"set_prev", "link", "set_last", "unlink", "free"} \/ u # "loop"
      /\ \A u \in Tasks : /\ pc[u] \notin {"set_prev", "link", "set_last", "unlink"}
                          /\ pc'[u] \notin {"set_prev", "link", "set_last", "unlink"}
      /\ pc'["loop"] # "free"
  BY <1>2, <1>3, <1>5 DEF Resting
<1>7. UNCHANGED Busy
  BY <1>1, <1>6 DEF Busy
<1>8. Alone'
  BY <1>2, <1>3, Constants DEF Alone, Inside, Resting
<1>9. NewNode(c)'
  BY <1>6 DEF NewNode
<1>10. FirstNode(c)'
  BY <1>1, <1>3, <1>4, <1>5, <1>6 DEF FirstNode
<1>11. Backwards(c)'
  BY <1>1, <1>6, Constants DEF Backwards, Core, Shape
<1>12. LastSlot(c)'
  BY <1>1, <1>6, Constants DEF LastSlot, Core, Shape
<1>13. Leads(nxt, c)' /\ Accounted(c)'
  BY <1>1 DEF Leads, Accounted, Core, Shape
<1>14. Counted(c)'
  BY <1>1, <1>6, <1>7 DEF Counted, Core, Shape
<1>15. QED
  BY <1>7, <1>8, <1>9, <1>10, <1>11, <1>12, <1>13, <1>14 DEF Shape

LEMMA PassBackShape ==
  ASSUME NEW c, Core(c), PassBack
  PROVE  Alone' /\ Shape(c)' /\ UNCHANGED Busy
<1>0. /\ TypeOK /\ c \in Seq(Nodes) /\ Len(c) \in Nat
      /\ \A i \in Places(c) : c[i] \in Nodes
  BY CoreFacts
<1>1. /\ pc["loop"] \in {"next_prev", "last_prev"}
      /\ UNCHANGED <<nxt, msg, heap, new, first, sent, handled>>
  BY DEF PassBack
<1>2. \A u \in Tasks : u # "loop" => Resting(u)
  BY <1>1, OthersRest, Constants DEF Core, Inside
<1>3. pc'["loop"] = "unlink" /\ \A u \in Tasks : u # "loop" => pc'[u] = pc[u]
  BY <1>0, GotoFacts, Constants DEF PassBack, Steps, TypeOK
<1>4. /\ Busy /\ c # <<>> /\ c[1] = first /\ 1 \in Places(c) /\ prv[first] = HEAD
      /\ IF Len(c) = 1 THEN nxt[first] = NULL
         ELSE 2 \in Places(c) /\ nxt[first] = c[2] /\ c[2] \in Nodes
  BY <1>1, AtHead DEF Removing
<1>5. \A u \in Tasks : /\ pc[u] \notin {"set_prev", "link", "set_last"}
                       /\ pc'[u] \notin {"set_prev", "link", "set_last"}
  BY <1>1, <1>2, <1>3 DEF Resting
<1>6. UNCHANGED Busy
  BY <1>1, <1>3 DEF Busy
<1>7. Alone'
  BY <1>2, <1>3, Constants DEF Alone, Inside, Resting
<1>8. NewNode(c)'
  BY <1>5 DEF NewNode
<1>9. FirstNode(c)'
  BY <1>1, <1>3, <1>4 DEF FirstNode
<1>10. last = EndSlot(c) /\ \A i \in Places(c) : prv[c[i]] = Slot(c, i)
  BY <1>1, <1>5 DEF Core, Shape, LastSlot, Backwards
<1>11. Backwards(c)' /\ LastSlot(c)'
  <2>1. CASE pc["loop"] = "next_prev"
    <3>1. Len(c) > 1
      BY <2>1 DEF Core, Shape, FirstNode
    <3>2. Len(c) # 1
      <4> DEFINE k == Len(c)
      <4>1. k > 1
        BY <3>1
      <4> HIDE DEF k
      <4>2. k # 1
        BY <4>1
      <4>3. QED
        BY <4>2 DEF k
    <3>3. prv' = [prv EXCEPT ![c[2]] = HEAD] /\ last' = last
      BY <1>4, <2>1, <3>2 DEF PassBack
    <3>4. prv'[c[2]] = HEAD /\ \A m \in Nodes : m # c[2] => prv'[m] = prv[m]
      BY <1>0, <1>4, <3>2, <3>3 DEF TypeOK
    <3>5. \A i \in Places(c) : c[i] = c[2] => i = 2
      BY <1>4, <3>2 DEF Core, Shape, Leads
    <3>6. \A i \in Places(c) : prv'[c[i]] = IF i = 2 THEN HEAD ELSE Slot(c, i)
      BY <1>0, <1>10, <3>4, <3>5
    <3>7. QED
      BY <1>3, <1>5, <1>10, <3>2, <3>3, <3>6 DEF Backwards, LastSlot
  <2>2. CASE pc["loop"] = "last_prev"
    <3>1. Len(c) = 1
      BY <2>2 DEF Core, Shape, FirstNode
    <3>2. last' = HEAD /\ prv' = prv
      BY <1>4, <2>2 DEF PassBack
    <3>3. 2 \notin Places(c)
      BY <3>1 DEF Places
    <3>4. QED
      BY <1>3, <1>5, <1>10, <3>1, <3>2, <3>3 DEF Backwards, LastSlot
  <2>3. QED
    BY <1>1, <2>1, <2>2
<1>12. Leads(nxt, c)' /\ Accounted(c)'
  BY <1>1 DEF Leads, Accounted, Core, Shape
<1>13. Counted(c)'
  BY <1>1, <1>5, <1>6 DEF Counted, Core, Shape
<1>14. QED
  BY <1>6, <1>7, <1>8, <1>9, <1>11, <1>12, <1>13 DEF Shape

LEMMA UnlinkShape ==
  ASSUME NEW c, Core(c), Unlink, NEW d, d = Tail(c)
  PROVE  /\ Alone' /\ Shape(d)' /\ Busy /\ ~Busy' /\ c # <<>>
         /\ handled' = Append(handled, msg[c[1]])
<1>0. /\ TypeOK /\ c \in Seq(Nodes) /\ Len(c) \in Nat /\ Len(handled) \in Nat /\ sent \in Nat
      /\ \A i \in Places(c) : c[i] \in Nodes
      /\ first # NULL => first \in Nodes /\ first \notin heap
  BY CoreFacts
<1>1. /\ pc["loop"] = "unlink" /\ nxt' = [nxt EXCEPT ![prv[first]] = nxt[first]]
      /\ handled' = Append(handled, msg[first])
      /\ UNCHANGED <<prv, last, msg, heap, new, first, sent>>
  BY DEF Unlink
<1>2. \A u \in Tasks : u # "loop" => Resting(u)
  BY <1>1, OthersRest, Constants DEF Core, Inside
<1>3. pc'["loop"] = "free" /\ \A u \in Tasks : u # "loop" => pc'[u] = pc[u]
  BY <1>0, GotoFacts, Constants DEF Unlink, Steps, TypeOK
<1>4. /\ Busy /\ c # <<>> /\ c[1] = first /\ 1 \in Places(c) /\ prv[first] = HEAD
      /\ first \in Nodes
  BY <1>1, AtHead DEF Removing
<1>5. Shorter(d, c)
  BY <1>0, <1>4, TailSlots, Zenon
<1>6. /\ d \in Seq(Nodes) /\ Len(d) = Len(c) - 1 /\ Len(c) >= 1
      /\ \A i \in Places(d) : d[i] = c[i + 1] /\ i + 1 \in Places(c)
      /\ \A i \in 1 .. Len(d) + 1 : Slot(d, i) = IF i = 1 THEN HEAD ELSE Slot(c, i + 1)
      /\ EndSlot(d) = IF Len(c) = 1 THEN HEAD ELSE EndSlot(c)
      /\ \A m \in Nodes : Listed(c, m) <=> m = c[1] \/ Listed(d, m)
  BY <1>5 DEF Shorter
<1>7. \A u \in Tasks : /\ pc[u] \notin {"set_prev", "link", "set_last"}
                       /\ pc'[u] \notin {"set_prev", "link", "set_last", "unlink"}
  BY <1>1, <1>2, <1>3 DEF Resting
<1>8. ~Busy'
  BY <1>3 DEF Busy
<1>9. Alone'
  BY <1>3, Constants DEF Alone, Inside
<1>10. NewNode(d)'
  BY <1>7 DEF NewNode
<1>11. Leads(nxt, d)'
  <2>1. nxt' = [nxt EXCEPT ![HEAD] = nxt[c[1]]] /\ nxt \in [Slots -> Pointers] /\ Leads(nxt, c)
    BY <1>0, <1>1, <1>4 DEF TypeOK, Core, Shape
  <2>2. Leads([nxt EXCEPT ![HEAD] = nxt[c[1]]], d)
    BY <1>4, <2>1, LeadsPast, Zenon
  <2>3. QED
    BY <2>1, <2>2
<1>12. FirstNode(d)'
  <2>1. ~Listed(d, first)
    <3>1. SUFFICES ASSUME NEW i \in Places(d), d[i] = first PROVE FALSE
      BY DEF Listed
    <3>2. i + 1 \in Places(c) /\ c[i + 1] = c[1]
      BY <1>4, <1>6, <3>1
    <3>3. i + 1 = 1
      BY <1>4, <3>2 DEF Core, Shape, Leads
    <3>4. i \in Nat /\ i >= 1
      BY <1>0, <1>6 DEF Places
    <3>5. QED
      BY <3>3, <3>4
  <2>2. first \notin heap
    BY <1>0, <1>4, Constants
  <2>3. QED
    BY <1>1, <1>3, <1>8, <2>1, <2>2 DEF FirstNode
<1>13. Backwards(d)'
  <2>1. ASSUME NEW i \in Places(d) PROVE prv[d[i]] = Slot(d, i)
    <3>1. i \in 1 .. Len(d) + 1 /\ i \in Nat /\ i >= 1
      BY <1>0, <1>6 DEF Places
    <3>2. prv[c[i + 1]] = IF i + 1 = 2 THEN HEAD ELSE Slot(c, i + 1)
      BY <1>1, <1>6 DEF Core, Shape, Backwards
    <3>3. i + 1 = 2 <=> i = 1
      BY <3>1
    <3>4. d[i] = c[i + 1] /\ Slot(d, i) = IF i = 1 THEN HEAD ELSE Slot(c, i + 1)
      BY <1>6, <3>1, <2>1
    <3>5. QED
      BY <3>2, <3>3, <3>4, Zenon
  <2>2. QED
    BY <1>1, <1>7, <2>1, Constants DEF Backwards
<1>14. LastSlot(d)'
  <2>1. last = EndSlot(d)
    BY <1>1, <1>6 DEF Core, Shape, LastSlot
  <2>2. QED
    BY <1>1, <1>7, <2>1, Constants DEF LastSlot
<1>15. Accounted(d)'
  <2>1. \A i \in Places(d) : d[i] \notin heap
    BY <1>6 DEF Core, Shape, Accounted
  <2>2. ASSUME NEW m \in Nodes PROVE m \in heap \/ Listed(d, m) \/ m = first \/ \E u \in Tasks : new[u] = m
    BY <1>4, <1>6 DEF Core, Shape, Accounted
  <2>3. QED
    BY <1>1, <2>1, <2>2 DEF Accounted
<1>16. Counted(d)'
  <2>1. sent = Len(handled) + Len(c)
    BY <1>7 DEF Core, Shape, Counted
  <2>2. Len(handled') = Len(handled) + 1
    <3>1. msg[first] \in 0 .. MaxMsgs /\ msg[first] # 0
      BY <1>0, <1>4, Constants DEF Core, Typed, TypeOK
    <3>2. msg[first] \in 1 .. MaxMsgs
      BY <3>1, Constants
    <3>3. handled \in Seq(1 .. MaxMsgs)
      BY <1>0 DEF TypeOK
    <3>4. QED
      BY <1>1, <3>2, <3>3, AppendFacts
  <2>3. sent' = Len(handled') + Len(d)
    BY <1>0, <1>1, <1>6, <2>1, <2>2
  <2>4. QED
    BY <2>3 DEF Counted
<1>17. Shape(d)'
  BY <1>10, <1>11, <1>12, <1>13, <1>14, <1>15, <1>16 DEF Shape
<1>18. QED
  BY <1>1, <1>4, <1>8, <1>9, <1>17

LEMMA FreeShape ==
  ASSUME NEW c, Core(c), Free
  PROVE  Alone' /\ Shape(c)' /\ UNCHANGED Busy
<1>0. /\ TypeOK /\ c \in Seq(Nodes) /\ Len(c) \in Nat
      /\ \A i \in Places(c) : c[i] \in Nodes /\ Listed(c, c[i])
  BY CoreFacts
<1>1. /\ pc["loop"] = "free" /\ heap' = heap \cup {first} /\ first' = NULL
      /\ UNCHANGED <<nxt, prv, last, msg, new, sent, handled>>
  BY DEF Free
<1>2. pc'["loop"] = "idle" /\ \A u \in Tasks : u # "loop" => pc'[u] = pc[u]
  BY <1>0, GotoFacts, Constants DEF Free, Steps, TypeOK
<1>3. /\ pc["loop"] # "unlink" /\ pc'["loop"] # "unlink"
      /\ \A u \in Tasks : \A s \in {"set_prev", "link", "set_last"} : pc'[u] = s <=> pc[u] = s
  BY <1>1, <1>2
<1>4. UNCHANGED Busy /\ ~Busy'
  BY <1>1, <1>2 DEF Busy
<1>5. ~Listed(c, first)
  BY <1>1 DEF Core, Shape, FirstNode
<1>6. Alone'
  BY <1>2 DEF Alone, Inside
<1>7. NewNode(c)'
  <2>1. SUFFICES ASSUME NEW u \in Tasks, pc[u] \in {"set_prev", "link"}
                 PROVE  /\ ~Listed(c, new[u]) /\ new[u] \notin heap' /\ new[u] # first'
                        /\ nxt[new[u]] = NULL /\ msg[new[u]] = sent
                        /\ sent = Len(handled) + Len(c) + 1
    BY <1>1, <1>3, <1>4 DEF NewNode
  <2>2. new[u] # NULL
    BY <2>1 DEF Core, Typed, Inserting
  <2>3. QED
    BY <1>1, <2>1, <2>2 DEF Core, Shape, NewNode
<1>8. FirstNode(c)'
  BY <1>2, <1>4 DEF FirstNode
<1>9. Backwards(c)'
  BY <1>1, <1>3 DEF Backwards, Core, Shape
<1>10. LastSlot(c)'
  BY <1>1, <1>3 DEF LastSlot, Core, Shape
<1>11. Accounted(c)'
  BY <1>0, <1>1, <1>5 DEF Accounted, Core, Shape
<1>12. Counted(c)'
  BY <1>1, <1>3, <1>4 DEF Counted, Core, Shape
<1>13. Leads(nxt, c)'
  BY <1>1 DEF Leads, Core, Shape
<1>14. QED
  BY <1>4, <1>6, <1>7, <1>8, <1>9, <1>10, <1>11, <1>12, <1>13 DEF Shape

-----------------------------------------------------------------------------
(* The invariant, for the chain that the pointers make. *)

LEMMA ChainOfShape == ASSUME NEW c, Core(c) PROVE Chain = c /\ IInv
<1>1. Chain = c
  BY ChainIs DEF Core, Shape, Chain
<1>2. QED
  BY <1>1 DEF Core, IInv

LEMMA ShapeOfChain == ASSUME IInv PROVE \E c : c = Chain /\ Core(c)
<1>1. PICK c : c = Chain
  OBVIOUS
<1>2. QED
  BY <1>1 DEF Core, IInv

LEMMA CoreInit == Init => Core(<<>>)
<1> SUFFICES ASSUME Init PROVE Core(<<>>)
  OBVIOUS
<1> DEFINE c == <<>>
<1>1. c \in Seq(Nodes) /\ Len(c) = 0 /\ Places(c) = {} /\ EndSlot(c) = HEAD
  BY DEF Places, EndSlot, Slot
<1> HIDE DEF c
<1>2. \A t \in Tasks : pc[t] = "idle"
  BY DEF Init
<1>3. Leads(nxt, c)
  BY <1>1, Constants DEF Leads, Init
<1>4. Alone /\ NewNode(c) /\ FirstNode(c) /\ Backwards(c) /\ ~Busy
  BY <1>1, <1>2, Constants DEF Alone, Inside, NewNode, FirstNode, Backwards, Busy, Init
<1>5. LastSlot(c) /\ Accounted(c)
  BY <1>1, <1>2, Constants DEF LastSlot, Accounted, Init
<1>6. Counted(c)
  <2>1. sent = 0 /\ Len(handled) = 0
    BY DEF Init
  <2>2. QED
    BY <1>1, <2>1 DEF Counted
<1>7. QED
  BY <1>3, <1>4, <1>5, <1>6, TypedInit DEF Core, Shape, c

(* What each step does to the chain, and that nothing else is disturbed. *)
LEMMA CoreStep ==
  ASSUME NEW c, Core(c), ~Overlap, [Next]_vars
  PROVE  \E d : /\ Core(d)'
                /\ \/ d = c
                   \/ \E t \in Tasks : Link(t) /\ d = Append(c, new[t])
                   \/ Unlink /\ d = Tail(c)
<1>1. Typed'
  BY TypedStep DEF Core
<1>2. CASE Peek \/ Refuse \/ TestNext \/ PassBack \/ Free
  <2>1. Core(c)'
    BY <1>1, <1>2, PeekShape, RefuseShape, TestNextShape, PassBackShape, FreeShape DEF Core
  <2>2. QED
    BY <2>1
<1>3. CASE Unlink
  <2>1. PICK d : d = Tail(c)
    OBVIOUS
  <2>2. Shape(d)' /\ Alone'
    BY <1>3, <2>1, UnlinkShape, Zenon
  <2>3. QED
    BY <1>1, <1>3, <2>1, <2>2 DEF Core
<1>4. ASSUME NEW t \in Tasks, Allocate(t) \/ SetPrev(t) \/ SetLast(t)
      PROVE  Core(c)'
  BY <1>1, <1>4, AllocateShape, SetPrevShape, SetLastShape DEF Core
<1>5. ASSUME NEW t \in Tasks, Link(t)
      PROVE  \E d : Core(d)' /\ d = Append(c, new[t])
  <2>1. PICK d : d = Append(c, new[t])
    OBVIOUS
  <2>2. Shape(d)' /\ Alone'
    BY <1>5, <2>1, LinkShape, Zenon
  <2>3. QED
    BY <1>1, <2>1, <2>2 DEF Core
<1>6. CASE UNCHANGED vars
  <2>1. Core(c)'
    BY <1>1, <1>6 DEF vars, Core, Alone, Inside, Shape, Leads, NewNode, FirstNode, Backwards,
                      LastSlot, Accounted, Counted, Busy
  <2>2. QED
    BY <2>1
<1>7. QED
  BY <1>2, <1>3, <1>4, <1>5, <1>6 DEF Next, Remove, Insert

LEMMA IInvInit == Init => IInv
BY CoreInit, ChainOfShape

LEMMA IInvStep ==
  ASSUME ~Overlap, IInv, [Next]_vars
  PROVE  IInv'
<1>1. PICK c : Core(c)
  BY ShapeOfChain
<1>2. PICK d : Core(d)'
  BY <1>1, CoreStep
<1>3. Leads(nxt, d)' /\ Typed' /\ Alone' /\ Shape(d)'
  BY <1>2 DEF Core, Shape
<1>4. ChainOf(nxt') = d
  BY <1>3, ChainIs DEF Leads
<1>5. Chain' = d
  BY <1>4 DEF Chain
<1>6. QED
  BY <1>3, <1>5 DEF IInv, Shape, Leads, NewNode, FirstNode, Backwards,
                      LastSlot, Accounted, Counted

LEMMA IInvAccounts == IInv => NodesAccountedFor
<1> SUFFICES ASSUME IInv PROVE NodesAccountedFor
  OBVIOUS
<1>1. PICK c : c = Chain /\ Core(c)
  BY ShapeOfChain
<1>2. TypeOK /\ DOMAIN c = Places(c)
  BY <1>1, CoreFacts, LenProperties DEF Places
<1> DEFINE reached == {c[i] : i \in DOMAIN c}
<1>3. reached \cap heap = {}
  BY <1>1, <1>2 DEF Core, Shape, Accounted
<1>4. Nodes \ heap \subseteq reached \cup {new[t] : t \in Tasks} \cup {first}
  BY <1>1, <1>2 DEF Core, Shape, Accounted, Listed
<1>5. QED
  BY <1>1, <1>3, <1>4 DEF NodesAccountedFor

(* When the operations of the two tasks do not overlap, every node that is  *)
(* allocated is in the queue or in the hands of a task, and no node in the  *)
(* queue has been freed (tuya_ble_service.c:181-195, 423-443): for every    *)
(* size of the heap and every number of messages.                           *)
THEOREM NodesStayAccountedFor ==
  ASSUME ~Overlap
  PROVE  Spec => []NodesAccountedFor
<1>1. IInv /\ [Next]_vars => IInv'
  BY IInvStep
<1>2. QED
  BY <1>1, IInvInit, IInvAccounts, PTL DEF Spec

-----------------------------------------------------------------------------
(* The refinement of Fifo. *)

(* The messages in the nodes of c, by the numbers m. *)
Messages(m, c) == [i \in DOMAIN c |-> m[c[i]]]

LEMMA MessagesFacts ==
  ASSUME NEW m \in [Nodes -> Nat], NEW c \in Seq(Nodes)
  PROVE  /\ Messages(m, c) \in Seq(Nat) /\ Len(Messages(m, c)) = Len(c)
         /\ \A i \in Places(c) : Messages(m, c)[i] = m[c[i]]
<1>1. Len(c) \in Nat /\ DOMAIN c = 1 .. Len(c) /\ \A i \in 1 .. Len(c) : c[i] \in Nodes
  BY LenProperties, SlotFacts DEF Places
<1>2. \A i \in 1 .. Len(c) : m[c[i]] \in Nat
  BY <1>1
<1>3. Messages(m, c) = [i \in 1 .. Len(c) |-> m[c[i]]]
  BY <1>1 DEF Messages
<1>4. Messages(m, c) \in [1 .. Len(c) -> Nat]
  BY <1>2, <1>3
<1>5. Messages(m, c) \in Seq(Nat)
  BY <1>1, <1>4, IsASeq
<1>6. Len(Messages(m, c)) = Len(c)
  BY <1>1, <1>4, <1>5, LenProperties
<1>7. QED
  BY <1>3, <1>5, <1>6 DEF Places

LEMMA MessagesAppend ==
  ASSUME NEW m \in [Nodes -> Nat], NEW c \in Seq(Nodes), NEW n \in Nodes,
         NEW d, d = Append(c, n)
  PROVE  Messages(m, d) = Append(Messages(m, c), m[n])
<1> DEFINE s == Messages(m, c)
           u == Messages(m, d)
           w == Append(s, m[n])
<1>1. Longer(d, c, n)
  BY AppendSlots, Zenon
<1>2. /\ d \in Seq(Nodes) /\ Len(d) = Len(c) + 1 /\ Len(c) \in Nat
      /\ \A i \in Places(c) : d[i] = c[i]
      /\ d[Len(c) + 1] = n
      /\ \A i \in Places(d) : i \in Places(c) \/ i = Len(c) + 1
  BY <1>1 DEF Longer
<1>3. s \in Seq(Nat) /\ Len(s) = Len(c) /\ \A i \in Places(c) : s[i] = m[c[i]]
  BY MessagesFacts
<1>4. u \in Seq(Nat) /\ Len(u) = Len(d) /\ \A i \in Places(d) : u[i] = m[d[i]]
  BY <1>2, MessagesFacts
<1> HIDE DEF s, u
<1>5. /\ w \in Seq(Nat) /\ Len(w) = Len(s) + 1
      /\ \A i \in 1 .. Len(s) : w[i] = s[i]
      /\ w[Len(s) + 1] = m[n]
  <2>1. m[n] \in Nat
    OBVIOUS
  <2>2. QED
    BY <1>3, <2>1, AppendFacts
<1> HIDE DEF w
<1>6. \A i \in 1 .. Len(u) : u[i] = w[i]
  <2> SUFFICES ASSUME NEW i \in Places(d) PROVE u[i] = w[i]
    BY <1>4 DEF Places
  <2>1. CASE i \in Places(c)
    BY <1>2, <1>3, <1>4, <1>5, <2>1 DEF Places
  <2>2. CASE i = Len(c) + 1
    BY <1>2, <1>3, <1>4, <1>5, <2>2
  <2>3. QED
    BY <1>2, <2>1, <2>2
<1>7. u = w
  <2>1. Len(u) = Len(w)
    BY <1>2, <1>3, <1>4, <1>5
  <2>2. QED
    BY <1>4, <1>5, <1>6, <2>1, SeqEqual
<1>8. QED
  BY <1>7 DEF s, u, w

LEMMA MessagesTail ==
  ASSUME NEW m \in [Nodes -> Nat], NEW c \in Seq(Nodes), c # <<>>,
         NEW d, d = Tail(c)
  PROVE  /\ Messages(m, d) = Tail(Messages(m, c))
         /\ Messages(m, c) # <<>> /\ Head(Messages(m, c)) = m[c[1]]
<1> DEFINE s == Messages(m, c)
           u == Messages(m, d)
           w == Tail(s)
<1>1. Shorter(d, c)
  BY TailSlots, Zenon
<1>2. /\ d \in Seq(Nodes) /\ Len(d) = Len(c) - 1 /\ Len(c) \in Nat /\ Len(c) >= 1
      /\ \A i \in Places(d) : d[i] = c[i + 1] /\ i + 1 \in Places(c)
  BY <1>1 DEF Shorter
<1>3. s \in Seq(Nat) /\ Len(s) = Len(c) /\ \A i \in Places(c) : s[i] = m[c[i]]
  BY MessagesFacts
<1>4. u \in Seq(Nat) /\ Len(u) = Len(d) /\ \A i \in Places(d) : u[i] = m[d[i]]
  BY <1>2, MessagesFacts
<1> HIDE DEF s, u
<1>5. s # <<>>
  BY <1>2, <1>3, EmptySeq
<1>6. /\ Head(s) = s[1] /\ w \in Seq(Nat) /\ Len(w) = Len(s) - 1
      /\ \A i \in 1 .. Len(w) : w[i] = s[i + 1]
  <2>1. Head(s) = s[1]
    BY <1>3, <1>5
  <2>2. QED
    BY <1>3, <1>5, <2>1, HeadTailProperties
<1> HIDE DEF w
<1>7. s[1] = m[c[1]]
  BY <1>2, <1>3 DEF Places
<1>8. u = w
  <2>1. Len(u) = Len(w)
    BY <1>2, <1>3, <1>4, <1>6
  <2>2. \A i \in 1 .. Len(u) : u[i] = w[i]
    BY <1>2, <1>3, <1>4, <1>6, <2>1 DEF Places
  <2>3. QED
    BY <1>4, <1>6, <2>1, <2>2, SeqEqual
<1>9. QED
  BY <1>5, <1>6, <1>7, <1>8 DEF s, u, w

LEMMA FifoInit == Init => F!Init
<1> SUFFICES ASSUME Init PROVE F!Init
  OBVIOUS
<1>1. Chain = <<>>
  BY CoreInit, ChainOfShape
<1>2. [i \in DOMAIN Chain |-> msg[Chain[i]]] = <<>>
  BY <1>1
<1>3. handled = <<>> /\ (first # NULL /\ pc["loop"] # "free") = FALSE
  BY DEF Init
<1>4. QED
  BY <1>2, <1>3 DEF F!Init

(* The step at which a node is linked puts its message into the queue, Peek *)
(* handles it, Refuse leaves it for the next time, Unlink drops it; every   *)
(* other step leaves the queue alone.                                       *)
LEMMA FifoStep ==
  ASSUME ~Overlap, IInv, [Next]_vars
  PROVE  [F!Next]_F!vars
<1>1. PICK c : c = Chain /\ Core(c)
  BY ShapeOfChain
<1>2. PICK d : /\ Core(d)'
               /\ \/ d = c
                  \/ \E t \in Tasks : Link(t) /\ d = Append(c, new[t])
                  \/ Unlink /\ d = Tail(c)
  BY <1>1, CoreStep
<1>3. Chain' = d
  <2>1. Leads(nxt', d)
    BY <1>2 DEF Core, Shape, Leads
  <2>2. ChainOf(nxt') = d
    BY <2>1, ChainIs
  <2>3. QED
    BY <2>2 DEF Chain
<1>4. /\ TypeOK /\ c \in Seq(Nodes) /\ Len(c) \in Nat /\ Len(handled) \in Nat
      /\ \A i \in Places(c) : c[i] \in Nodes
  BY <1>1, CoreFacts
<1>5. msg \in [Nodes -> Nat] /\ DOMAIN c = Places(c)
  BY <1>4, LenProperties, Constants DEF TypeOK, Places
<1> DEFINE items == [i \in DOMAIN Chain |-> msg[Chain[i]]]
           busy == first # NULL /\ pc["loop"] # "free"
<1>6. /\ items = Messages(msg, c) /\ items' = Messages(msg', d)
      /\ busy = Busy /\ busy' = Busy'
  BY <1>1, <1>3 DEF Messages, Busy
<1>7. /\ F!Put <=> /\ items' = Append(items, Len(handled) + Len(items) + 1)
                   /\ UNCHANGED <<handled, busy>>
      /\ F!Handle <=> /\ ~busy /\ items # <<>> /\ busy' = TRUE
                      /\ UNCHANGED <<items, handled>>
      /\ F!Refuse <=> busy /\ busy' = FALSE /\ UNCHANGED <<items, handled>>
      /\ F!Drop <=> /\ busy /\ handled' = Append(handled, Head(items))
                    /\ items' = Tail(items) /\ busy' = FALSE
      /\ UNCHANGED F!vars <=> UNCHANGED <<items, handled, busy>>
  BY DEF F!Put, F!Handle, F!Refuse, F!Drop, F!vars
<1> HIDE DEF items, busy
<1>8. ASSUME NEW t \in Tasks, Link(t) PROVE F!Put
  <2>1. PICK e : e = Append(c, new[t])
    OBVIOUS
  <2>2. /\ Shape(e)' /\ UNCHANGED Busy /\ new[t] \in Nodes
        /\ msg[new[t]] = Len(handled) + Len(c) + 1
    BY <1>1, <1>8, <2>1, LinkShape, Zenon
  <2>3. e = d
    <3>1. Leads(nxt', e)
      BY <2>2 DEF Shape, Leads
    <3>2. ChainOf(nxt') = e
      BY <3>1, ChainIs
    <3>3. QED
      BY <1>3, <3>2 DEF Chain
  <2>4. msg' = msg /\ handled' = handled
    BY <1>8 DEF Link
  <2>5. items' = Append(items, msg[new[t]])
    <3>1. Messages(msg, e) = Append(Messages(msg, c), msg[new[t]])
      BY <1>4, <1>5, <2>1, <2>2, MessagesAppend, Zenon
    <3>2. QED
      BY <1>6, <2>3, <2>4, <3>1
  <2>6. Len(items) = Len(c)
    BY <1>4, <1>5, <1>6, MessagesFacts
  <2>7. msg[new[t]] = Len(handled) + Len(items) + 1
    BY <2>2, <2>6
  <2>8. QED
    BY <1>6, <1>7, <2>2, <2>4, <2>5, <2>7
<1>9. CASE Unlink
  <2>1. PICK e : e = Tail(c)
    OBVIOUS
  <2>2. Shape(e)' /\ Busy /\ ~Busy' /\ c # <<>> /\ handled' = Append(handled, msg[c[1]])
    BY <1>1, <1>9, <2>1, UnlinkShape, Zenon
  <2>3. e = d
    <3>1. Leads(nxt', e)
      BY <2>2 DEF Shape, Leads
    <3>2. ChainOf(nxt') = e
      BY <3>1, ChainIs
    <3>3. QED
      BY <1>3, <3>2 DEF Chain
  <2>4. msg' = msg
    BY <1>9 DEF Unlink
  <2>5. items' = Tail(items) /\ Head(items) = msg[c[1]]
    <3>1. Messages(msg, e) = Tail(Messages(msg, c)) /\ Head(Messages(msg, c)) = msg[c[1]]
      BY <1>4, <1>5, <2>1, <2>2, MessagesTail, Zenon
    <3>2. QED
      BY <1>6, <2>3, <2>4, <3>1
  <2>6. F!Drop
    BY <1>6, <1>7, <2>2, <2>5
  <2>7. QED
    BY <2>6 DEF F!Next
<1>10. CASE Peek \/ Refuse
  <2>1. Shape(c)' /\ c # <<>> /\ (IF Peek THEN ~Busy /\ Busy' ELSE Busy /\ ~Busy')
    <3>1. CASE Peek
      BY <1>1, <3>1, PeekShape, Zenon
    <3>2. CASE ~Peek
      <4>1. pc["loop"] = "handle"
        BY <1>10, <3>2 DEF Refuse
      <4>2. c # <<>>
        BY <1>1, <4>1, AtHead
      <4>3. QED
        BY <1>1, <1>10, <3>2, <4>2, RefuseShape, Zenon
    <3>3. QED
      BY <3>1, <3>2
  <2>2. c = d
    <3>1. Leads(nxt', c)
      BY <2>1 DEF Shape, Leads
    <3>2. ChainOf(nxt') = c
      BY <3>1, ChainIs
    <3>3. QED
      BY <1>3, <3>2 DEF Chain
  <2>3. msg' = msg /\ handled' = handled
    BY <1>10 DEF Peek, Refuse
  <2>4. items # <<>>
    <3>1. PICK e : e = Tail(c)
      OBVIOUS
    <3>2. QED
      BY <1>4, <1>5, <1>6, <2>1, <3>1, MessagesTail, Zenon
  <2>5. items' = items
    BY <1>6, <2>2, <2>3
  <2>6. F!Handle \/ F!Refuse
    BY <1>6, <1>7, <2>1, <2>3, <2>4, <2>5
  <2>7. QED
    BY <2>6 DEF F!Next
<1>11. ASSUME Shape(c)', UNCHANGED Busy, UNCHANGED handled, \A i \in Places(c) : msg'[c[i]] = msg[c[i]]
       PROVE  UNCHANGED F!vars
  <2>1. c = d
    <3>1. Leads(nxt', c)
      BY <1>11 DEF Shape, Leads
    <3>2. ChainOf(nxt') = c
      BY <3>1, ChainIs
    <3>3. QED
      BY <1>3, <3>2 DEF Chain
  <2>2. Messages(msg', c) = Messages(msg, c)
    BY <1>5, <1>11 DEF Messages
  <2>3. QED
    BY <1>6, <1>7, <1>11, <2>1, <2>2
<1>12. CASE TestNext \/ PassBack \/ Free
  <2>1. Shape(c)' /\ UNCHANGED Busy
    BY <1>1, <1>12, TestNextShape, PassBackShape, FreeShape
  <2>2. UNCHANGED <<handled, msg>>
    BY <1>12 DEF TestNext, PassBack, Free
  <2>3. QED
    BY <1>11, <2>1, <2>2
<1>13. ASSUME NEW t \in Tasks, SetPrev(t) \/ SetLast(t) PROVE UNCHANGED F!vars
  <2>1. Shape(c)' /\ UNCHANGED Busy
    BY <1>1, <1>13, SetPrevShape, SetLastShape
  <2>2. UNCHANGED <<handled, msg>>
    BY <1>13 DEF SetPrev, SetLast
  <2>3. QED
    BY <1>11, <2>1, <2>2
<1>14. ASSUME NEW t \in Tasks, Allocate(t) PROVE UNCHANGED F!vars
  <2>1. Shape(c)' /\ UNCHANGED Busy /\ \A i \in Places(c) : msg'[c[i]] = msg[c[i]]
    BY <1>1, <1>14, AllocateShape
  <2>2. UNCHANGED handled
    BY <1>14 DEF Allocate
  <2>3. QED
    BY <1>11, <2>1, <2>2
<1>15. CASE UNCHANGED vars
  <2>1. UNCHANGED <<Chain, msg, first, pc, handled>>
    BY <1>15 DEF vars, Chain
  <2>2. QED
    BY <1>7, <2>1 DEF items, busy
<1>16. QED
  BY <1>8, <1>9, <1>10, <1>12, <1>13, <1>14, <1>15 DEF Next, Remove, Insert, F!Next

(* When the operations do not overlap, the pointers implement a queue: the  *)
(* messages are handled in the order of the insertions, one that its        *)
(* handler refuses (a START that fails, tuya_ble_service.c:1103) again      *)
(* before any other, one that it accepts once; and each leaves the queue    *)
(* only after it was accepted (:181-195, :423-443, :1096-1153).             *)
THEOREM QueueImplementsFifo ==
  ASSUME ~Overlap
  PROVE  Spec => ImplementsFifo
<1>1. IInv /\ [Next]_vars => IInv'
  BY IInvStep
<1>2. IInv /\ [Next]_vars => [F!Next]_F!vars
  BY FifoStep
<1>3. QED
  BY <1>1, <1>2, IInvInit, FifoInit, PTL DEF Spec, ImplementsFifo, F!Spec

-----------------------------------------------------------------------------
(* The numbers in the queue go on where the handled ones end.  Fifo keeps   *)
(* that, so MsgQueue does.                                                  *)

Items == [i \in DOMAIN Chain |-> msg[Chain[i]]]

Numbered ==
  /\ Items \in Seq(Nat) /\ handled \in Seq(Nat)
  /\ \A i \in 1 .. Len(handled) : handled[i] = i
  /\ \A i \in 1 .. Len(Items) : Items[i] = Len(handled) + i
  /\ Busy => Items # <<>>

LEMMA NumberedInit == Init => Numbered
<1> SUFFICES ASSUME Init PROVE Numbered
  OBVIOUS
<1>1. Chain = <<>>
  BY CoreInit, ChainOfShape
<1>2. Items = <<>> /\ handled = <<>> /\ ~Busy
  BY <1>1 DEF Items, Init, Busy
<1>3. QED
  BY <1>2 DEF Numbered

LEMMA NumberedStep ==
  ASSUME Numbered, [F!Next]_F!vars
  PROVE  Numbered'
<1>0. /\ Items \in Seq(Nat) /\ handled \in Seq(Nat)
      /\ Len(Items) \in Nat /\ Len(handled) \in Nat
      /\ \A i \in 1 .. Len(handled) : handled[i] = i
      /\ \A i \in 1 .. Len(Items) : Items[i] = Len(handled) + i
      /\ (Busy => Items # <<>>)
  BY LenProperties DEF Numbered
<1>1. /\ F!Put => /\ Items' = Append(Items, Len(handled) + Len(Items) + 1)
                  /\ handled' = handled /\ Busy' = Busy
      /\ F!Handle => Items # <<>> /\ Items' = Items /\ handled' = handled
      /\ F!Refuse => ~Busy' /\ Items' = Items /\ handled' = handled
      /\ F!Drop => /\ Busy /\ Items' = Tail(Items) /\ ~Busy'
                   /\ handled' = Append(handled, Head(Items))
      /\ UNCHANGED F!vars => Items' = Items /\ handled' = handled /\ Busy' = Busy
  BY DEF F!Put, F!Handle, F!Refuse, F!Drop, F!vars, Items, Busy
<1> SUFFICES ASSUME F!Put \/ F!Handle \/ F!Refuse \/ F!Drop \/ UNCHANGED F!vars
             PROVE  /\ Items' \in Seq(Nat) /\ handled' \in Seq(Nat)
                    /\ \A i \in 1 .. Len(handled') : handled'[i] = i
                    /\ \A i \in 1 .. Len(Items') : Items'[i] = Len(handled') + i
                    /\ (Busy' => Items' # <<>>)
  BY DEF Numbered, F!Next
<1>2. CASE F!Put
  <2> DEFINE x == Len(handled) + Len(Items) + 1
  <2>1. x \in Nat /\ x = Len(handled) + (Len(Items) + 1)
    BY <1>0
  <2>2. Items' = Append(Items, x) /\ handled' = handled
    BY <1>1, <1>2
  <2> HIDE DEF x
  <2>3. /\ Items' \in Seq(Nat) /\ Len(Items') = Len(Items) + 1
        /\ \A i \in 1 .. Len(Items) : Items'[i] = Items[i]
        /\ Items'[Len(Items) + 1] = x
    BY <1>0, <2>1, <2>2, AppendFacts
  <2>4. ASSUME NEW i \in 1 .. Len(Items') PROVE Items'[i] = Len(handled) + i
    <3>1. i \in 1 .. Len(Items) \/ i = Len(Items) + 1
      BY <1>0, <2>3
    <3>2. QED
      BY <1>0, <2>1, <2>3, <3>1
  <2>5. QED
    <3>1. Items' # <<>>
      BY <1>0, <2>3, EmptySeq
    <3>2. QED
      BY <1>0, <2>2, <2>3, <2>4, <3>1
<1>3. CASE F!Drop
  <2>1. Busy /\ Items # <<>> /\ Items' = Tail(Items) /\ ~Busy'
    BY <1>0, <1>1, <1>3
  <2>2. 1 \in 1 .. Len(Items) /\ Head(Items) = Items[1]
    <3>1. Len(Items) # 0
      BY <1>0, <2>1, EmptySeq
    <3>2. Head(Items) = Items[1]
      BY <1>0, <2>1
    <3>3. QED
      BY <1>0, <3>1, <3>2
  <2>3. Items[1] = Len(handled) + 1 /\ Items[1] \in Nat
    BY <1>0, <2>2
  <2>4. handled' = Append(handled, Items[1])
    BY <1>1, <1>3, <2>2
  <2> DEFINE x == Items[1]
  <2> HIDE DEF x
  <2>5. /\ handled' \in Seq(Nat) /\ Len(handled') = Len(handled) + 1
        /\ \A i \in 1 .. Len(handled) : handled'[i] = handled[i]
        /\ handled'[Len(handled) + 1] = x
    <3>1. x \in Nat /\ handled' = Append(handled, x)
      BY <2>3, <2>4 DEF x
    <3>2. QED
      BY <1>0, <3>1, AppendFacts
  <2>6. x = Len(handled) + 1
    BY <2>3 DEF x
  <2>7. ASSUME NEW i \in 1 .. Len(handled') PROVE handled'[i] = i
    <3>1. i \in 1 .. Len(handled) \/ i = Len(handled) + 1
      BY <1>0, <2>5
    <3>2. QED
      BY <1>0, <2>5, <2>6, <3>1
  <2>8. /\ Items' \in Seq(Nat) /\ Len(Items') = Len(Items) - 1
        /\ \A i \in 1 .. Len(Items') : Items'[i] = Items[i + 1]
    BY <1>0, <2>1, HeadTailProperties
  <2>9. ASSUME NEW i \in 1 .. Len(Items') PROVE Items'[i] = Len(handled') + i
    <3>1. i + 1 \in 1 .. Len(Items) /\ i \in Nat
      BY <1>0, <2>8
    <3>2. Items'[i] = Len(handled) + (i + 1)
      BY <1>0, <2>8, <3>1
    <3>3. QED
      BY <1>0, <2>5, <3>1, <3>2
  <2>10. QED
    BY <2>1, <2>5, <2>7, <2>8, <2>9
<1>4. CASE F!Handle \/ F!Refuse \/ UNCHANGED F!vars
  <2>1. Items' = Items /\ handled' = handled
    BY <1>1, <1>4
  <2>2. Busy' => Items # <<>>
    BY <1>0, <1>1, <1>4, Zenon
  <2>3. QED
    BY <1>0, <2>1, <2>2
<1>5. QED
  BY <1>2, <1>3, <1>4

LEMMA NumberedMeans ==
  ASSUME IInv, Numbered
  PROVE  NothingLost
<1> SUFFICES ASSUME \A t \in Tasks : pc[t] = "idle", NEW m \in 1 .. sent
             PROVE  \/ \E i \in DOMAIN handled : handled[i] = m
                    \/ \E i \in DOMAIN Chain : msg[Chain[i]] = m
  BY DEF NothingLost
<1>1. PICK c : c = Chain /\ Core(c)
  BY ShapeOfChain
<1>2. /\ TypeOK /\ c \in Seq(Nodes) /\ Len(c) \in Nat /\ Len(handled) \in Nat /\ sent \in Nat
      /\ DOMAIN c = Places(c) /\ DOMAIN handled = 1 .. Len(handled)
  BY <1>1, CoreFacts, LenProperties DEF Places, Numbered
<1>4. sent = Len(handled) + Len(c)
  BY <1>1 DEF Core, Shape, Counted
<1>5. CASE m <= Len(handled)
  <2>1. m \in 1 .. Len(handled)
    BY <1>2, <1>5
  <2>2. handled[m] = m
    BY <2>1 DEF Numbered
  <2>3. QED
    BY <1>2, <2>1, <2>2
<1>6. CASE m > Len(handled)
  <2>1. PICK i : i = m - Len(handled)
    OBVIOUS
  <2>2. i \in 1 .. Len(c) /\ Len(handled) + i = m
    BY <1>2, <1>4, <1>6, <2>1
  <2>3. msg \in [Nodes -> Nat]
    BY <1>2, Constants DEF TypeOK
  <2>4. Items = Messages(msg, c)
    BY <1>1 DEF Items, Messages
  <2>5. Len(Items) = Len(c) /\ \A j \in Places(c) : Items[j] = msg[c[j]]
    BY <1>2, <2>3, <2>4, MessagesFacts
  <2>6. Items[i] = Len(handled) + i
    BY <2>2, <2>5 DEF Numbered
  <2>7. msg[c[i]] = m
    BY <2>2, <2>5, <2>6 DEF Places
  <2>8. QED
    BY <1>1, <1>2, <2>2, <2>7 DEF Places
<1>7. QED
  BY <1>2, <1>5, <1>6

(* It takes an overlap to lose a message: when operations do not overlap,   *)
(* whenever both tasks are between operations each message that was         *)
(* inserted is in the queue or was handled, so that BLE_SVC_STATUS_DISCON-  *)
(* NECT reaches the loop, which owns the restart of the advertising         *)
(* (ble_wrapper.c:394).  MCMsgQueueRace shows the loss with Overlap = TRUE. *)
THEOREM NothingLostApart ==
  ASSUME ~Overlap
  PROVE  Spec => []NothingLost
<1>1. IInv /\ [Next]_vars => IInv'
  BY IInvStep
<1>2. IInv /\ [Next]_vars => [F!Next]_F!vars
  BY FifoStep
<1>3. Numbered /\ [F!Next]_F!vars => Numbered'
  BY NumberedStep
<1>4. IInv /\ Numbered => NothingLost
  BY NumberedMeans
<1>5. QED
  BY <1>1, <1>2, <1>3, <1>4, IInvInit, NumberedInit, PTL DEF Spec
===============================================================================
