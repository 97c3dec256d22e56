--------------------------------- MODULE Matop ---------------------------------
(***************************************************************************)
(* Requests to the cloud over MQTT (matop_service.c).  The context is a     *)
(* record: message_list, in the order in which requests were made; id_cnt;  *)
(* and, for the other side, the requests the cloud has seen and may still   *)
(* answer.  An entry and what the cloud knows of it are the same record,    *)
(* with the fields id, kind (whose callback it is), file, from and len.     *)
(***************************************************************************)
EXTENDS Naturals, Sequences

EmptyMatop == [list |-> <<>>, idCnt |-> 0, answers |-> {}]

(* matop_service_request_async: the id counts up whether or not the request *)
(* can be published; the entry is appended only when it was.  Whether a     *)
(* published request reaches the cloud is not known here.                   *)
Request(m, kind, file, from, len, published) ==
  LET r == [id |-> m.idCnt + 1, kind |-> kind, file |-> file, from |-> from, len |-> len]
  IN IF published
     THEN [list |-> Append(m.list, r), idCnt |-> m.idCnt + 1, answers |-> m.answers \cup {r}]
     ELSE [m EXCEPT !.idCnt = @ + 1]

(* Mutant: the ids are not compared. *)
PlaceOfFirst(m, id) == IF m.list = <<>> THEN 0 ELSE 1

(* The place of the entry an answer with this id is for, 0 when none is. *)
PlaceOf(m, id) ==
  LET places == {i \in DOMAIN m.list : m.list[i].id = id}
  IN IF places = {} THEN 0 ELSE CHOOSE i \in places : \A j \in places : i <= j

(* The entry is removed and freed once its callback has returned.  What the *)
(* callback asks for is appended behind it, so that the order of the two    *)
(* does not show.                                                           *)
RemovedAt(m, i) ==
  [m EXCEPT !.list = SubSeq(@, 1, i - 1) \o SubSeq(@, i + 1, Len(@))]

(* The answer has been read, whether or not an entry was found for it. *)
Read(m, a) == [m EXCEPT !.answers = @ \ {a}]

(* matop_serice_init, on each connection: the list and the counter are set  *)
(* to zero, the cloud's answers may still come.                             *)
Initialised(m) == [m EXCEPT !.list = <<>>, !.idCnt = 0]

(* Answers on their way to no entry of the list. *)
Late(m) == {a \in m.answers : \A i \in DOMAIN m.list : m.list[i] # a}

Pending(m, kinds) == \E i \in DOMAIN m.list : m.list[i].kind \in kinds
=============================================================================
