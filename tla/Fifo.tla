--------------------------------- MODULE Fifo ---------------------------------
(***************************************************************************)
(* What the loop of the provisioning service takes its message queue for:   *)
(* messages are handled one at a time, in the order they were put in, and a *)
(* message stays at the head until its handler is through with it.  One     *)
(* that the handler refuses is handled again, before any other; one that it *)
(* accepts leaves the queue and is never handled again.                     *)
(***************************************************************************)
EXTENDS Naturals, Sequences

VARIABLES items, handled, busy

vars == <<items, handled, busy>>

Init == items = <<>> /\ handled = <<>> /\ busy = FALSE

(* Messages are numbered in the order they are put in. *)
Put ==
  /\ items' = Append(items, Len(handled) + Len(items) + 1)
  /\ UNCHANGED <<handled, busy>>

Handle ==
  /\ ~busy /\ items # <<>>
  /\ busy' = TRUE
  /\ UNCHANGED <<items, handled>>

Refuse ==
  /\ busy
  /\ busy' = FALSE
  /\ UNCHANGED <<items, handled>>

Drop ==
  /\ busy
  /\ handled' = Append(handled, Head(items))
  /\ items' = Tail(items)
  /\ busy' = FALSE

Next == Put \/ Handle \/ Refuse \/ Drop

Spec == Init /\ [][Next]_vars
===============================================================================
