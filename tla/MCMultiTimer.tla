----------------------------- MODULE MCMultiTimer -----------------------------
(* Three timers as the firmware and the SDK have them, on a counter of five  *)
(* bits: one with a period, one whose first time differs from its period,    *)
(* one that fires once and is started again on a retry.                      *)
EXTENDS MultiTimer

Three == {"idle", "upgrade", "retry"}
Delays == [t \in Three |-> CASE t = "idle" -> 3 [] t = "upgrade" -> 1 [] t = "retry" -> 2]
Periods == [t \in Three |-> CASE t = "idle" -> 3 [] t = "upgrade" -> 4 [] t = "retry" -> 0]
===============================================================================
