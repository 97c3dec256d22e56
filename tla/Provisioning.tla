----------------------------- MODULE Provisioning -----------------------------
(***************************************************************************)
(* What the provisioning service promises the firmware in one boot: it      *)
(* serves phones until one of them has delivered a token; only then does it *)
(* stop, and having begun to stop it gets to the end.  The chip restarts    *)
(* only once the service is over, unless something unsafe has come first: a *)
(* frame the service does not check, or an allocation it does not check.    *)
(***************************************************************************)
VARIABLES phase, token, unsafe

vars == <<phase, token, unsafe>>

Init == phase = "off" /\ token = FALSE /\ unsafe = FALSE

Open    == phase = "off" /\ phase' = "serving" /\ UNCHANGED <<token, unsafe>>
Deliver == phase \in {"serving", "stopping"} /\ token' = TRUE /\ UNCHANGED <<phase, unsafe>>
Close   == phase = "serving" /\ token /\ phase' = "stopping" /\ UNCHANGED <<token, unsafe>>
Finish  == phase = "stopping" /\ phase' = "over" /\ UNCHANGED <<token, unsafe>>
Upset   == unsafe' = TRUE /\ UNCHANGED <<phase, token>>
Restart ==
  /\ phase = "over" \/ unsafe
  /\ phase' = "off" /\ token' = FALSE /\ unsafe' = FALSE

Next == Open \/ Deliver \/ Close \/ Finish \/ Upset \/ Restart

Spec == Init /\ [][Next]_vars

FairSpec == Spec /\ WF_vars(Close) /\ WF_vars(Finish)
===============================================================================
