------------------------------ MODULE MCIotClient ------------------------------
(* The instance: the bounds are numbers, given in the configuration. *)
EXTENDS IotClient
=============================================================================
