----------------------------- MODULE MCMqttService -----------------------------
(* Small instances of MqttService for TLC. *)
EXTENDS MqttService

ThreeReports == 1 .. 3
===============================================================================
