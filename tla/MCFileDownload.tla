---------------------------- MODULE MCFileDownload ----------------------------
(* The instance: a file that comes in one answer or in two, and one of      *)
(* unknown size; one retry, two upgrades.                                   *)
EXTENDS FileDownload

MCSizes == {0, 2}
=============================================================================
