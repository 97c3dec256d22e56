------------------------------ MODULE MCMsgQueue ------------------------------
(* Small instances of MsgQueue for TLC: three nodes, which malloc hands out  *)
(* again and again.                                                          *)
EXTENDS MsgQueue, TLC

CONSTANTS n1, n2, n3
Three == {n1, n2, n3}
Swap == Permutations(Three)
===============================================================================
