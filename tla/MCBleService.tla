----------------------------- MODULE MCBleService -----------------------------
(* Small instances of BleService for TLC. *)
EXTENDS BleService

OneId == {0}
TwoIds == {0, 1}
KeyFrames == {"DEV_INFO", "GET_TOKEN"}
AnyFrames == {"DEV_INFO", "GET_TOKEN", "MORE_PACKS", "TINY_MTU", "BAD_TOKEN"}
=============================
