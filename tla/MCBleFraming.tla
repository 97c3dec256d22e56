----------------------------- MODULE MCBleFraming -----------------------------
(* Small instances of BleFraming for TLC: frames of one, two and three packs *)
(* whose lengths take one and two digits, answers on both sides of the sizes *)
(* at which one more pack or one more digit is needed, and an app_mtu that    *)
(* the head of an answer's first pack fits into only when the answer is short. *)
EXTENDS BleFraming

Lens == {60, 200, 400}
Sizes == {11, 128, 289}
SomeMtus == {3, 20, 137}
===============================================================================
