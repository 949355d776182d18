--------------------------- MODULE MCAndroidDemo ---------------------------
(* AndroidDemo with two devices that have the same Bluetooth name. *)
EXTENDS AndroidDemo, TLC

MCBtName == [d \in Devices |-> "nova"]

Symmetric == Permutations(Binders) \cup Permutations(Devices)
=============================================================================
