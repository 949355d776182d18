----------------------------- MODULE MCBleLink -----------------------------
(***************************************************************************)
(* BleLink for TLC: one connection from its first dial to its end, with    *)
(* one message each way.  As in MCGattClient a behaviour is followed up to *)
(* the call that makes connections overlap: what the properties say ends   *)
(* there.                                                                  *)
(***************************************************************************)
EXTENDS BleLink

UntilOverlap == Solo
=============================================================================
