--------------------------- MODULE MCBleAdvertise ---------------------------
(***************************************************************************)
(* BleAdvertise for TLC.  Two values of each kind tell a call's own from   *)
(* those of another; with two descriptors a lost one still leaves one.     *)
(***************************************************************************)
EXTENDS BleAdvertise
=============================================================================
