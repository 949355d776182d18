---------------------------- MODULE MCHciDevice ----------------------------
(***************************************************************************)
(* HciDevice for TLC.  Two threads: a reader and one spawned on top of it. *)
(* Three descriptors: a reader's and two lost ones leave none, and with one*)
(* lost there is one to spare.  The values of the advertising data are told*)
(* apart in BleAdvertise's own run.                                        *)
(***************************************************************************)
EXTENDS HciDevice, TLC

Symmetric == Permutations(Threads)
=============================================================================
