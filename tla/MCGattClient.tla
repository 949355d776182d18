---------------------------- MODULE MCGattClient ---------------------------
(***************************************************************************)
(* GattClient for TLC: two connect threads, that follow each other or      *)
(* overlap, and two addresses to confuse.  A behaviour is followed up to   *)
(* the BleConnect that makes connections overlap, that step included:      *)
(* every property but the type invariant is about what comes before, and   *)
(* the type invariant is proved for every behaviour (GattClientProofs).    *)
(***************************************************************************)
EXTENDS GattClient

UntilOverlap == solo
=============================================================================
