---------------------------- MODULE MCGattServer ---------------------------
(***************************************************************************)
(* GattServer for TLC: two server threads, that follow each other or       *)
(* overlap.                                                                *)
(***************************************************************************)
EXTENDS GattServer
=============================================================================
