--------------------------- MODULE MCTransmitter ---------------------------
(***************************************************************************)
(* Transmitter for TLC: two devices, and numbers that go beyond them.      *)
(***************************************************************************)
EXTENDS Transmitter
=============================================================================
