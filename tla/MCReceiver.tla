----------------------------- MODULE MCReceiver -----------------------------
(***************************************************************************)
(* Receiver for TLC: two transfers, the end of one of which may cut the    *)
(* other, and a third that has not been asked for.                         *)
(***************************************************************************)
EXTENDS Receiver
=============================================================================
