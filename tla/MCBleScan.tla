----------------------------- MODULE MCBleScan -----------------------------
(***************************************************************************)
(* BleScan for TLC.  Three threads: a reader that a stop did not reach,    *)
(* the reader of the next start, and one spawned on top of both.  Two      *)
(* reports per event are enough to tell "per event" from "per report".     *)
(***************************************************************************)
EXTENDS BleScan
=============================================================================
