-------------------------- MODULE MCWindowsClient --------------------------
(***************************************************************************)
(* WindowsClient for TLC: two devices with the name looked for, both       *)
(* signals, and a second send that starts from what the first one left.    *)
(***************************************************************************)
EXTENDS WindowsClient
=============================================================================
