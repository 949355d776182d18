---------------------------- MODULE BleAdvertise ----------------------------
(***************************************************************************)
(* Advertising, as Linux-en/driver_ble_tx.c does it (driver_ble_rx.c has   *)
(* the same code): BleStartAdv, BleSetAdvData and BleStopAdv open the HCI  *)
(* device, send one to three commands to its controller, each of which may *)
(* fail, and close the device, but not on every way out.                   *)
(*                                                                         *)
(* The SDK makes one call at a time.  Between two commands of a call a     *)
(* peer may connect, which ends the advertising.  The controller and the   *)
(* HCI library are external; a command that failed may have been carried   *)
(* out all the same, its answer being what was lost.                       *)
(***************************************************************************)
EXTENDS Naturals

CONSTANTS Settings,  \* what a BleAdvParams can ask for
          Payloads,  \* contents of the advertisement, and of the scan response
          NULL,      \* none of them
          MaxOpen    \* descriptors the process has for HCI devices

ASSUME PayloadsAssumption == NULL \notin Settings \cup Payloads
ASSUME MaxOpenAssumption == MaxOpen \in Nat

VARIABLES
    command,  \* its pc: the command the call under way sends next, or "idle"
    params,   \* what the last BleStartAdv was given
    data,     \* what the last BleSetAdvData was given: <<advData, rspData>>
    lost,     \* descriptors left open by calls that have returned
    on,       \* the controller: is it advertising?
    setting,  \* the controller: its advertising parameters
    adv,      \* the controller: its advertising data
    rsp,      \* the controller: its scan response data
    \* History of the run, read by the properties and by no action:
    result,   \* what the last call returned: "none" while it is under way
    told,     \* what the SDK knows of the advertising: "on", "off", "met" if a
              \* peer has connected since it was on, or "unknown"
    whole,    \* did the last BleSetAdvData return 0?
    smooth,   \* has every command of the last call gone well?
    failures  \* BleStartAdv and BleSetAdvData calls that failed

call == <<command, params, data>>
controller == <<on, setting, adv, rsp>>
advHistory == <<result, told, whole, smooth, failures>>
advVars == <<call, lost, controller, advHistory>>

AdvTypeOK ==
    /\ command \in {"idle", "disable", "params", "enable", "data", "response", "stop"}
    /\ params \in Settings \cup {NULL}
    /\ data \in (Payloads \cup {NULL}) \X (Payloads \cup {NULL})
    /\ lost \in 0..MaxOpen
    /\ on \in BOOLEAN
    /\ setting \in Settings \cup {NULL}
    /\ adv \in Payloads \cup {NULL}
    /\ rsp \in Payloads \cup {NULL}
    /\ result \in {"none", "ok", "failed"}
    /\ told \in {"on", "off", "met", "unknown"}
    /\ whole \in BOOLEAN
    /\ smooth \in BOOLEAN
    /\ failures \in Nat

AdvInit ==
    /\ command = "idle"
    /\ params = NULL
    /\ data = <<NULL, NULL>>
    /\ lost = 0
    /\ on \in BOOLEAN
    /\ setting = NULL
    /\ adv = NULL
    /\ rsp = NULL
    /\ result = "none"
    /\ told = "unknown"
    /\ whole = FALSE
    /\ smooth = TRUE
    /\ failures = 0

-----------------------------------------------------------------------------
(***************************************************************************)
(* How a call begins and ends.                                             *)
(***************************************************************************)

\* Mutant: the result of hci_open_dev is not looked at.
Open_Unchecked(first) == command' = first /\ result' = "none" /\ smooth' = TRUE

\* hci_open_dev: the call goes on with its first command, or returns -1.
Open(first) ==
    \/ /\ lost < MaxOpen
       /\ command' = first
       /\ result' = "none"
       /\ smooth' = TRUE
    \/ /\ command' = command
       /\ result' = "failed"
       /\ smooth' = (lost = MaxOpen)

Return == command' = "idle" /\ result' = "ok"

\* An error return of BleStopAdv, which closes the device.
CloseAndFail ==
    /\ command' = "idle"
    /\ result' = "failed"
    /\ UNCHANGED <<lost, failures>>

\* An error return of the two others, which leaves it open.
Fail ==
    /\ command' = "idle"
    /\ result' = "failed"
    /\ lost' = lost + 1
    /\ failures' = failures + 1

-----------------------------------------------------------------------------
(***************************************************************************)
(* BleStartAdv.  A controller takes no parameters while it advertises,     *)
(* which is why they are preceded by a disable; its result is not looked   *)
(* at.                                                                     *)
(***************************************************************************)

BleStartAdv ==
    /\ command = "idle"
    /\ params' \in Settings
    /\ Open("disable")
    /\ told' = "unknown"
    /\ UNCHANGED <<data, lost, controller, whole, failures>>

\* Mutant: the disable is forgotten.
DisableAdv_Forgotten ==
    /\ command = "disable"
    /\ command' = "params"
    /\ UNCHANGED <<params, data, lost, controller, advHistory>>

DisableAdv ==
    /\ command = "disable"
    /\ \/ on' = FALSE /\ smooth' = smooth
       \/ on' \in {FALSE, on} /\ smooth' = FALSE
    /\ command' = "params"
    /\ UNCHANGED <<params, data, lost, setting, adv, rsp, result, told, whole,
                   failures>>

SetAdvParameters ==
    /\ command = "params"
    /\ \/ /\ ~on
          /\ setting' = params
          /\ command' = "enable"
          /\ UNCHANGED <<lost, result, smooth, failures>>
       \/ /\ on
          /\ setting' = setting
          /\ Fail
          /\ smooth' = smooth
       \/ /\ setting' \in IF on THEN {setting} ELSE {setting, params}
          /\ Fail
          /\ smooth' = FALSE
    /\ UNCHANGED <<params, data, on, adv, rsp, told, whole>>

\* Mutant: the result of the enable is not looked at.
EnableAdv_Unchecked ==
    /\ command = "enable"
    /\ on' \in {on, TRUE}
    /\ Return
    /\ told' = "on"
    /\ UNCHANGED <<params, data, lost, setting, adv, rsp, whole, smooth, failures>>

EnableAdv ==
    /\ command = "enable"
    /\ \/ /\ on' = TRUE
          /\ Return
          /\ told' = "on"
          /\ UNCHANGED <<lost, smooth, failures>>
       \/ /\ on' \in {on, TRUE}
          /\ Fail
          /\ smooth' = FALSE
          /\ told' = told
    /\ UNCHANGED <<params, data, setting, adv, rsp, whole>>

-----------------------------------------------------------------------------
(***************************************************************************)
(* BleSetAdvData: the advertising data, then the scan response data.       *)
(***************************************************************************)

BleSetAdvData ==
    /\ command = "idle"
    /\ data' \in Payloads \X Payloads
    /\ Open("data")
    /\ whole' = FALSE
    /\ UNCHANGED <<params, lost, controller, told, failures>>

SetAdvertiseData ==
    /\ command = "data"
    /\ \/ /\ adv' = data[1]
          /\ command' = "response"
          /\ UNCHANGED <<lost, result, smooth, failures>>
       \/ /\ adv' \in {adv, data[1]}
          /\ Fail
          /\ smooth' = FALSE
    /\ UNCHANGED <<params, data, on, setting, rsp, told, whole>>

SetScanResponseData ==
    /\ command = "response"
    /\ \/ /\ rsp' = data[2]
          /\ Return
          /\ whole' = TRUE
          /\ UNCHANGED <<lost, smooth, failures>>
       \/ /\ rsp' \in {rsp, data[2]}
          /\ Fail
          /\ smooth' = FALSE
          /\ whole' = whole
    /\ UNCHANGED <<params, data, on, setting, adv, told>>

-----------------------------------------------------------------------------
(***************************************************************************)
(* BleStopAdv.                                                             *)
(***************************************************************************)

BleStopAdv ==
    /\ command = "idle"
    /\ Open("stop")
    /\ told' = "unknown"
    /\ UNCHANGED <<params, data, lost, controller, whole, failures>>

StopAdvertise ==
    /\ command = "stop"
    /\ \/ /\ on' = FALSE
          /\ Return
          /\ told' = "off"
          /\ UNCHANGED <<lost, smooth, failures>>
       \/ /\ on' \in {on, FALSE}
          /\ CloseAndFail
          /\ smooth' = FALSE
          /\ told' = told
    /\ UNCHANGED <<params, data, setting, adv, rsp, whole>>

-----------------------------------------------------------------------------
\* A peer connects to the advertising controller, which stops advertising.
PeerConnects ==
    /\ on
    /\ on' = FALSE
    /\ told' = IF told = "on" THEN "met" ELSE told
    /\ UNCHANGED <<call, lost, setting, adv, rsp, result, whole, smooth, failures>>

Commands ==
    \/ DisableAdv \/ SetAdvParameters \/ EnableAdv
    \/ SetAdvertiseData \/ SetScanResponseData
    \/ StopAdvertise

AdvNext ==
    \/ BleStartAdv \/ BleSetAdvData \/ BleStopAdv
    \/ Commands
    \/ PeerConnects

AdvSpec == AdvInit /\ [][AdvNext]_advVars

-----------------------------------------------------------------------------
(***************************************************************************)
(* Properties.                                                             *)
(***************************************************************************)

\* Once BleStartAdv has returned 0 (line 148) the controller advertises with
\* what it was given, until a peer connects, whatever calls of BleSetAdvData
\* come in between; once BleStopAdv has (line 192) it is silent; each until
\* the next start or stop, which may fail half way.  Once BleSetAdvData has
\* (line 174) both halves of the data are the ones it was given, also after
\* calls that failed between the two.
CallTakesEffect ==
    /\ told = "on" => on /\ setting = params
    /\ told \in {"off", "met"} => ~on
    /\ whole => adv = data[1] /\ rsp = data[2]

\* A call whose own commands all go well fails only when MaxOpen earlier
\* calls of BleStartAdv or BleSetAdvData failed, each of which kept its
\* descriptor (lines 139, 145, 164, 171): a start finds the controller ready
\* for its parameters also while it is advertising, and no other way out of
\* a call leaves the device open.
SmoothCallSucceeds ==
    (result = "failed" /\ smooth) => failures >= MaxOpen
=============================================================================
