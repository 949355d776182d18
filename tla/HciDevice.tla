----------------------------- MODULE HciDevice -----------------------------
(***************************************************************************)
(* The receiver's driver, Linux-en/driver_ble_rx.c, on its HCI device: the *)
(* advertising calls and the scan calls of one SDK thread, and the reader  *)
(* threads the scan calls spawn.  Both halves open the same device and     *)
(* take their descriptors from the same table: an advertising call that    *)
(* fails keeps its descriptor for ever, a reader holds one for as long as  *)
(* it listens, and either may find none left.                              *)
(*                                                                         *)
(* The halves are the components BleScan and BleAdvertise, whose variables *)
(* and actions this module composes: a step of one leaves the other's      *)
(* alone, the SDK is inside one call of the two at a time, and             *)
(* hci_open_dev is bound by the shared table.  The actions have the names  *)
(* of the fields of g_fcAdaptBleOps, those of the halves the names of the  *)
(* functions behind them.                                                  *)
(***************************************************************************)
EXTENDS BleScan, BleAdvertise

ASSUME ThreadsAssumption == IsFiniteSet(Threads)
VARIABLES
    \* History of the run, read by the properties and by no action:
    dry,     \* has an open found every descriptor taken?
    spoilt   \* has a scan call or a reader failed since BleStopScan last returned 0?

vars == <<scanVars, advVars, dry, spoilt>>

Init == ScanInit /\ AdvInit /\ dry = FALSE /\ spoilt = FALSE

-----------------------------------------------------------------------------
(***************************************************************************)
(* The descriptor table.                                                   *)
(***************************************************************************)

\* Thread t has opened the device and not yet closed it.
Holds(t) == reader[t] \in {"test", "read", "deliver"}

\* Descriptors taken: lost ones, readers', and that of the call under way.
Used == lost + Cardinality({t \in Threads : Holds(t)})
             + (IF command = "idle" THEN 0 ELSE 1)

Spare == Used < MaxOpen

\* hci_open_dev by a step that went on, or else failed.
hci_open_dev(opened) ==
    /\ opened => Spare
    /\ dry' = (dry \/ ~Spare)

-----------------------------------------------------------------------------
(***************************************************************************)
(* The advertising calls.                                                  *)
(***************************************************************************)

\* A step of an advertising call: the SDK thread is not in BleStopScan.
Advertises == caller = "idle" /\ UNCHANGED <<scanVars, spoilt>>

StartAdv   == Advertises /\ BleStartAdv   /\ hci_open_dev(command' # "idle")
SetAdvData == Advertises /\ BleSetAdvData /\ hci_open_dev(command' # "idle")
StopAdv    == Advertises /\ BleStopAdv    /\ hci_open_dev(command' # "idle")

\* The commands of BleStartAdv, after its open; a failure of the second or
\* the third keeps the descriptor.
hci_le_set_advertise_enable == Advertises /\ (DisableAdv \/ EnableAdv) /\ UNCHANGED dry
hci_le_set_advertise_parameters == Advertises /\ SetAdvParameters /\ UNCHANGED dry

\* The two of BleSetAdvData.
hci_le_set_advertise_data    == Advertises /\ SetAdvertiseData /\ UNCHANGED dry
hci_le_set_scan_response_data == Advertises /\ SetScanResponseData /\ UNCHANGED dry

\* The one of BleStopAdv, which closes the device in any case.
stop_advertise == Advertises /\ StopAdvertise /\ UNCHANGED dry

-----------------------------------------------------------------------------
(***************************************************************************)
(* The scan calls.                                                         *)
(***************************************************************************)

\* A step of a scan call: the SDK thread is in no advertising call.
Scans == command = "idle" /\ UNCHANGED advVars

RegisterChannelCallback ==
    Scans /\ BleRegisterChannelCallback /\ UNCHANGED <<dry, spoilt>>

\* The device is opened, set up by start_scan and closed, and the thread
\* spawned; a failed open sends no command.
StartScan ==
    /\ Scans
    /\ \/ BleStartScan /\ UNCHANGED spoilt
       \/ BleStartScanUnthreaded /\ spoilt' = TRUE
       \/ /\ BleStartScanFails
          /\ Spare \/ scanning' = scanning
          /\ spoilt' = TRUE
    /\ hci_open_dev(lastStart' = "ok")

stop_get_result == Scans /\ StopGetResult /\ UNCHANGED <<dry, spoilt>>

\* Mutant: BleStopScan returns 0 whatever became of its disable.
StopScan_Unchecked ==
    /\ Scans
    /\ BleStopScan
    /\ spoilt' = FALSE
    /\ hci_open_dev(Spare)

\* The second half of BleStopScan: it returns 0 if the device is opened and
\* stop_scan succeeds, which is when the scan is off for certain.
StopScan ==
    /\ Scans
    /\ BleStopScan
    /\ \/ Spare /\ ~scanning' /\ spoilt' = FALSE
       \/ (Spare \/ scanning' = scanning) /\ spoilt' = TRUE
    /\ hci_open_dev(Spare)

-----------------------------------------------------------------------------
(***************************************************************************)
(* The reader threads and the peer.                                        *)
(***************************************************************************)

\* start_get_result once it has set the flag: without a device the thread
\* returns and the flag stays.
ReaderOpens(t) ==
    /\ OpenReader(t)
    /\ hci_open_dev(reader'[t] = "test")
    /\ spoilt' = (spoilt \/ reader'[t] = "none")

\* start_get_result up to the claim of the flag.
ReaderClaims(t) == (CheckRunning(t) \/ ClaimRunning(t)) /\ UNCHANGED <<dry, spoilt>>

\* The loop of hci_le_get_advertising_reports and its way out, which closes.
ReaderTests(t) == TestRunning(t) /\ UNCHANGED <<dry, spoilt>>
ReaderReads(t) == ReadStep(t) /\ UNCHANGED <<dry, spoilt>>
ReaderDelivers(t) == scan_callback(t) /\ UNCHANGED <<dry, spoilt>>

ReaderStep(t) ==
    /\ ReaderClaims(t) \/ ReaderOpens(t) \/ ReaderTests(t) \/ ReaderDelivers(t)
    /\ UNCHANGED advVars

\* A connection ends the advertising; its completion is an LE meta event,
\* with which ReadStep may end a reader.
PeerEndsAdv == PeerConnects /\ UNCHANGED <<scanVars, dry, spoilt>>

-----------------------------------------------------------------------------
\* What the driver offers the SDK.
g_fcAdaptBleOps ==
    \/ StartAdv \/ hci_le_set_advertise_enable \/ hci_le_set_advertise_parameters
    \/ StopAdv \/ stop_advertise
    \/ SetAdvData \/ hci_le_set_advertise_data \/ hci_le_set_scan_response_data
    \/ StartScan
    \/ stop_get_result \/ StopScan
    \/ RegisterChannelCallback

Next ==
    \/ g_fcAdaptBleOps
    \/ \E t \in Threads : ReaderStep(t) \/ (ReaderReads(t) /\ UNCHANGED advVars)
    \/ PeerEndsAdv

Spec == Init /\ [][Next]_vars

-----------------------------------------------------------------------------
(***************************************************************************)
(* Properties.                                                             *)
(***************************************************************************)

\* While the readers keep to their timing, it is failed advertising calls
\* (lines 366, 372, 391, 398) that use the table up, all but one descriptor
\* of it: no sequence of scan calls and readers leaves a device open, and no
\* two readers hold one at a time.
RunsDryByFailures ==
    (settled /\ dry) => failures >= MaxOpen - 1

\* The controller is left scanning with nobody to read it only by a failure:
\* of a scan call since the last BleStopScan that returned 0 (line 464), of
\* a reader's open (line 716), or of a reader that left its loop on its own.
ScanHasReader ==
    (settled /\ caller = "idle" /\ scanning /\ ~spoilt /\ ~died)
        => \E t \in Threads : reader[t] # "none"
=============================================================================
