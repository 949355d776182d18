-------------------------- MODULE HciDeviceProofs --------------------------
(***************************************************************************)
(* Theorems about the scanner (BleScan), the advertiser (BleAdvertise) and *)
(* the device they share (HciDevice), for any constants.  The two halves   *)
(* come first, each on its own; then what uses the descriptors of the      *)
(* device up, and what a scan that nobody reads comes from.                *)
(***************************************************************************)
EXTENDS HciDevice, FiniteSetTheorems, TLAPS

-----------------------------------------------------------------------------
(***************************************************************************)
(* The scanner, with any reader threads and any number of reports.         *)
(***************************************************************************)

\* A thread in the loop over the reports has one left.
DeliverHasReport == \A t \in Threads : reader[t] = "deliver" => left[t] >= 1

\* With the flag cleared, what a thread has passed on late and what it has
\* left of the event fit in one event, and a thread blocked in read() has
\* passed on nothing: it passed the test of the flag before the stop.
LateBudget ==
    running = 0 => \A t \in Threads :
        /\ late[t] <= MaxReports
        /\ reader[t] = "deliver" => late[t] + left[t] <= MaxReports
        /\ reader[t] = "read" => late[t] = 0

\* While the timing holds: one thread at most is undecided, and none during
\* a stop; a thread about to write the flag has no reader beside it, since
\* outside a stop a reader keeps the flag at 1.
OneDecides ==
    settled =>
        /\ \A t, u \in Threads : Undecided(t) /\ Undecided(u) => t = u
        /\ caller = "sleeping" => \A t \in Threads : ~Undecided(t)
        /\ \A t, u \in Threads : reader[t] = "claim" => ~Owns(u)
        /\ caller = "idle" /\ running = 0 => \A t \in Threads : ~Owns(t)

\* ReaderIsFed, for the threads that are not yet readers as well.
ThreadIsFed ==
    (settled /\ caller = "idle" /\ lastStart = "ok")
        => \A t \in Threads : reader[t] # "none" => scanning

ScanIInv ==
    /\ ScanTypeOK
    /\ DeliverHasReport
    /\ LateBudget
    /\ StuckFlagNeedsDeadReader
    /\ OneDecides
    /\ AtMostOneReader
    /\ ThreadIsFed

\* The scanner starts in its invariant,
LEMMA ScanStarts == ScanInit => ScanIInv
<1> USE DEF PcStates, Owns, Undecided
<1> SUFFICES ASSUME ScanInit PROVE ScanIInv
  OBVIOUS
<1> USE DEF ScanInit
<1>1. ScanTypeOK
  <2>1. 0 \in 0..MaxReports
    BY MaxReportsAssumption DEF MaxReportsAssumption
  <2>2. left \in [Threads -> 0..MaxReports] /\ late \in [Threads -> Nat]
    BY <2>1
  <2>3. reader \in [Threads -> PcStates]
    OBVIOUS
  <2> QED
    BY <2>2, <2>3 DEF ScanTypeOK
<1>2. DeliverHasReport
  BY DEF DeliverHasReport
<1>3. LateBudget
  BY MaxReportsAssumption DEF MaxReportsAssumption, LateBudget
<1>4. StuckFlagNeedsDeadReader
  BY DEF StuckFlagNeedsDeadReader
<1>5. OneDecides /\ AtMostOneReader /\ ThreadIsFed
  BY DEF OneDecides, AtMostOneReader, ThreadIsFed
<1> QED
  BY <1>1, <1>2, <1>3, <1>4, <1>5 DEF ScanIInv

\* and every step of it keeps that.
LEMMA ScanKept == ScanIInv /\ [ScanNext]_scanVars => ScanIInv'
<1> USE DEF PcStates, Owns, Undecided
<1> SUFFICES ASSUME ScanIInv, [ScanNext]_scanVars PROVE ScanIInv'
  OBVIOUS
<1> USE MaxReportsAssumption
    DEF MaxReportsAssumption, ScanIInv, ScanTypeOK, DeliverHasReport, LateBudget,
        StuckFlagNeedsDeadReader, OneDecides, AtMostOneReader, ThreadIsFed,
        Goto, scanHistory
<1>1. CASE SdkStep
  <2>1. CASE BleRegisterChannelCallback
    BY <2>1 DEF BleRegisterChannelCallback
  <2>2. CASE BleStartScan
    <3>1. PICK u \in Threads :
            /\ caller = "idle"
            /\ reader[u] = "none"
            /\ scanning' = TRUE
            /\ reader' = [reader EXCEPT ![u] = "check"]
            /\ late' = [late EXCEPT ![u] = 0]
            /\ settled' = (settled /\ \A v \in Threads : ~Undecided(v))
            /\ lastStart' = "ok"
            /\ UNCHANGED <<running, registered, caller, left, died>>
      BY <2>2 DEF BleStartScan, start_scan, SettlesAtCall
    <3>2. ScanTypeOK' /\ DeliverHasReport' /\ LateBudget'
      BY <3>1
    <3>3. \A v \in Threads : Owns(v)' <=> Owns(v)
      BY <3>1
    <3>4. StuckFlagNeedsDeadReader' /\ AtMostOneReader' /\ ThreadIsFed'
      BY <3>1, <3>3
    <3>5. OneDecides'
      BY <3>1, <3>3
    <3> QED
      BY <3>2, <3>4, <3>5
  <2>3. CASE BleStartScanFails
    BY <2>3 DEF BleStartScanFails
  <2>4. CASE BleStartScanUnthreaded
    BY <2>4 DEF BleStartScanUnthreaded, start_scan
  <2>5. CASE StopGetResult
    <3> USE DEF StopGetResult, SettlesAtCall
    <3>1. ScanTypeOK' /\ DeliverHasReport'
      BY <2>5
    <3>2. LateBudget'
      BY <2>5
    <3>3. StuckFlagNeedsDeadReader' /\ AtMostOneReader' /\ ThreadIsFed'
      BY <2>5
    <3>4. OneDecides'
      BY <2>5
    <3> QED
      BY <3>1, <3>2, <3>3, <3>4
  <2>6. CASE BleStopScan
    BY <2>6 DEF BleStopScan, SettlesAtSleep
  <2> QED
    BY <1>1, <2>1, <2>2, <2>3, <2>4, <2>5, <2>6 DEF SdkStep
<1>2. ASSUME NEW t \in Threads, RunStep(t) PROVE ScanIInv'
  <2>1. CASE CheckRunning(t)
    BY <2>1 DEF CheckRunning
  <2>2. CASE ClaimRunning(t)
    BY <2>2 DEF ClaimRunning
  <2>3. CASE OpenReader(t)
    <3>1. CASE Goto(t, "test") /\ UNCHANGED <<left, died>>
      BY <2>3, <3>1 DEF OpenReader
    <3>2. CASE LeaveLoop(t)
      BY <2>3, <3>2 DEF OpenReader, LeaveLoop
    <3> QED
      BY <2>3, <3>1, <3>2 DEF OpenReader
  <2>4. CASE TestRunning(t)
    BY <2>4 DEF TestRunning, LeaveLoop
  <2>5. CASE scan_callback(t)
    BY <2>5 DEF scan_callback
  <2> QED
    BY <1>2, <2>1, <2>2, <2>3, <2>4, <2>5 DEF RunStep
<1>3. ASSUME NEW t \in Threads, ReadStep(t) PROVE ScanIInv'
  <2>1. CASE ReadRetry(t)
    BY <2>1 DEF ReadRetry
  <2>2. CASE ReadOther(t)
    BY <2>2 DEF ReadOther, LeaveLoop
  <2>3. CASE ReadReports(t)
    BY <2>3 DEF ReadReports
  <2> QED
    BY <1>3, <2>1, <2>2, <2>3 DEF ReadStep
<1>4. CASE UNCHANGED scanVars
  BY <1>4 DEF scanVars, code
<1> QED
  BY <1>1, <1>2, <1>3, <1>4 DEF ScanNext

\* ScanIInv holds of every behaviour of the scanner.
THEOREM ScanInvariance == ScanSpec => []ScanIInv
  BY ScanStarts, ScanKept, PTL DEF ScanSpec

\* The safety properties of the scanner, as parts or consequences of ScanIInv:
\* the type invariant,
THEOREM ScanTyping == ScanSpec => []ScanTypeOK
<1>1. ScanIInv => ScanTypeOK
  BY DEF ScanIInv
<1> QED
  BY <1>1, ScanInvariance, PTL

\* the bound on what a reader passes on after a stop,
THEOREM LateCalls == ScanSpec => []LateCallBound
<1>1. ScanIInv => LateCallBound
  BY DEF ScanIInv, LateBudget, LateCallBound
<1> QED
  BY <1>1, ScanInvariance, PTL

\* the flag is stuck only by a reader that left its loop without a stop,
THEOREM StuckFlag == ScanSpec => []StuckFlagNeedsDeadReader
<1>1. ScanIInv => StuckFlagNeedsDeadReader
  BY DEF ScanIInv
<1> QED
  BY <1>1, ScanInvariance, PTL

\* no two readers while the timing holds,
THEOREM OneReader == ScanSpec => []AtMostOneReader
<1>1. ScanIInv => AtMostOneReader
  BY DEF ScanIInv
<1> QED
  BY <1>1, ScanInvariance, PTL

\* and a reader's controller is scanning while the timing holds.
THEOREM FedReader == ScanSpec => []ReaderIsFed
<1>1. ScanIInv => ReaderIsFed
  BY DEF ScanIInv, ThreadIsFed, ReaderIsFed, Owns
<1> QED
  BY <1>1, ScanInvariance, PTL

-----------------------------------------------------------------------------
(***************************************************************************)
(* The advertiser, with any settings, payloads and number of descriptors.  *)
(* Its invariant says how far the call under way has come.                 *)
(***************************************************************************)

\* A start or a stop under way leaves the SDK in the dark; before its enable
\* the parameters are set, and before they are, a smooth start is disabled.
StartProgress ==
    /\ command \in {"disable", "params", "enable", "stop"} => told = "unknown"
    /\ command = "enable" => setting = params
    /\ (command = "params" /\ smooth) => ~on

\* Half of the data is there before the other is sent.
DataProgress ==
    /\ command \in {"data", "response"} => ~whole
    /\ command = "response" => adv = data[1]

\* A call under way has a descriptor, and no more are lost than calls failed.
Descriptors ==
    /\ command # "idle" => lost < MaxOpen /\ result = "none"
    /\ lost <= failures

AdvIInv ==
    /\ AdvTypeOK
    /\ StartProgress
    /\ DataProgress
    /\ Descriptors
    /\ CallTakesEffect
    /\ SmoothCallSucceeds

\* The advertiser starts in its invariant,
LEMMA AdvStarts == AdvInit => AdvIInv
<1> USE PayloadsAssumption, MaxOpenAssumption
        DEF PayloadsAssumption, MaxOpenAssumption
<1> SUFFICES ASSUME AdvInit PROVE AdvIInv
  OBVIOUS
<1>1. AdvTypeOK
  <2>1. data \in (Payloads \cup {NULL}) \X (Payloads \cup {NULL})
    BY DEF AdvInit
  <2>2. lost \in 0..MaxOpen /\ failures \in Nat
    BY DEF AdvInit
  <2>3. on \in BOOLEAN /\ whole \in BOOLEAN /\ smooth \in BOOLEAN
    BY DEF AdvInit
  <2> QED
    BY <2>1, <2>2, <2>3 DEF AdvInit, AdvTypeOK
<1>2. StartProgress /\ DataProgress /\ Descriptors
  BY DEF AdvInit, StartProgress, DataProgress, Descriptors
<1>3. CallTakesEffect /\ SmoothCallSucceeds
  BY DEF AdvInit, CallTakesEffect, SmoothCallSucceeds
<1> QED
  BY <1>1, <1>2, <1>3 DEF AdvIInv

\* and every step of it keeps that.
LEMMA AdvKept == AdvIInv /\ [AdvNext]_advVars => AdvIInv'
<1> USE PayloadsAssumption, MaxOpenAssumption
        DEF PayloadsAssumption, MaxOpenAssumption
<1> SUFFICES ASSUME AdvIInv, [AdvNext]_advVars
             PROVE  AdvIInv'
  OBVIOUS
<1> USE DEF AdvIInv, AdvTypeOK, StartProgress, DataProgress, Descriptors, CallTakesEffect,
            SmoothCallSucceeds, call, controller, advHistory
<1>1. CASE BleStartAdv
  BY <1>1 DEF BleStartAdv, Open
<1>2. CASE DisableAdv
  BY <1>2 DEF DisableAdv
<1>3. CASE SetAdvParameters
  <2>0. \/ UNCHANGED <<lost, failures>>
        \/ lost < MaxOpen /\ lost' = lost + 1 /\ failures' = failures + 1
    BY <1>3 DEF SetAdvParameters, Fail
  <2>1. AdvTypeOK'
    <3>1. lost' \in 0..MaxOpen /\ failures' \in Nat
      BY <2>0
    <3>2. on' \in BOOLEAN /\ whole' \in BOOLEAN /\ smooth' \in BOOLEAN
      BY <1>3 DEF SetAdvParameters, Fail
    <3> QED
      BY <1>3, <3>1, <3>2 DEF SetAdvParameters, Fail
  <2>2. StartProgress' /\ DataProgress'
    BY <1>3 DEF SetAdvParameters, Fail
  <2>3. Descriptors'
    <3>1. (lost <= failures)'
      BY <2>0
    <3>2. (command # "idle" => lost < MaxOpen /\ result = "none")'
      BY <1>3 DEF SetAdvParameters, Fail
    <3> QED
      BY <3>1, <3>2
  <2>4. CallTakesEffect'
    BY <1>3 DEF SetAdvParameters, Fail
  <2>5. SmoothCallSucceeds'
    BY <1>3 DEF SetAdvParameters, Fail
  <2> QED
    BY <2>1, <2>2, <2>3, <2>4, <2>5
<1>4. CASE EnableAdv
  <2>0. \/ UNCHANGED <<lost, failures>>
        \/ lost < MaxOpen /\ lost' = lost + 1 /\ failures' = failures + 1
    BY <1>4 DEF EnableAdv, Return, Fail
  <2>1. AdvTypeOK'
    <3>1. lost' \in 0..MaxOpen /\ failures' \in Nat
      BY <2>0
    <3>2. on' \in BOOLEAN /\ whole' \in BOOLEAN /\ smooth' \in BOOLEAN
      BY <1>4 DEF EnableAdv, Return, Fail
    <3> QED
      BY <1>4, <3>1, <3>2 DEF EnableAdv, Return, Fail
  <2>2. StartProgress' /\ DataProgress'
    BY <1>4 DEF EnableAdv, Return, Fail
  <2>3. Descriptors'
    <3>1. (lost <= failures)'
      BY <2>0
    <3>2. (command # "idle" => lost < MaxOpen /\ result = "none")'
      BY <1>4 DEF EnableAdv, Return, Fail
    <3> QED
      BY <3>1, <3>2
  <2>4. CallTakesEffect'
    BY <1>4 DEF EnableAdv, Return, Fail
  <2>5. SmoothCallSucceeds'
    BY <1>4 DEF EnableAdv, Return, Fail
  <2> QED
    BY <2>1, <2>2, <2>3, <2>4, <2>5
<1>5. CASE BleSetAdvData
  BY <1>5 DEF BleSetAdvData, Open
<1>6. CASE SetAdvertiseData
  <2>0. \/ UNCHANGED <<lost, failures>>
        \/ lost < MaxOpen /\ lost' = lost + 1 /\ failures' = failures + 1
    BY <1>6 DEF SetAdvertiseData, Fail
  <2>1. AdvTypeOK'
    <3>1. lost' \in 0..MaxOpen /\ failures' \in Nat
      BY <2>0
    <3>2. on' \in BOOLEAN /\ whole' \in BOOLEAN /\ smooth' \in BOOLEAN
      BY <1>6 DEF SetAdvertiseData, Fail
    <3> QED
      BY <1>6, <3>1, <3>2 DEF SetAdvertiseData, Fail
  <2>2. StartProgress' /\ DataProgress'
    BY <1>6 DEF SetAdvertiseData, Fail
  <2>3. Descriptors'
    <3>1. (lost <= failures)'
      BY <2>0
    <3>2. (command # "idle" => lost < MaxOpen /\ result = "none")'
      BY <1>6 DEF SetAdvertiseData, Fail
    <3> QED
      BY <3>1, <3>2
  <2>4. CallTakesEffect'
    BY <1>6 DEF SetAdvertiseData, Fail
  <2>5. SmoothCallSucceeds'
    BY <1>6 DEF SetAdvertiseData, Fail
  <2> QED
    BY <2>1, <2>2, <2>3, <2>4, <2>5
<1>7. CASE SetScanResponseData
  <2>0. \/ UNCHANGED <<lost, failures>>
        \/ lost < MaxOpen /\ lost' = lost + 1 /\ failures' = failures + 1
    BY <1>7 DEF SetScanResponseData, Return, Fail
  <2>1. AdvTypeOK'
    <3>1. lost' \in 0..MaxOpen /\ failures' \in Nat
      BY <2>0
    <3>2. on' \in BOOLEAN /\ whole' \in BOOLEAN /\ smooth' \in BOOLEAN
      BY <1>7 DEF SetScanResponseData, Return, Fail
    <3> QED
      BY <1>7, <3>1, <3>2 DEF SetScanResponseData, Return, Fail
  <2>2. StartProgress' /\ DataProgress'
    BY <1>7 DEF SetScanResponseData, Return, Fail
  <2>3. Descriptors'
    <3>1. (lost <= failures)'
      BY <2>0
    <3>2. (command # "idle" => lost < MaxOpen /\ result = "none")'
      BY <1>7 DEF SetScanResponseData, Return, Fail
    <3> QED
      BY <3>1, <3>2
  <2>4. CallTakesEffect'
    BY <1>7 DEF SetScanResponseData, Return, Fail
  <2>5. SmoothCallSucceeds'
    BY <1>7 DEF SetScanResponseData, Return, Fail
  <2> QED
    BY <2>1, <2>2, <2>3, <2>4, <2>5
<1>8. CASE BleStopAdv
  BY <1>8 DEF BleStopAdv, Open
<1>9. CASE StopAdvertise
  BY <1>9 DEF StopAdvertise, Return, CloseAndFail
<1>10. CASE PeerConnects
  <2> USE <1>10 DEF PeerConnects
  <2>1. AdvTypeOK'
    <3>1. on' \in BOOLEAN
      OBVIOUS
    <3> QED
      BY <3>1
  <2>2. StartProgress' /\ DataProgress' /\ Descriptors'
    OBVIOUS
  <2>3. CallTakesEffect' /\ SmoothCallSucceeds'
    OBVIOUS
  <2> QED
    BY <2>1, <2>2, <2>3
<1>11. CASE UNCHANGED advVars
  BY <1>11 DEF advVars
<1> QED
  BY <1>1, <1>2, <1>3, <1>4, <1>5, <1>6, <1>7, <1>8, <1>9, <1>10, <1>11
     DEF AdvNext, Commands

\* AdvIInv holds of every behaviour of the advertiser.
THEOREM AdvInvariance == AdvSpec => []AdvIInv
  BY AdvStarts, AdvKept, PTL DEF AdvSpec

\* The variables keep their types.
THEOREM AdvTyping == AdvSpec => []AdvTypeOK
<1>1. AdvIInv => AdvTypeOK
  BY DEF AdvIInv
<1> QED
  BY <1>1, AdvInvariance, PTL

\* What a start or a stop that returned 0 says of the controller is so.
THEOREM EffectiveCalls == AdvSpec => []CallTakesEffect
<1>1. AdvIInv => CallTakesEffect
  BY DEF AdvIInv
<1> QED
  BY <1>1, AdvInvariance, PTL

\* Calls fail only with a command, or once failures have used the descriptors up.
THEOREM SmoothCalls == AdvSpec => []SmoothCallSucceeds
<1>1. AdvIInv => SmoothCallSucceeds
  BY DEF AdvIInv
<1> QED
  BY <1>1, AdvInvariance, PTL

-----------------------------------------------------------------------------
(***************************************************************************)
(* Every step of the driver is a step of each half, or leaves it alone.    *)
(***************************************************************************)

\* A step of the driver as the scanner sees it,
LEMMA StepOfScan == [Next]_vars => [ScanNext]_scanVars
<1> SUFFICES ASSUME [Next]_vars PROVE [ScanNext]_scanVars
  OBVIOUS
<1> USE DEF ScanNext, scanVars, code, scanHistory
<1>1. CASE g_fcAdaptBleOps
  <2>1. CASE \/ StartScan \/ stop_get_result \/ StopScan
             \/ RegisterChannelCallback
    BY <2>1 DEF StartScan, stop_get_result, StopScan, RegisterChannelCallback,
                SdkStep
  <2>2. CASE Advertises
    BY <2>2 DEF Advertises
  <2> QED
    BY <1>1, <2>1, <2>2
       DEF g_fcAdaptBleOps, StartAdv, hci_le_set_advertise_enable,
           hci_le_set_advertise_parameters, StopAdv, stop_advertise, SetAdvData,
           hci_le_set_advertise_data, hci_le_set_scan_response_data
<1>2. ASSUME NEW t \in Threads, ReaderStep(t) \/ ReaderReads(t)
      PROVE  ScanNext
  BY <1>2 DEF ReaderStep, ReaderClaims, ReaderOpens, ReaderTests, ReaderDelivers, ReaderReads,
              RunStep
<1>3. CASE PeerEndsAdv \/ UNCHANGED vars
  BY <1>3 DEF PeerEndsAdv, vars
<1> QED
  BY <1>1, <1>2, <1>3 DEF Next

\* and as the advertiser sees it.
LEMMA StepOfAdv == [Next]_vars => [AdvNext]_advVars
<1> SUFFICES ASSUME [Next]_vars PROVE [AdvNext]_advVars
  OBVIOUS
<1> USE DEF AdvNext, advVars, call, controller, advHistory
<1>1. CASE g_fcAdaptBleOps
  <2>1. CASE Scans
    BY <2>1 DEF Scans
  <2>2. CASE AdvNext
    BY <2>2
  <2> QED
    BY <1>1, <2>1, <2>2
       DEF g_fcAdaptBleOps, StartAdv, hci_le_set_advertise_enable,
           hci_le_set_advertise_parameters, StopAdv, stop_advertise, SetAdvData,
           hci_le_set_advertise_data, hci_le_set_scan_response_data, Commands, StartScan,
           stop_get_result, StopScan, RegisterChannelCallback
<1>2. CASE \E t \in Threads : ReaderStep(t) \/ (ReaderReads(t) /\ UNCHANGED advVars)
  BY <1>2 DEF ReaderStep
<1>3. CASE PeerEndsAdv \/ UNCHANGED vars
  BY <1>3 DEF PeerEndsAdv, vars
<1> QED
  BY <1>1, <1>2, <1>3 DEF Next

-----------------------------------------------------------------------------
(***************************************************************************)
(* The invariants of the halves, and the descriptors.                      *)
(***************************************************************************)

IInv ==
    /\ ScanIInv
    /\ AdvIInv
    /\ RunsDryByFailures
    /\ ScanHasReader

\* While the timing holds, the readers hold one descriptor at most.
LEMMA OneHolder ==
    ASSUME ScanIInv, settled
    PROVE  Cardinality({t \in Threads : Holds(t)}) \in {0, 1}
<1> DEFINE H == {t \in Threads : Holds(t)}
<1>1. \A t, u \in H : t = u
  BY DEF ScanIInv, AtMostOneReader, Owns, Holds
<1>2. CASE H = {}
  BY <1>2, FS_EmptySet
<1>3. CASE H # {}
  <2>1. PICK t \in H : TRUE
    BY <1>3
  <2>2. H = {t}
    BY <1>1, <2>1
  <2> QED
    BY <2>2, FS_Singleton
<1> QED
  BY <1>2, <1>3

\* So an open that finds no descriptor has MaxOpen - 1 failures behind it:
\* an advertising or a scan call comes when no other call is under way,
LEMMA CallFindsNone ==
    ASSUME IInv, settled, command = "idle", ~Spare
    PROVE  failures >= MaxOpen - 1
<1>1. Cardinality({t \in Threads : Holds(t)}) \in {0, 1}
  BY OneHolder DEF IInv
<1>2. lost \in Nat /\ failures \in Nat /\ lost <= failures
  BY MaxOpenAssumption DEF MaxOpenAssumption, IInv, AdvIInv, AdvTypeOK, Descriptors
<1> QED
  BY <1>1, <1>2, MaxOpenAssumption DEF MaxOpenAssumption, Spare, Used

\* and a thread that opens the device is itself the one reader.
LEMMA ReaderFindsNone ==
    ASSUME IInv, settled, NEW t \in Threads, reader[t] = "open", ~Spare
    PROVE  failures >= MaxOpen - 1
<1>1. {u \in Threads : Holds(u)} = {}
  BY DEF IInv, ScanIInv, AtMostOneReader, Owns, Holds
<1>2. Cardinality({u \in Threads : Holds(u)}) = 0
  BY <1>1, FS_EmptySet
<1>3. lost \in Nat /\ failures \in Nat /\ lost <= failures
  BY MaxOpenAssumption DEF MaxOpenAssumption, IInv, AdvIInv, AdvTypeOK, Descriptors
<1> QED
  BY <1>2, <1>3, MaxOpenAssumption DEF MaxOpenAssumption, Spare, Used

\* No step takes a failure back, nor an end of the readers' timing.
LEMMA FailuresGrow ==
    ASSUME AdvIInv, [AdvNext]_advVars
    PROVE  failures' >= failures
<1>1. failures \in Nat
  BY DEF AdvIInv, AdvTypeOK
<1>2. failures' = failures \/ failures' = failures + 1
  BY DEF advVars, AdvNext, Commands, call, controller, advHistory,
         BleStartAdv, BleSetAdvData, BleStopAdv,
         DisableAdv, SetAdvParameters, EnableAdv, SetAdvertiseData,
         SetScanResponseData, StopAdvertise, PeerConnects,
         Fail, CloseAndFail
<1> QED
  BY <1>1, <1>2

LEMMA SettledShrinks ==
    ASSUME [ScanNext]_scanVars
    PROVE  settled' => settled
<1> USE DEF scanHistory, SettlesAtCall, SettlesAtSleep
<1>1. SdkStep => (settled' => settled)
  BY DEF SdkStep, BleRegisterChannelCallback, BleStartScan,
         BleStartScanFails, BleStartScanUnthreaded, StopGetResult,
         BleStopScan
<1>2. ASSUME NEW t \in Threads, RunStep(t) \/ ReadStep(t)
      PROVE  settled' = settled
  BY <1>2 DEF RunStep, CheckRunning, ClaimRunning, OpenReader,
              TestRunning, scan_callback, ReadStep, ReadRetry,
              ReadOther, ReadReports
<1> QED
  BY <1>1, <1>2 DEF ScanNext, scanVars

\* A step that finds the table empty is a call, or a reader's open.
LEMMA DrySteps ==
    ASSUME [Next]_vars
    PROVE  \/ dry' = dry
           \/ /\ dry' = (dry \/ ~Spare)
              /\ \/ command = "idle"
                 \/ \E t \in Threads : reader[t] = "open"
<1>1. CASE g_fcAdaptBleOps
  <2>1. CASE StartAdv \/ SetAdvData \/ StopAdv
    BY <2>1 DEF StartAdv, SetAdvData, StopAdv, hci_open_dev,
                BleStartAdv, BleSetAdvData, BleStopAdv
  <2>2. CASE StartScan \/ StopScan
    BY <2>2 DEF StartScan, StopScan, hci_open_dev, Scans
  <2> QED
    BY <1>1, <2>1, <2>2
       DEF g_fcAdaptBleOps, hci_le_set_advertise_enable, hci_le_set_advertise_parameters,
           stop_advertise, hci_le_set_advertise_data, hci_le_set_scan_response_data,
           stop_get_result, RegisterChannelCallback
<1>2. ASSUME NEW t \in Threads, ReaderStep(t) \/ ReaderReads(t)
      PROVE  \/ dry' = dry
             \/ dry' = (dry \/ ~Spare) /\ reader[t] = "open"
  BY <1>2 DEF ReaderStep, ReaderClaims, ReaderOpens, ReaderTests, ReaderDelivers, ReaderReads,
              OpenReader, hci_open_dev
<1>3. CASE PeerEndsAdv \/ UNCHANGED vars
  BY <1>3 DEF PeerEndsAdv, vars
<1> QED
  BY <1>1, <1>2, <1>3 DEF Next

\* A step of a reader keeps the scan read: the last one to go leaves the
\* flag at 1, which is a death, or could not open its device.
LEMMA ReaderLeaves ==
    ASSUME IInv, NEW t \in Threads,
           ReaderStep(t) \/ (ReaderReads(t) /\ UNCHANGED advVars)
    PROVE  ScanHasReader'
<1> SUFFICES ASSUME settled', caller' = "idle", scanning', ~spoilt', ~died'
             PROVE  \E u \in Threads : reader'[u] # "none"
  BY DEF ScanHasReader
<1> USE DEF scanHistory, Goto
<1>1. ScanTypeOK
  BY DEF IInv, ScanIInv
<1> USE <1>1 DEF ScanTypeOK, PcStates
<1>2. ASSUME reader' = [reader EXCEPT ![t] = "none"], running = 1, caller = "idle", settled, ~died,
             reader[t] = "check"
      PROVE  \E u \in Threads : reader'[u] # "none"
  BY <1>2 DEF IInv, ScanIInv, StuckFlagNeedsDeadReader, Owns
<1>3. ASSUME LeaveLoop(t), caller = "idle", settled, Owns(t)
      PROVE  FALSE
  BY <1>3 DEF LeaveLoop, IInv, ScanIInv, OneDecides
<1>4. CASE ReaderStep(t)
  <2>1. CASE CheckRunning(t)
    BY <1>2, <2>1 DEF CheckRunning
  <2>2. CASE ClaimRunning(t)
    BY <2>2 DEF ClaimRunning
  <2>3. CASE ReaderOpens(t)
    BY <2>3 DEF ReaderOpens, OpenReader, LeaveLoop
  <2>4. CASE TestRunning(t)
    BY <1>3, <2>4 DEF TestRunning, Owns
  <2>5. CASE scan_callback(t)
    BY <2>5 DEF scan_callback
  <2> QED
    BY <1>4, <2>1, <2>2, <2>3, <2>4, <2>5
       DEF ReaderStep, ReaderClaims, ReaderTests, ReaderDelivers
<1>5. CASE ReaderReads(t)
  <2>1. CASE ReadRetry(t)
    BY <2>1 DEF ReadRetry
  <2>2. CASE ReadOther(t)
    BY <1>3, <2>2 DEF ReadOther, Owns
  <2>3. CASE ReadReports(t)
    BY <2>3 DEF ReadReports
  <2> QED
    BY <1>5, <2>1, <2>2, <2>3 DEF ReaderReads, ReadStep
<1> QED
  BY <1>4, <1>5

\* So does a step of the SDK: a start spawns a reader, or fails, or spoils
\* the scan; a stop ends the scan or spoils it.
LEMMA CallKeepsReader ==
    ASSUME IInv, g_fcAdaptBleOps
    PROVE  ScanHasReader'
<1> SUFFICES ASSUME settled', caller' = "idle", scanning', ~spoilt', ~died'
             PROVE  \E u \in Threads : reader'[u] # "none"
  BY DEF ScanHasReader
<1> USE DEF scanHistory
<1>1. CASE StartScan
  <2>1. CASE BleStartScan
    BY <2>1 DEF BleStartScan, IInv, ScanIInv, ScanTypeOK
  <2> QED
    BY <1>1, <2>1 DEF StartScan
<1>2. CASE StopScan
  BY <1>2 DEF StopScan
<1>3. CASE stop_get_result
  BY <1>3 DEF stop_get_result, StopGetResult
<1>4. CASE RegisterChannelCallback
  <2>1. ScanHasReader /\ settled /\ caller = "idle" /\ scanning /\ ~spoilt /\ ~died
    BY <1>4 DEF RegisterChannelCallback, BleRegisterChannelCallback, IInv
  <2> QED
    BY <1>4, <2>1
       DEF RegisterChannelCallback, BleRegisterChannelCallback, ScanHasReader
<1>5. CASE Advertises
  BY <1>5 DEF Advertises, scanVars, code, scanHistory, IInv, ScanHasReader
<1> QED
  BY <1>1, <1>2, <1>3, <1>4, <1>5
     DEF g_fcAdaptBleOps, StartAdv, hci_le_set_advertise_enable,
         hci_le_set_advertise_parameters, StopAdv, stop_advertise, SetAdvData,
         hci_le_set_advertise_data, hci_le_set_scan_response_data

\* IInv holds of every behaviour of the driver: the invariants of both
\* halves, and what this module says of the two together.
THEOREM Invariance == Spec => []IInv
<1>1. Init => IInv
  BY ScanStarts, AdvStarts DEF Init, IInv, RunsDryByFailures, ScanHasReader, ScanInit
<1>2. IInv /\ [Next]_vars => IInv'
  <2> SUFFICES ASSUME IInv, [Next]_vars PROVE IInv'
    OBVIOUS
  <2>1. ScanIInv'
    BY StepOfScan, ScanKept DEF IInv
  <2>2. AdvIInv'
    BY StepOfAdv, AdvKept DEF IInv
  <2>3. RunsDryByFailures'
    <3> SUFFICES ASSUME settled', dry' PROVE failures' >= MaxOpen - 1
      BY DEF RunsDryByFailures
    <3>1. settled
      BY StepOfScan, SettledShrinks
    <3>2. failures' >= failures /\ failures \in Nat /\ failures' \in Nat
      BY <2>2, StepOfAdv, FailuresGrow DEF IInv, AdvIInv, AdvTypeOK
    <3>3. failures >= MaxOpen - 1
      <4>1. CASE dry
        BY <3>1, <4>1 DEF IInv, RunsDryByFailures
      <4>2. CASE ~dry
        <5>1. ~Spare /\ (command = "idle" \/ \E t \in Threads : reader[t] = "open")
          BY <4>2, DrySteps
        <5> QED
          BY <3>1, <5>1, CallFindsNone, ReaderFindsNone
      <4> QED
        BY <4>1, <4>2
    <3> QED
      BY <3>2, <3>3, MaxOpenAssumption DEF MaxOpenAssumption
  <2>4. ScanHasReader'
    <3>1. CASE PeerEndsAdv \/ UNCHANGED vars
      BY <3>1 DEF PeerEndsAdv, vars, scanVars, code, scanHistory, IInv, ScanHasReader
    <3> QED
      BY <3>1, ReaderLeaves, CallKeepsReader DEF Next
  <2> QED
    BY <2>1, <2>2, <2>3, <2>4 DEF IInv
<1> QED
  BY <1>1, <1>2, PTL DEF Spec

\* No open finds the table empty before MaxOpen - 1 advertising calls failed.
THEOREM DryByFailures == Spec => []RunsDryByFailures
<1>1. IInv => RunsDryByFailures
  BY DEF IInv
<1> QED
  BY <1>1, Invariance, PTL

\* A scan that nobody reads has a failure behind it.
THEOREM ReadScan == Spec => []ScanHasReader
<1>1. IInv => ScanHasReader
  BY DEF IInv
<1> QED
  BY <1>1, Invariance, PTL
=============================================================================
