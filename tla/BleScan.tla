------------------------------ MODULE BleScan ------------------------------
(***************************************************************************)
(* The scanner of the transmitter's BLE driver, Linux-en/driver_ble_tx.c   *)
(* (the receiver's driver_ble_rx.c has the same code): BleStartScan turns  *)
(* the controller's scan on and spawns a detached thread that runs         *)
(* start_get_result; BleStopScan clears g_scan_running, sleeps one second  *)
(* and turns the scan off.  The flag is the only thing the SDK thread and  *)
(* the reader threads share, it has no lock, and read() has no timeout.    *)
(*                                                                         *)
(* The SDK is one caller: it makes one driver call at a time.  Threads is  *)
(* the set of reader threads that can exist at once (a detached thread     *)
(* that returned is free to be spawned again).                             *)
(***************************************************************************)
EXTENDS Naturals, FiniteSets

CONSTANTS Threads,     \* reader threads: slots for pthread_create
          MaxReports   \* most advertising reports carried by one LE meta event

ASSUME MaxReportsAssumption == MaxReports \in Nat \ {0}

VARIABLES
    running,    \* g_scan_running
    scanning,   \* is the controller's LE scan enabled?
    registered, \* g_channel_cb is set and has a ScanCallback
    caller,     \* the SDK thread: "idle", or "sleeping" inside stop_get_result
    reader,     \* its pc: reader[t] is where thread t is in start_get_result
    left,       \* left[t]: reports of the current event not yet passed on
    \* History of the run, read by the properties and by no action:
    late,       \* late[t]: ScanCallback calls of t since the flag was cleared
    died,       \* did a reader leave its loop with the flag still 1?
    settled,    \* has the driver's timing held so far?  (SettlesAtCall, SettlesAtSleep)
    lastStart   \* what the last BleStartScan returned

code == <<running, scanning, registered, caller, reader, left>>
scanHistory == <<late, died, settled, lastStart>>
scanVars == <<code, scanHistory>>

PcStates == {"none",     \* no such thread
             "check",    \* start_get_result, about to test the flag
             "claim",    \* has seen 0, about to write 1
             "open",     \* about to open the HCI device and set its filter
             "test",     \* at the head of the loop
             "read",     \* blocked in read()
             "deliver"}  \* in the loop over the reports of one event

ScanTypeOK ==
    /\ running \in {0, 1}
    /\ scanning \in BOOLEAN
    /\ registered \in BOOLEAN
    /\ caller \in {"idle", "sleeping"}
    /\ reader \in [Threads -> PcStates]
    /\ left \in [Threads -> 0..MaxReports]
    /\ late \in [Threads -> Nat]
    /\ died \in BOOLEAN
    /\ settled \in BOOLEAN
    /\ lastStart \in {"none", "ok", "failed"}

ScanInit ==
    /\ running = 0
    /\ scanning = FALSE
    /\ registered = FALSE
    /\ caller = "idle"
    /\ reader = [t \in Threads |-> "none"]
    /\ left = [t \in Threads |-> 0]
    /\ late = [t \in Threads |-> 0]
    /\ died = FALSE
    /\ settled = TRUE
    /\ lastStart = "none"

\* Thread t has taken the flag for itself and has not returned.
Owns(t) == reader[t] \in {"open", "test", "read", "deliver"}

\* Thread t exists and has not yet written the flag.
Undecided(t) == reader[t] \in {"check", "claim"}

-----------------------------------------------------------------------------
(***************************************************************************)
(* The driver calls of the SDK.                                            *)
(***************************************************************************)

\* BleRegisterChannelCallback with a table; with NULL it changes nothing.
BleRegisterChannelCallback ==
    /\ caller = "idle"
    /\ ~registered
    /\ registered' = TRUE
    /\ UNCHANGED <<running, scanning, caller, reader, left, scanHistory>>

\* hci_open_dev or a scan command fails: no thread is spawned and the call
\* returns -1.  Opening touches nothing; the disable at the head of
\* start_scan may already have ended a scan that was on, and a command whose
\* answer timed out may have been carried out.
BleStartScanFails ==
    /\ caller = "idle"
    /\ scanning' \in BOOLEAN
    /\ lastStart' = "failed"
    /\ UNCHANGED <<running, registered, caller, reader, left, late, died, settled>>

\* What the driver relies on, having no lock: a start or a stop finds no
\* thread that has not yet decided whether to write the flag, and the second
\* a stop sleeps is enough for every reader to notice and return.
SettlesAtCall  == settled' = (settled /\ \A t \in Threads : ~Undecided(t))
SettlesAtSleep == settled' = (settled /\ \A t \in Threads : reader[t] = "none")

\* Mutant: the scan is not enabled again after the parameters are set.
start_scan_NoEnable == scanning' = FALSE

\* The controller after start_scan: disabled, set up again, then enabled.
start_scan == scanning' = TRUE

\* Mutant: the caller writes the flag on behalf of the thread it is about to spawn.
BleStartScan_ClaimsEarly ==
    \E t \in Threads :
        /\ caller = "idle"
        /\ reader[t] = "none"
        /\ start_scan
        /\ running' = 1
        /\ reader' = [reader EXCEPT ![t] = "check"]
        /\ late' = [late EXCEPT ![t] = 0]
        /\ SettlesAtCall
        /\ lastStart' = "ok"
        /\ UNCHANGED <<registered, caller, left, died>>

\* BleStartScan succeeds and spawns a thread on start_get_result.
BleStartScan ==
    \E t \in Threads :
        /\ caller = "idle"
        /\ reader[t] = "none"
        /\ start_scan
        /\ reader' = [reader EXCEPT ![t] = "check"]
        /\ late' = [late EXCEPT ![t] = 0]
        /\ SettlesAtCall
        /\ lastStart' = "ok"
        /\ UNCHANGED <<running, registered, caller, left, died>>

\* pthread_create fails: its result is not looked at, the call returns 0.
BleStartScanUnthreaded ==
    /\ caller = "idle"
    /\ start_scan
    /\ lastStart' = "ok"
    /\ UNCHANGED <<running, registered, caller, reader, left, late, died, settled>>

\* BleStopScan, first half: stop_get_result clears the flag and sleeps.
StopGetResult ==
    /\ caller = "idle"
    /\ running' = 0
    /\ caller' = "sleeping"
    /\ late' = [t \in Threads |-> 0]
    /\ died' = FALSE
    /\ SettlesAtCall
    /\ UNCHANGED <<scanning, registered, reader, left, lastStart>>

\* BleStopScan, second half, after the sleep: the device is opened and the
\* scan disabled; on a failure of either the scan may still be on.
BleStopScan ==
    /\ caller = "sleeping"
    /\ caller' = "idle"
    /\ scanning' \in {FALSE, scanning}
    /\ SettlesAtSleep
    /\ UNCHANGED <<running, registered, reader, left, late, died, lastStart>>

-----------------------------------------------------------------------------
(***************************************************************************)
(* The reader thread, one action per access to what the threads share.     *)
(***************************************************************************)

Goto(t, label) == reader' = [reader EXCEPT ![t] = label]

\* Thread t leaves its loop and returns; the flag stays as it is.
LeaveLoop(t) ==
    /\ Goto(t, "none")
    /\ died' = (died \/ running = 1)
    /\ UNCHANGED left

\* Mutant: the test of the flag at the head of start_get_result is missing.
CheckRunning_Skipped(t) ==
    /\ reader[t] = "check"
    /\ Goto(t, "claim")
    /\ UNCHANGED <<running, scanning, registered, caller, left, scanHistory>>

\* if (g_scan_running == 1) return;
CheckRunning(t) ==
    /\ reader[t] = "check"
    /\ Goto(t, IF running = 1 THEN "none" ELSE "claim")
    /\ UNCHANGED <<running, scanning, registered, caller, left, scanHistory>>

\* Mutant: the flag is never set.
ClaimRunning_Forgotten(t) ==
    /\ reader[t] = "claim"
    /\ Goto(t, "open")
    /\ UNCHANGED <<running, scanning, registered, caller, left, scanHistory>>

\* g_scan_running = 1;
ClaimRunning(t) ==
    /\ reader[t] = "claim"
    /\ Goto(t, "open")
    /\ running' = 1
    /\ UNCHANGED <<scanning, registered, caller, left, scanHistory>>

\* hci_open_dev and the socket's filter, or the failure of either: the
\* thread returns without writing the flag back.
OpenReader(t) ==
    /\ reader[t] = "open"
    /\ \/ /\ Goto(t, "test")
          /\ UNCHANGED <<left, died>>
       \/ LeaveLoop(t)
    /\ UNCHANGED <<running, scanning, registered, caller, late, settled, lastStart>>

\* Mutant: the loop does not look at the flag.
TestRunning_Forever(t) ==
    /\ reader[t] = "test"
    /\ Goto(t, "read")
    /\ UNCHANGED <<running, scanning, registered, caller, left, scanHistory>>

\* while (g_scan_running)
TestRunning(t) ==
    /\ reader[t] = "test"
    /\ IF running = 1
         THEN Goto(t, "read") /\ UNCHANGED <<left, died>>
         ELSE LeaveLoop(t)
    /\ UNCHANGED <<running, scanning, registered, caller, late, settled, lastStart>>

\* read() returned EAGAIN or EINTR: back to the head of the loop.
ReadRetry(t) ==
    /\ reader[t] = "read"
    /\ Goto(t, "test")
    /\ UNCHANGED <<running, scanning, registered, caller, left, scanHistory>>

\* read() failed, or returned an LE meta event that is no advertising report
\* (the completion of a connection is one): goto done.
ReadOther(t) ==
    /\ reader[t] = "read"
    /\ LeaveLoop(t)
    /\ UNCHANGED <<running, scanning, registered, caller, late, settled, lastStart>>

\* read() returned an event of n advertising reports.  The socket may hold
\* events from before the scan ended, or from another program's scan, so
\* this does not need scanning.
ReadReports(t) ==
    /\ reader[t] = "read"
    /\ \E n \in 0..MaxReports :
          /\ left' = [left EXCEPT ![t] = n]
          /\ Goto(t, IF n = 0 THEN "test" ELSE "deliver")
    /\ UNCHANGED <<running, scanning, registered, caller, scanHistory>>

\* Mutant: the loop takes one report more than the event has.
scan_callback_OffByOne(t) ==
    /\ reader[t] = "deliver"
    /\ left' = [left EXCEPT ![t] = @ - 1]
    /\ Goto(t, IF left[t] = 0 THEN "test" ELSE "deliver")
    /\ UNCHANGED <<running, scanning, registered, caller, scanHistory>>

\* One turn of the loop over the reports: scan_callback passes the report to
\* ScanCallback when one is registered.
scan_callback(t) ==
    /\ reader[t] = "deliver"
    /\ left' = [left EXCEPT ![t] = @ - 1]
    /\ Goto(t, IF left[t] = 1 THEN "test" ELSE "deliver")
    /\ late' = IF registered /\ running = 0
                 THEN [late EXCEPT ![t] = @ + 1]
                 ELSE late
    /\ UNCHANGED <<running, scanning, registered, caller, died, settled, lastStart>>

-----------------------------------------------------------------------------
ReadStep(t) == ReadRetry(t) \/ ReadOther(t) \/ ReadReports(t)

\* The steps of a thread that do not wait for the controller.
RunStep(t) ==
    \/ CheckRunning(t)
    \/ ClaimRunning(t)
    \/ OpenReader(t)
    \/ TestRunning(t)
    \/ scan_callback(t)

SdkStep ==
    \/ BleRegisterChannelCallback
    \/ BleStartScan
    \/ BleStartScanFails
    \/ BleStartScanUnthreaded
    \/ StopGetResult
    \/ BleStopScan

ScanNext == SdkStep \/ \E t \in Threads : RunStep(t) \/ ReadStep(t)

\* The scheduler runs every thread that can run.  Nothing makes a blocked
\* read() return, or the SDK call the driver again.
Fairness == \A t \in Threads : WF_scanVars(RunStep(t))

ScanSpec == ScanInit /\ [][ScanNext]_scanVars /\ Fairness

-----------------------------------------------------------------------------
(***************************************************************************)
(* Properties.                                                             *)
(***************************************************************************)

\* After BleStopScan has cleared the flag, a reader thread makes at most as
\* many more ScanCallback calls as one event has reports, however long it
\* was blocked in read() and whatever was read before: the flag is looked at
\* once per event, not per report (lines 791-816).
LateCallBound ==
    running = 0 => \A t \in Threads : late[t] <= MaxReports

\* A flag of 1 means a reader is alive, unless one left its loop without a
\* stop: the flag gets stuck only through the error exits (lines 833-836 and
\* the gotos), never through a race of start, stop and the readers.
StuckFlagNeedsDeadReader ==
    running = 1 => died \/ \E t \in Threads : Owns(t)

\* While the driver's timing holds (SettlesAtCall, SettlesAtSleep), at most
\* one thread is past the test of the flag, over any sequence of starts,
\* repeated starts and stops: no report is passed on twice.
AtMostOneReader ==
    settled => \A t, u \in Threads : Owns(t) /\ Owns(u) => t = u

\* While the timing holds, a reader is being fed: with the SDK outside the
\* driver and the last BleStartScan a success, a thread that reads has its
\* controller scanning.
ReaderIsFed ==
    (settled /\ caller = "idle" /\ lastStart = "ok")
        => \A t \in Threads : Owns(t) => scanning

\* A thread spawned by BleStartScan leads to a thread blocked in read(),
\* whatever the interleaving with other spawned threads, unless a reader
\* died with the flag set or the SDK asked for a stop.
SpawnedScanListens ==
    \A t \in Threads :
        reader[t] = "check" ~> \/ \E u \in Threads : reader[u] = "read"
                               \/ died
                               \/ caller = "sleeping"
=============================================================================
