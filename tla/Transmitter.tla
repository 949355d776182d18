---------------------------- MODULE Transmitter ----------------------------
(***************************************************************************)
(* The Linux transmitter, Linux-en/sharekitdtx.c: main collects the names  *)
(* of the pictures in its directory, starts the share service, shows the   *)
(* devices nearby every two seconds until the user types the number of     *)
(* one, has the files sent to it and waits for g_running to be 0.          *)
(*                                                                         *)
(* Around it: the user, who types at any time and sees what was printed    *)
(* last; SIGINT and the status callback of the share kit, which both call  *)
(* Exit; whoever else writes to the directory.  The share kit is a library *)
(* without source: what it does is taken from the calls and callbacks.     *)
(*                                                                         *)
(* devList and devNum are the variables of SelectDev, by their names.  A   *)
(* block of memory is "null", "live" or "freed"; memory never runs out.    *)
(***************************************************************************)
EXTENDS Naturals, Sequences, FiniteSets

CONSTANTS Devices,    \* the devices that can be nearby
          NULL,       \* no device
          ShowMaxNum, \* SHOW_MAX_NUM: the largest number that can be typed
          MaxFiles,   \* bound: pictures in the directory
          MaxKeys     \* bound: keys typed in one run

ASSUME DevicesAssumption == IsFiniteSet(Devices) /\ NULL \notin Devices \cup Nat
ASSUME BoundsAssumption == ShowMaxNum \in Nat /\ MaxFiles \in Nat /\ MaxKeys \in Nat

VARIABLES
    pc,        \* where main is
    running,   \* g_running
    files,     \* pictures in the directory
    fileNum,   \* what CountFileNum found
    names,     \* names in uriList
    uriList,   \* the block of uriList
    devList,   \* the block of devList
    devs,      \* the devices in it
    devNum,    \* how many they are; NULL before it is first set
    selectNum, \* the number that was typed
    dev,       \* the device that was selected
    screen,    \* the list that was printed last
    keys,      \* typed and not yet read
    typed,     \* how many keys were typed
    service,   \* the share kit: "off", "ready", "started"
    transfer,  \* the share kit: the transfer it was asked for
    \* History of the run, read by the properties and by no action:
    meant,       \* the key that selected: what stood at its number when it was typed
    changed,     \* did the directory change between the two looks at it?
    failed,      \* has a GetAvailableDevice failed?
    interrupted, \* has there been a SIGINT?
    late,        \* was Exit called before the transfer was begun?
    misuse       \* what was done to memory that was freed, missing or never set

directory == <<files, fileNum, names, uriList, changed>>
list == <<devList, devs, devNum>>
choice == <<selectNum, dev, meant>>
user == <<screen, keys, typed>>
kit == <<service, transfer>>
ghosts == <<failed, interrupted, late, misuse>>
vars == <<pc, running, directory, list, choice, user, kit, ghosts>>

PcStates == {"count", "scan", "init", "start", "key", "get", "show", "select",
             "send", "wait", "free", "stop", "uninit", "exited"}

Blocks == {"null", "live", "freed"}

\* What GetAvailableDevice can return: every device at most once.
Lists == {s \in UNION {[1..n -> Devices] : n \in 0..Cardinality(Devices)} :
            \A i, j \in DOMAIN s : s[i] = s[j] => i = j}

\* A typed key: its number, 0 if it is none of 1..ShowMaxNum; the device that
\* stood at that number when it was typed; was another list printed since?
Keys == [num : 0..ShowMaxNum, want : Devices \cup {NULL}, stale : BOOLEAN]

NoKey == [num |-> 0, want |-> NULL, stale |-> FALSE]

TypeOK ==
    /\ pc \in PcStates
    /\ running \in BOOLEAN
    /\ files \in 0..MaxFiles
    /\ fileNum \in 0..MaxFiles
    /\ names \in 0..MaxFiles
    /\ uriList \in Blocks
    /\ devList \in Blocks
    /\ devs \in Lists
    /\ devNum \in Nat \cup {NULL}
    /\ selectNum \in 0..ShowMaxNum
    /\ dev \in Devices \cup {NULL}
    /\ screen \in Lists
    /\ keys \in Seq(Keys)
    /\ typed \in 0..MaxKeys
    /\ service \in {"off", "ready", "started"}
    /\ transfer \in {"none", "going", "over"}
    /\ meant \in Keys
    /\ changed \in BOOLEAN
    /\ failed \in BOOLEAN
    /\ interrupted \in BOOLEAN
    /\ late \in BOOLEAN
    /\ misuse \subseteq {"doubleFree", "readAfterFree", "numberUnset",
                         "namesOverrun"}

Init ==
    /\ pc = "count"
    /\ running = TRUE
    /\ files \in 0..MaxFiles
    /\ fileNum = 0
    /\ names = 0
    /\ uriList = "null"
    /\ devList = "null"
    /\ devs = <<>>
    /\ devNum = NULL
    /\ selectNum = 0
    /\ dev = NULL
    /\ screen = <<>>
    /\ keys = <<>>
    /\ typed = 0
    /\ service = "off"
    /\ transfer = "none"
    /\ meant = NoKey
    /\ changed = FALSE
    /\ failed = FALSE
    /\ interrupted = FALSE
    /\ late = FALSE
    /\ misuse = {}

Exit == running' = FALSE

-----------------------------------------------------------------------------
(***************************************************************************)
(* The names of the files.                                                 *)
(***************************************************************************)

\* Mutant: the count begins one too low.
CountFileNum_OneShort ==
    /\ pc = "count"
    /\ \E n \in {0, files} :
          /\ fileNum' = IF n = 0 THEN 0 ELSE n - 1
          /\ pc' = IF n < 2 THEN "exited" ELSE "scan"
    /\ UNCHANGED <<running, files, names, uriList, changed, list, choice, user, kit, ghosts>>

\* The directory may not open; with no picture in it main returns.
CountFileNum ==
    /\ pc = "count"
    /\ \E n \in {0, files} :
          /\ fileNum' = n
          /\ pc' = IF n = 0 THEN "exited" ELSE "scan"
    /\ UNCHANGED <<running, files, names, uriList, changed, list, choice, user, kit, ghosts>>

\* Somebody adds or removes pictures between the two looks.
ChangeDirectory ==
    /\ pc = "scan"
    /\ \E n \in 0..MaxFiles \ {files} : files' = n
    /\ changed' = TRUE
    /\ UNCHANGED <<pc, running, fileNum, names, uriList, list, choice, user, kit, ghosts>>

\* Mutant: the list gets a name too many.
ScanFileName_OnePast ==
    /\ pc = "scan"
    /\ uriList' = "live"
    /\ names' = fileNum + 1
    /\ pc' = "init"
    /\ UNCHANGED <<running, files, fileNum, changed, list, choice, user, kit, ghosts>>

\* The second look fills the list that the first one gave its length.
ScanFileName ==
    /\ pc = "scan"
    /\ uriList' = "live"
    /\ names' = IF files > fileNum THEN fileNum ELSE files
    /\ misuse' = IF files > fileNum THEN misuse \cup {"namesOverrun"} ELSE misuse
    /\ pc' = IF files = 0 THEN "exited" ELSE "init"
    /\ UNCHANGED <<running, files, fileNum, changed, list, choice, user, kit,
                   failed, interrupted, late>>

\* The directory does not open the second time, and main returns.
ScanFails ==
    /\ pc = "scan"
    /\ pc' = "exited"
    /\ UNCHANGED <<running, directory, list, choice, user, kit, ghosts>>

-----------------------------------------------------------------------------
(***************************************************************************)
(* Starting the share kit.  A failure goes to the label `done`.            *)
(***************************************************************************)

InitShareKit ==
    /\ pc = "init"
    /\ \/ service' = "ready" /\ pc' = "start"
       \/ service' = service /\ pc' = "free"
    /\ UNCHANGED <<running, directory, list, choice, user, transfer, ghosts>>

StartShareService ==
    /\ pc = "start"
    /\ \/ service' = "started" /\ pc' = "key"
       \/ service' = service /\ pc' = "free"
    /\ UNCHANGED <<running, directory, list, choice, user, transfer, ghosts>>

-----------------------------------------------------------------------------
(***************************************************************************)
(* SelectDev.  IsSelected reads one key, if one was typed; a number from   *)
(* 1 to SHOW_MAX_NUM ends the loop, anything else lets it go on, unless    *)
(* Exit was called.                                                        *)
(***************************************************************************)

IsSelected ==
    /\ pc = "key"
    /\ keys # <<>> /\ Head(keys).num > 0
    /\ selectNum' = Head(keys).num
    /\ meant' = Head(keys)
    /\ keys' = Tail(keys)
    /\ pc' = "select"
    /\ UNCHANGED <<running, directory, list, dev, screen, typed, kit, ghosts>>

\* Mutant: the loop waits for a number only.
IsNotSelected_NoExit ==
    /\ pc = "key"
    /\ keys # <<>> => Head(keys).num = 0
    /\ keys' = IF keys = <<>> THEN keys ELSE Tail(keys)
    /\ pc' = "get"
    /\ UNCHANGED <<running, directory, list, choice, screen, typed, kit, ghosts>>

IsNotSelected ==
    /\ pc = "key"
    /\ keys # <<>> => Head(keys).num = 0
    /\ keys' = IF keys = <<>> THEN keys ELSE Tail(keys)
    /\ pc' = IF running THEN "get" ELSE "select"
    /\ UNCHANGED <<running, directory, list, choice, screen, typed, kit, ghosts>>

\* free(devList), which leaves the pointer as it is.
Freed == IF devList = "null" THEN "null" ELSE "freed"

FreedTwice == IF devList = "freed" THEN {"doubleFree"} ELSE {}

\* The list of the last round is freed and another one asked for.
GetAvailableDevice ==
    /\ pc = "get"
    /\ misuse' = misuse \cup FreedTwice
    /\ \/ \E l \in Lists : devList' = "live" /\ devs' = l /\ devNum' = Len(l)
       \/ devList' = "null" /\ devs' = <<>> /\ devNum' = 0
    /\ pc' = "show"
    /\ UNCHANGED <<running, directory, choice, user, kit, failed, interrupted, late>>

\* A failure is not noticed: devList and devNum stay as they were.
GetAvailableDeviceFails ==
    /\ pc = "get"
    /\ misuse' = misuse \cup FreedTwice
    /\ devList' = Freed
    /\ failed' = TRUE
    /\ pc' = "show"
    /\ UNCHANGED <<running, directory, devs, devNum, choice, user, kit, interrupted,
                   late>>

\* What stands in the block of devList: anything, once it is freed.
Contents == IF devList = "freed" THEN {l \in Lists : Len(l) = devNum} ELSE {devs}

ReadsFreed == IF devList = "freed" THEN {"readAfterFree"} ELSE {}

\* devNum has no initialiser, and is passed by value also with a NULL list.
ReadsUnset == IF devNum = NULL THEN {"numberUnset"} ELSE {}

\* Mutant: the list is freed when it is printed, not in the next round.
ShowShareKitDeviceList_Frees ==
    /\ pc = "show"
    /\ IF devList = "null" THEN screen' = <<>> ELSE screen' \in Contents
    /\ devList' = Freed
    /\ pc' = "key"
    /\ UNCHANGED <<running, directory, devs, devNum, choice, keys, typed, kit, ghosts>>

\* The list is printed, and what was typed before was meant for another one.
ShowShareKitDeviceList ==
    /\ pc = "show"
    /\ IF devList = "null" THEN screen' = <<>> ELSE screen' \in Contents
    /\ misuse' = misuse \cup ReadsUnset
                        \cup (IF screen' = <<>> THEN {} ELSE ReadsFreed)
    /\ keys' = [i \in DOMAIN keys |-> [keys[i] EXCEPT !.stale = TRUE]]
    /\ pc' = "key"
    /\ UNCHANGED <<running, directory, list, choice, typed, kit, failed, interrupted, late>>

\* Mutant: numbers are taken to begin at 0.
GetSelectedDev_FromZero ==
    /\ pc = "select"
    /\ IF devList # "null" /\ selectNum \in 1..devNum - 1
       THEN \E l \in Contents : dev' = l[selectNum + 1]
       ELSE dev' = NULL
    /\ devList' = Freed
    /\ pc' = "send"
    /\ UNCHANGED <<running, directory, devs, devNum, selectNum, meant, user, kit, ghosts>>

\* The device is copied out of the list and the list freed.
GetSelectedDev ==
    /\ pc = "select"
    /\ IF devList # "null" /\ selectNum \in 1..devNum
       THEN /\ \E l \in Contents : dev' = l[selectNum]
            /\ misuse' = misuse \cup FreedTwice \cup ReadsUnset \cup ReadsFreed
       ELSE dev' = NULL /\ misuse' = misuse \cup FreedTwice \cup ReadsUnset
    /\ devList' = Freed
    /\ pc' = "send"
    /\ UNCHANGED <<running, directory, devs, devNum, selectNum, meant, user, kit,
                   failed, interrupted, late>>

-----------------------------------------------------------------------------
(***************************************************************************)
(* The transfer, and the end.                                              *)
(***************************************************************************)

\* The result is not looked at: main waits after a refusal, and without a
\* device, as it does for a transfer.
TransFile ==
    /\ pc = "send"
    /\ transfer' \in IF dev = NULL THEN {"none"} ELSE {"none", "going"}
    /\ late' = ~running
    /\ pc' = "wait"
    /\ UNCHANGED <<running, directory, list, choice, user, service, failed,
                   interrupted, misuse>>

\* Mutant: main goes on without waiting.
WaitEnds_AtOnce ==
    /\ pc = "wait"
    /\ pc' = "free"
    /\ UNCHANGED <<running, directory, list, choice, user, kit, ghosts>>

WaitEnds ==
    /\ pc = "wait"
    /\ ~running
    /\ pc' = "free"
    /\ UNCHANGED <<running, directory, list, choice, user, kit, ghosts>>

FreeFileList ==
    /\ pc = "free"
    /\ uriList' = "freed"
    /\ pc' = "stop"
    /\ UNCHANGED <<running, files, fileNum, names, changed, list, choice, user, kit, ghosts>>

StopShareService ==
    /\ pc = "stop"
    /\ service' = IF service = "started" THEN "ready" ELSE service
    /\ transfer' = IF transfer = "going" THEN "over" ELSE transfer
    /\ pc' = "uninit"
    /\ UNCHANGED <<running, directory, list, choice, user, ghosts>>

UninitShareKit ==
    /\ pc = "uninit"
    /\ service' = "off"
    /\ pc' = "exited"
    /\ UNCHANGED <<running, directory, list, choice, user, transfer, ghosts>>

-----------------------------------------------------------------------------
(***************************************************************************)
(* Around main: a BLE or WIFI status, by which the share kit tells that it *)
(* cannot go on or that the transfer is over; SIGINT; the user's keys.     *)
(***************************************************************************)

SharekitStatusChangeCbFunc ==
    /\ service = "started"
    /\ Exit
    /\ transfer' = IF transfer = "going" THEN "over" ELSE transfer
    /\ UNCHANGED <<pc, directory, list, choice, user, service, ghosts>>

Interrupt ==
    /\ pc # "exited"
    /\ Exit
    /\ interrupted' = TRUE
    /\ UNCHANGED <<pc, directory, list, choice, user, kit, failed, late, misuse>>

TypeKey ==
    /\ pc # "exited"
    /\ typed < MaxKeys
    /\ typed' = typed + 1
    /\ \E n \in 0..ShowMaxNum :
          keys' = Append(keys, [num |-> n,
                                want |-> IF n \in DOMAIN screen THEN screen[n] ELSE NULL,
                                stale |-> FALSE])
    /\ UNCHANGED <<pc, running, directory, list, choice, screen, kit, ghosts>>

Main ==
    \/ CountFileNum \/ ScanFileName \/ ScanFails
    \/ InitShareKit \/ StartShareService
    \/ IsSelected \/ IsNotSelected
    \/ GetAvailableDevice \/ GetAvailableDeviceFails
    \/ ShowShareKitDeviceList \/ GetSelectedDev
    \/ TransFile \/ WaitEnds
    \/ FreeFileList \/ StopShareService \/ UninitShareKit

Next ==
    \/ Main
    \/ ChangeDirectory
    \/ SharekitStatusChangeCbFunc
    \/ Interrupt
    \/ TypeKey

\* Every call of main returns; nothing makes the user type or interrupt, or
\* the share kit tell a status.
Fairness == WF_vars(Main)

Spec == Init /\ [][Next]_vars /\ Fairness

-----------------------------------------------------------------------------
(***************************************************************************)
(* Properties.                                                             *)
(***************************************************************************)

\* A transfer goes to the device that stood beside the number when it was
\* typed, unless a newer list was printed before it was read ("Type Dev
\* serial to select dev!", line 58): keys wait in the input, and SelectDev
\* reads one for each list (lines 123-132).  A GetAvailableDevice that failed
\* can put anything in its place.
SelectionFromScreen ==
    (transfer # "none" /\ ~meant.stale /\ ~failed) => dev = meant.want

\* As long as no GetAvailableDevice fails, over any number of rounds devList
\* is freed once and read only before.  devNum has no initialiser (line 117):
\* a loop that a key or an Exit ends in its first round passes it on unset
\* (line 132), and what was passed on unset selects no device.
ListIsLive ==
    ~failed => /\ misuse \cap {"doubleFree", "readAfterFree"} = {}
               /\ "numberUnset" \in misuse => dev = NULL

\* With the directory unchanged between the two looks at it (lines 153 and
\* 168), a transfer is given as many names as it is told, and none was
\* written beyond the list: both looks count the same files, and the number
\* main hands on (line 319) is that of the first.
NamesAreWhole ==
    ~changed => /\ "namesOverrun" \notin misuse
                /\ transfer # "none" => names = fileNum

\* The names of a transfer that is going on are freed only if it was cut
\* short by a SIGINT, or begun by a key typed ahead although Exit had been
\* called: FreeFileList comes before StopShareService (lines 336-337), and
\* what keeps them apart is the wait for the status (lines 331-333).
NamesOutliveTransfer ==
    (transfer = "going" /\ uriList = "freed") => interrupted \/ late

\* Once Exit was called, by a signal or a status and wherever main is, main
\* returns, having stopped the share kit if it was started.
EndsOnceTold ==
    ~running ~> (pc = "exited" /\ service = "off")
=============================================================================
