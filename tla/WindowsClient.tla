--------------------------- MODULE WindowsClient ---------------------------
(***************************************************************************)
(* The Windows registered, Windows-cn/ShareKitClient.cpp and its listeners in  *)
(* MyShareListener.cpp: main registers with the share server, builds       *)
(* SynergySerObj and serves a menu; sendFile searches, waits for           *)
(* isDeviceFound, sends to g_sharedevice and waits for isSendFinish.       *)
(*                                                                         *)
(* Three kinds of thread share those globals without a lock: main, the     *)
(* thread of the share server's library on which the listeners are called, *)
(* and one that Windows makes for each SIGINT or SIGBREAK to run           *)
(* sig_handler.  The C runtime disarms a signal when it delivers it, and   *)
(* the next of its kind ends the process.                                  *)
(*                                                                         *)
(* The library has no source.  It announces devices while it searches, and *)
(* tells a send that a registered client has begun at most one             *)
(* DISCONNECTED, the last of its statuses.  SendByHwShare reads the device *)
(* through a reference to g_sharedevice.                                   *)
(***************************************************************************)
EXTENDS Naturals, FiniteSets

CONSTANTS Devices,  \* the devices whose name OnDeviceFound looks for
          NULL,     \* no device
          Signals,  \* SIGINT and SIGBREAK
          MaxSends  \* bound: sends in one run

ASSUME DevicesAssumption == NULL \notin Devices
ASSUME BoundsAssumption == MaxSends \in Nat

VARIABLES
    pc,            \* where main is
    handler,       \* handler[s]: is s armed, in its handler, or disarmed?
    listener,      \* the library's thread: where it is in OnDeviceFound
    found,         \* the device it was called with
    searching,     \* the library has deviceListener
    registered,    \* ShareClient is registered with the share server
    g_sharedevice, \* whose data are in it: two devices' while it is half written
    isDeviceFound,
    isSendFinish,
    sends,         \* how many sends main has begun
    send,          \* what the library makes of the newest
    \* History of the run, read by the properties and by no action:
    announced,     \* the devices that OnDeviceFound was called with
    sentTo         \* what the newest send read in g_sharedevice

library == <<listener, found, searching, announced>>
sending == <<sends, send, sentTo>>
vars == <<pc, handler, library, registered, g_sharedevice, isDeviceFound,
          isSendFinish, sending>>

TypeOK ==
    /\ pc \in {"register", "build", "menu", "search", "await", "send", "finish",
               "stop", "reset", "unregister", "exited"}
    /\ handler \in [Signals -> {"armed", "running", "disarmed"}]
    /\ listener \in {"idle", "copy", "copying", "flag"}
    /\ found \in Devices \cup {NULL}
    /\ listener # "idle" => found # NULL
    /\ searching \in BOOLEAN
    /\ registered \in BOOLEAN
    /\ g_sharedevice \subseteq Devices \cup {NULL}
    /\ isDeviceFound \in BOOLEAN
    /\ isSendFinish \in BOOLEAN
    /\ sends \in 0..MaxSends
    /\ send \in {"none", "going", "told"}
    /\ announced \subseteq Devices
    /\ sentTo \subseteq Devices \cup {NULL}

Init ==
    /\ pc = "register"
    /\ handler = [s \in Signals |-> "armed"]
    /\ listener = "idle"
    /\ found = NULL
    /\ searching = FALSE
    /\ registered = FALSE
    /\ g_sharedevice = {NULL}
    /\ isDeviceFound = FALSE
    /\ isSendFinish = FALSE
    /\ sends = 0
    /\ send = "none"
    /\ announced = {}
    /\ sentTo = {}

-----------------------------------------------------------------------------
(***************************************************************************)
(* main.                                                                   *)
(***************************************************************************)

\* StartShareKitServer and RegistClient, whose results nobody looks at.
RegistClient ==
    /\ pc = "register"
    /\ \E ok \in BOOLEAN : registered' = ok
    /\ pc' = "build"
    /\ UNCHANGED <<handler, library, g_sharedevice,
                   isDeviceFound, isSendFinish, sending>>

BuildService ==
    /\ pc = "build"
    /\ pc' = "menu"
    /\ UNCHANGED <<handler, library, registered, g_sharedevice,
                   isDeviceFound, isSendFinish, sending>>

\* 1 sends, 2 unregisters and exits; any other number asks again.
Choose ==
    /\ pc = "menu"
    /\ \/ sends < MaxSends /\ pc' = "search"
       \/ pc' = "unregister"
    /\ UNCHANGED <<handler, library, registered, g_sharedevice, isDeviceFound,
                   isSendFinish, sending>>

SearchDevice ==
    /\ pc = "search"
    /\ searching' = TRUE
    /\ pc' = "await"
    /\ UNCHANGED <<handler, listener, found, announced, registered, g_sharedevice,
                   isDeviceFound, isSendFinish, sending>>

\* isDeviceFound is not reset: only the first sendFile waits.  Then the files
\* are collected, which touches nothing shared.
AwaitDevice ==
    /\ pc = "await"
    /\ isDeviceFound
    /\ pc' = "send"
    /\ UNCHANGED <<handler, library, registered, g_sharedevice, isDeviceFound,
                   isSendFinish, sending>>

SendByHwShare ==
    /\ pc = "send"
    /\ sends' = sends + 1
    /\ send' = IF registered THEN "going" ELSE "none"
    /\ sentTo' = g_sharedevice
    /\ pc' = "finish"
    /\ UNCHANGED <<handler, library, registered, g_sharedevice, isDeviceFound, isSendFinish>>

AwaitFinish ==
    /\ pc = "finish"
    /\ isSendFinish
    /\ pc' = "stop"
    /\ UNCHANGED <<handler, library, registered, g_sharedevice, isDeviceFound,
                   isSendFinish, sending>>

StopSearch ==
    /\ pc = "stop"
    /\ searching' = FALSE
    /\ pc' = "reset"
    /\ UNCHANGED <<handler, listener, found, announced, registered, g_sharedevice,
                   isDeviceFound, isSendFinish, sending>>

\* Mutant: the flag is left set.
ResetFinish_Forgotten ==
    /\ pc = "reset"
    /\ pc' = "menu"
    /\ UNCHANGED <<handler, library, registered, g_sharedevice, isDeviceFound,
                   isSendFinish, sending>>

ResetFinish ==
    /\ pc = "reset"
    /\ isSendFinish' = FALSE
    /\ pc' = "menu"
    /\ UNCHANGED <<handler, library, registered, g_sharedevice, isDeviceFound, sending>>

UnRegistClient == registered' = FALSE

UnRegistAndExit ==
    /\ pc = "unregister"
    /\ UnRegistClient
    /\ pc' = "exited"
    /\ UNCHANGED <<handler, library, g_sharedevice, isDeviceFound, isSendFinish, sending>>

-----------------------------------------------------------------------------
(***************************************************************************)
(* The listeners, on the library's thread.  OnDeviceLost only prints.      *)
(***************************************************************************)

OnDeviceFound(d) ==
    /\ pc # "exited"
    /\ searching
    /\ listener = "idle"
    /\ listener' = "copy"
    /\ found' = d
    /\ announced' = announced \cup {d}
    /\ UNCHANGED <<pc, handler, searching, registered, g_sharedevice, isDeviceFound,
                   isSendFinish, sending>>

\* Mutant: the flag is set while the copy goes on.
BeginCopy_FlagFirst ==
    /\ pc # "exited"
    /\ listener = "copy"
    /\ listener' = "copying"
    /\ g_sharedevice' = g_sharedevice \cup {found}
    /\ isDeviceFound' = TRUE
    /\ UNCHANGED <<pc, handler, found, searching, announced, registered,
                   isSendFinish, sending>>

\* g_sharedevice = device, member by member: there is a time when some of
\* them are copied.
BeginCopy ==
    /\ pc # "exited"
    /\ listener = "copy"
    /\ listener' = "copying"
    /\ g_sharedevice' = g_sharedevice \cup {found}
    /\ UNCHANGED <<pc, handler, found, searching, announced, registered, isDeviceFound,
                   isSendFinish, sending>>

EndCopy ==
    /\ pc # "exited"
    /\ listener = "copying"
    /\ listener' = "flag"
    /\ g_sharedevice' = {found}
    /\ UNCHANGED <<pc, handler, found, searching, announced, registered, isDeviceFound,
                   isSendFinish, sending>>

SetFound ==
    /\ pc # "exited"
    /\ listener = "flag"
    /\ listener' = "idle"
    /\ isDeviceFound' = TRUE
    /\ UNCHANGED <<pc, handler, found, searching, announced, registered, g_sharedevice,
                   isSendFinish, sending>>

\* Mutant: the flag is set on another status, one that need not come.
OnStatusChange_NotLast ==
    /\ pc # "exited"
    /\ send = "going"
    /\ send' = "told"
    /\ UNCHANGED <<pc, handler, library, registered, g_sharedevice, isDeviceFound,
                   isSendFinish, sends, sentTo>>

\* DTCP_STATUS_SEND_DISCONNECTED; every other status is printed.
OnStatusChange ==
    /\ pc # "exited"
    /\ send = "going"
    /\ send' = "told"
    /\ isSendFinish' = TRUE
    /\ UNCHANGED <<pc, handler, library, registered, g_sharedevice, isDeviceFound,
                   sends, sentTo>>

-----------------------------------------------------------------------------
(***************************************************************************)
(* Signals.                                                                *)
(***************************************************************************)

Deliver(s) ==
    /\ pc # "exited"
    /\ handler[s] = "armed"
    /\ handler' = [handler EXCEPT ![s] = "running"]
    /\ UNCHANGED <<pc, library, registered, g_sharedevice, isDeviceFound, isSendFinish,
                   sending>>

\* main goes on: nothing sets keepRunning to 0.
sig_handler(s) ==
    /\ pc # "exited"
    /\ handler[s] = "running"
    /\ handler' = [handler EXCEPT ![s] = "disarmed"]
    /\ UnRegistClient
    /\ UNCHANGED <<pc, library, g_sharedevice, isDeviceFound, isSendFinish, sending>>

DeliverAgain(s) ==
    /\ pc # "exited"
    /\ handler[s] # "armed"
    /\ pc' = "exited"
    /\ UNCHANGED <<handler, library, registered, g_sharedevice, isDeviceFound,
                   isSendFinish, sending>>

-----------------------------------------------------------------------------
\* sendFile, once it was chosen.
SendFile ==
    \/ SearchDevice \/ AwaitDevice \/ SendByHwShare
    \/ AwaitFinish \/ StopSearch \/ ResetFinish

Listener == BeginCopy \/ EndCopy \/ SetFound

Next ==
    \/ RegistClient \/ BuildService \/ Choose \/ UnRegistAndExit
    \/ SendFile
    \/ \E d \in Devices : OnDeviceFound(d)
    \/ Listener
    \/ OnStatusChange
    \/ \E s \in Signals : Deliver(s) \/ sig_handler(s) \/ DeliverAgain(s)

\* The threads run when they can.  Nothing makes the user choose, a device
\* come, the library tell a DISCONNECTED, or a signal arrive.
Fairness == WF_vars(SendFile) /\ WF_vars(Listener)

Spec == Init /\ [][Next]_vars /\ Fairness

-----------------------------------------------------------------------------
(***************************************************************************)
(* Properties.                                                             *)
(***************************************************************************)

\* As long as one device only was announced, however often, every send is of
\* that device, whole: main cannot get past line 96 before the copy is
\* complete (MyShareListener.cpp:50-51), and copying the device again does
\* not spoil it.  A second device breaks this: the copy races with line 110.
SendsWholeDevice ==
    (sends > 0 /\ \A d, e \in announced : d = e) => sentTo = announced

\* sendFile gets past its wait only by the DISCONNECTED of its own send, not
\* by what an earlier one left in isSendFinish (lines 112-116).
FinishIsOfThisSend ==
    pc \in {"stop", "reset"} => send = "told"

\* The DISCONNECTED of a send ends its sendFile, also when it comes before
\* main has begun to wait for it.
DisconnectEndsSend ==
    (pc = "finish" /\ send = "told") ~> pc \in {"menu", "exited"}
=============================================================================
