------------------------------ MODULE Receiver ------------------------------
(***************************************************************************)
(* The Linux receiver, Linux-en/sharekitdrx.c: main starts the share       *)
(* service with four callbacks, waits for g_running to be 0, and stops it. *)
(* A request to send files is confirmed where it is heard, in the callback *)
(* itself; the result of a transfer, a BLE or WIFI status and SIGINT all   *)
(* call Exit, whatever else is going on.                                   *)
(*                                                                         *)
(* The share kit is a library without source.  It calls back from threads  *)
(* of its own while the service is started; a callback may be under way    *)
(* while main stops it, and nothing in the program waits for it to return. *)
(***************************************************************************)
EXTENDS Naturals

CONSTANT Transfers  \* the requests that peers make in one run

VARIABLES
    pc,       \* where main is
    running,  \* g_running
    service,  \* the share kit: "off", "ready", "started"
    transfer, \* transfer[t]: what has become of t
    \* History of the run, read by the properties and by no action:
    causes    \* who has called Exit

vars == <<pc, running, service, transfer, causes>>

TypeOK ==
    /\ pc \in {"init", "start", "wait", "stop", "uninit", "sleep", "exited"}
    /\ running \in BOOLEAN
    /\ service \in {"off", "ready", "started"}
    /\ transfer \in [Transfers -> {"none",      \* not asked for
                                   "asked",     \* RequestFileTrans is under way
                                   "confirmed", \* the files are being received
                                   "late",      \* confirmed to a service that had stopped
                                   "finished",  \* its result was told
                                   "cut"}]      \* the service stopped before
    /\ causes \subseteq {"result", "status", "signal"}

Init ==
    /\ pc = "init"
    /\ running = TRUE
    /\ service = "off"
    /\ transfer = [t \in Transfers |-> "none"]
    /\ causes = {}

Exit(cause) == running' = FALSE /\ causes' = causes \cup {cause}

-----------------------------------------------------------------------------
(***************************************************************************)
(* main.  A failure goes to the label `done`, which stops and uninitialises*)
(* what may never have been started.                                       *)
(***************************************************************************)

InitShareKit ==
    /\ pc = "init"
    /\ \/ service' = "ready" /\ pc' = "start"
       \/ service' = service /\ pc' = "stop"
    /\ UNCHANGED <<running, transfer, causes>>

StartShareService ==
    /\ pc = "start"
    /\ \/ service' = "started" /\ pc' = "wait"
       \/ service' = service /\ pc' = "stop"
    /\ UNCHANGED <<running, transfer, causes>>

\* Mutant: main waits for a transfer to begin, not for its end.
WaitEnds_AtRequest ==
    /\ pc = "wait"
    /\ ~running \/ \E t \in Transfers : transfer[t] # "none"
    /\ pc' = "stop"
    /\ UNCHANGED <<running, service, transfer, causes>>

WaitEnds ==
    /\ pc = "wait"
    /\ ~running
    /\ pc' = "stop"
    /\ UNCHANGED <<running, service, transfer, causes>>

StopShareService ==
    /\ pc = "stop"
    /\ service' = IF service = "started" THEN "ready" ELSE service
    /\ transfer' = [t \in Transfers |->
                      IF transfer[t] = "confirmed" THEN "cut" ELSE transfer[t]]
    /\ pc' = "uninit"
    /\ UNCHANGED <<running, causes>>

UninitShareKit ==
    /\ pc = "uninit"
    /\ service' = "off"
    /\ pc' = "sleep"
    /\ UNCHANGED <<running, transfer, causes>>

\* The second main sleeps at the end is over; the threads of the kit end too.
Return ==
    /\ pc = "sleep"
    /\ pc' = "exited"
    /\ UNCHANGED <<running, service, transfer, causes>>

-----------------------------------------------------------------------------
(***************************************************************************)
(* The callbacks and the signal handler.                                   *)
(***************************************************************************)

Become(t, state) == transfer' = [transfer EXCEPT ![t] = state]

\* A peer asks: RequestFileTrans is called and prints the names ...
Request(t) ==
    /\ service = "started"
    /\ transfer[t] = "none"
    /\ Become(t, "asked")
    /\ UNCHANGED <<pc, running, service, causes>>

\* ... and confirms, to a service that may have stopped meanwhile.
RequestFileTrans(t) ==
    /\ pc # "exited"
    /\ transfer[t] = "asked"
    /\ Become(t, IF service = "started" THEN "confirmed" ELSE "late")
    /\ UNCHANGED <<pc, running, service, causes>>

\* Mutant: the result of a transfer does not end the wait.
FileTransferResult_NoExit(t) ==
    /\ service = "started"
    /\ transfer[t] = "confirmed"
    /\ Become(t, "finished")
    /\ UNCHANGED <<pc, running, service, causes>>

\* The result of one transfer ends the program, whatever it is.
FileTransferResult(t) ==
    /\ service = "started"
    /\ transfer[t] = "confirmed"
    /\ Become(t, "finished")
    /\ Exit("result")
    /\ UNCHANGED <<pc, service>>

\* A BLE status, with an error in it or without, or a WIFI status; one of
\* the base type does nothing.
SharekitStatusChangeCbFunc ==
    /\ service = "started"
    /\ Exit("status")
    /\ UNCHANGED <<pc, service, transfer>>

Interrupt ==
    /\ pc # "exited"
    /\ Exit("signal")
    /\ UNCHANGED <<pc, service, transfer>>

-----------------------------------------------------------------------------
Main ==
    \/ InitShareKit \/ StartShareService
    \/ WaitEnds
    \/ StopShareService \/ UninitShareKit \/ Return

Next ==
    \/ Main
    \/ \E t \in Transfers : Request(t) \/ RequestFileTrans(t) \/ FileTransferResult(t)
    \/ SharekitStatusChangeCbFunc
    \/ Interrupt

\* Every call of main returns.  Nothing makes a peer ask, or the share kit
\* call back.
Fairness == WF_vars(Main)

Spec == Init /\ [][Next]_vars /\ Fairness

-----------------------------------------------------------------------------
(***************************************************************************)
(* Properties.                                                             *)
(***************************************************************************)

\* A transfer that was confirmed is not cut short, nor one that was asked
\* for confirmed too late (line 51), unless a status or a signal ended the
\* program, or the result of another transfer did (line 57): main does not
\* look whether anything is still going on (lines 79-84).
TransferIsSeenThrough ==
    \A t \in Transfers :
        transfer[t] \in {"cut", "late"} =>
            \/ causes \cap {"status", "signal"} # {}
            \/ \E u \in Transfers \ {t} : transfer[u] = "finished"

\* A transfer that has finished ends the program, with the service stopped
\* and the kit uninitialised before main returns (lines 84-88).
FinishEndsProgram ==
    \A t \in Transfers :
        transfer[t] = "finished" ~> pc = "exited" /\ service = "off"
=============================================================================
