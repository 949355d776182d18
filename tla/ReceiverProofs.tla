--------------------------- MODULE ReceiverProofs ---------------------------
(***************************************************************************)
(* Theorems about Receiver, for any set of transfers: only a status, a     *)
(* signal or the end of another transfer keeps one from its end.           *)
(***************************************************************************)
EXTENDS Receiver, TLAPS

\* g_running is cleared by Exit alone; a result that called it was of a transfer.
ExitsHaveCauses ==
    /\ ~running => causes # {}
    /\ "result" \in causes => \E t \in Transfers : transfer[t] = "finished"

\* The service is started while main waits, and until it stops it after the
\* wait; nothing but the end of the wait brings main there.
ServiceIsAwaited ==
    /\ pc = "wait" => service = "started"
    /\ service = "started" => pc = "wait" \/ (pc = "stop" /\ causes # {})

\* Once a peer has asked, main is in its wait or past it for a cause.
AskedInTheWait ==
    \A t \in Transfers :
        transfer[t] # "none" => \/ pc = "wait"
                                \/ pc \notin {"init", "start"} /\ causes # {}

\* What FinishEndsProgram rests on, beside the scheduler: the end of a
\* transfer has ended the wait, and main does not return before the kit is
\* uninitialised (lines 79-88).
FinishIsFinal ==
    /\ (\E t \in Transfers : transfer[t] = "finished") => ~running
    /\ pc \in {"sleep", "exited"} => service = "off"

\* What is known of main, its flag and the service.
Footing ==
    /\ TypeOK
    /\ ExitsHaveCauses
    /\ ServiceIsAwaited
    /\ AskedInTheWait
    /\ FinishIsFinal

\* The inductive invariant.
IInv == Footing /\ TransferIsSeenThrough

-----------------------------------------------------------------------------
\* The causes only grow, and what has finished stays so.
LEMMA ExcusesStay ==
    ASSUME TypeOK, [Next]_vars
    PROVE  /\ causes \subseteq causes'
           /\ \A t \in Transfers : transfer[t] = "finished" => transfer'[t] = "finished"
  BY DEF TypeOK, Next, Main, InitShareKit, StartShareService, WaitEnds,
         StopShareService, UninitShareKit, Return, Request, RequestFileTrans,
         FileTransferResult, SharekitStatusChangeCbFunc, Interrupt, Exit, Become, vars

\* A transfer that is cut short or confirmed too late is so excused.
LEMMA Excused ==
    ASSUME IInv, NEW t \in Transfers, transfer[t] # "finished", causes # {}
    PROVE  \/ causes \cap {"status", "signal"} # {}
           \/ \E u \in Transfers \ {t} : transfer[u] = "finished"
  BY DEF IInv, Footing, TypeOK, ExitsHaveCauses

\* Steps of main change no cause, and bad ends come only of what was asked
\* or confirmed.
LEMMA MainKeeps ==
    ASSUME IInv, Main
    PROVE  /\ Footing'
           /\ \A t \in Transfers :
                 transfer'[t] \in {"cut", "late"} =>
                     transfer[t] \in {"cut", "late"}
                     \/ (transfer[t] = "confirmed" /\ causes # {})
<1> USE DEF IInv, Footing, TypeOK, ExitsHaveCauses, ServiceIsAwaited, AskedInTheWait,
            FinishIsFinal
<1>1. CASE InitShareKit
  BY <1>1 DEF InitShareKit
<1>2. CASE StartShareService
  BY <1>2 DEF StartShareService
<1>3. CASE WaitEnds
  BY <1>3 DEF WaitEnds
<1>4. CASE StopShareService
  BY <1>4 DEF StopShareService
<1>5. CASE UninitShareKit
  BY <1>5 DEF UninitShareKit
<1>6. CASE Return
  BY <1>6 DEF Return
<1> QED
  BY <1>1, <1>2, <1>3, <1>4, <1>5, <1>6 DEF Main

\* The callbacks and the signal leave main where it is; a confirmation is
\* late only after the wait.
LEMMA CallbackKeeps ==
    ASSUME IInv,
           \/ \E t \in Transfers : Request(t) \/ RequestFileTrans(t) \/ FileTransferResult(t)
           \/ SharekitStatusChangeCbFunc
           \/ Interrupt
    PROVE  /\ Footing'
           /\ \A t \in Transfers :
                 transfer'[t] \in {"cut", "late"} =>
                     transfer[t] \in {"cut", "late"}
                     \/ (transfer[t] = "asked" /\ causes # {})
<1> USE DEF IInv, Footing, TypeOK, ExitsHaveCauses, ServiceIsAwaited, AskedInTheWait,
            FinishIsFinal, Become, Exit
<1>1. ASSUME NEW u \in Transfers, Request(u)
      PROVE  /\ Footing'
             /\ \A t \in Transfers :
                   transfer'[t] \in {"cut", "late"} => transfer[t] \in {"cut", "late"}
  BY <1>1 DEF Request
<1>2. ASSUME NEW u \in Transfers, RequestFileTrans(u)
      PROVE  /\ Footing'
             /\ \A t \in Transfers :
                   transfer'[t] \in {"cut", "late"} =>
                       transfer[t] \in {"cut", "late"}
                       \/ (transfer[t] = "asked" /\ causes # {})
  <2>1. service # "started" => causes # {}
    BY <1>2 DEF RequestFileTrans
  <2> QED
    BY <1>2, <2>1 DEF RequestFileTrans
<1>3. ASSUME NEW u \in Transfers, FileTransferResult(u)
      PROVE  /\ Footing'
             /\ \A t \in Transfers :
                   transfer'[t] \in {"cut", "late"} => transfer[t] \in {"cut", "late"}
  BY <1>3 DEF FileTransferResult
<1>4. CASE SharekitStatusChangeCbFunc \/ Interrupt
  BY <1>4 DEF SharekitStatusChangeCbFunc, Interrupt
<1> QED
  BY <1>1, <1>2, <1>3, <1>4

\* Every step keeps the invariant: whatever is cut short was excused before.
LEMMA IInvKept ==
    ASSUME IInv, [Next]_vars
    PROVE  IInv'
<1>1. CASE UNCHANGED vars
  BY <1>1 DEF vars, IInv, Footing, TypeOK, ExitsHaveCauses, ServiceIsAwaited,
              AskedInTheWait, FinishIsFinal, TransferIsSeenThrough
<1>2. CASE Next
  <2>1. /\ Footing'
        /\ \A t \in Transfers :
              transfer'[t] \in {"cut", "late"} =>
                  transfer[t] \in {"cut", "late"}
                  \/ (transfer[t] \in {"asked", "confirmed"} /\ causes # {})
    BY <1>2, MainKeeps, CallbackKeeps DEF Next
  <2>2. TransferIsSeenThrough'
    <3> SUFFICES ASSUME NEW t \in Transfers, transfer'[t] \in {"cut", "late"}
                 PROVE  \/ causes' \cap {"status", "signal"} # {}
                        \/ \E u \in Transfers \ {t} : transfer'[u] = "finished"
      BY DEF TransferIsSeenThrough
    <3>1. \/ causes \cap {"status", "signal"} # {}
          \/ \E u \in Transfers \ {t} : transfer[u] = "finished"
      BY <2>1, Excused DEF IInv, TransferIsSeenThrough
    <3> QED
      BY <3>1, ExcusesStay DEF IInv, Footing
  <2> QED
    BY <2>1, <2>2 DEF IInv
<1> QED
  BY <1>1, <1>2

\* IInv holds of every behaviour of the receiver.
THEOREM Invariance == Spec => []IInv
<1>1. Init => IInv
  BY DEF Init, IInv, Footing, TypeOK, ExitsHaveCauses, ServiceIsAwaited,
         AskedInTheWait, FinishIsFinal, TransferIsSeenThrough
<1> QED
  BY <1>1, IInvKept, PTL DEF Spec

\* Nothing but a status, a signal or the end of another transfer keeps one
\* that was asked for and confirmed from its end.
THEOREM SeenThrough == Spec => []TransferIsSeenThrough
<1>1. IInv => TransferIsSeenThrough
  BY DEF IInv
<1> QED
  BY <1>1, Invariance, PTL

\* A finished transfer keeps the wait ended, and main ends in order.
THEOREM FinishIsKept == Spec => []FinishIsFinal
<1>1. IInv => FinishIsFinal
  BY DEF IInv, Footing
<1> QED
  BY <1>1, Invariance, PTL
=============================================================================
