------------------------ MODULE WindowsClientProofs ------------------------
(***************************************************************************)
(* Theorems about WindowsClient for any set of devices and of signals.     *)
(***************************************************************************)
EXTENDS WindowsClient, TLAPS

\* Only announced devices get into g_sharedevice, and none but they once
\* isDeviceFound is set; it is set when the copy is complete.
DeviceIsWritten ==
    /\ listener # "idle" => found \in announced
    /\ g_sharedevice # {}
    /\ g_sharedevice \subseteq announced \cup {NULL}
    /\ listener = "flag" => g_sharedevice = {found}
    /\ isDeviceFound => NULL \notin g_sharedevice

\* A send begins after that, and so is of announced devices.
SendIsOfAnnounced ==
    /\ pc = "send" => isDeviceFound
    /\ sends > 0 => sentTo # {} /\ sentTo \subseteq announced

\* A send that was chosen is within the bound.
SendsLeft == pc \in {"search", "await", "send"} => sends < MaxSends

\* isSendFinish is set only while main waits for the send that was told, or
\* has done so and not yet reset it.
FlagIsOfSend ==
    /\ isSendFinish => send = "told" /\ pc \in {"finish", "stop", "reset", "exited"}
    /\ pc \in {"stop", "reset"} => isSendFinish
    /\ send = "going" => pc \in {"finish", "exited"}

\* What DisconnectEndsSend rests on, beside the scheduler: a DISCONNECTED
\* that was told stands in isSendFinish until main has seen it (line 112),
\* also if it was told before main began to wait.
TellStands == pc = "finish" /\ send = "told" => isSendFinish

IInv ==
    /\ TypeOK
    /\ DeviceIsWritten
    /\ SendIsOfAnnounced
    /\ SendsLeft
    /\ FlagIsOfSend
    /\ TellStands

\* IInv holds of every behaviour of the client.
THEOREM Invariance == Spec => []IInv
<1> USE DevicesAssumption, BoundsAssumption
        DEF DevicesAssumption, BoundsAssumption, library, sending
<1>1. Init => IInv
  <2> SUFFICES ASSUME Init PROVE IInv
    OBVIOUS
  <2> USE DEF Init
  <2>1. TypeOK
    <3>1. handler \in [Signals -> {"armed", "running", "disarmed"}]
      OBVIOUS
    <3>2. sends \in 0..MaxSends
      OBVIOUS
    <3> QED
      BY <3>1, <3>2 DEF TypeOK
  <2>2. DeviceIsWritten /\ SendIsOfAnnounced /\ SendsLeft /\ FlagIsOfSend /\ TellStands
    BY DEF DeviceIsWritten, SendIsOfAnnounced, SendsLeft, FlagIsOfSend, TellStands
  <2> QED
    BY <2>1, <2>2 DEF IInv
<1>2. IInv /\ [Next]_vars => IInv'
  <2> SUFFICES ASSUME IInv, [Next]_vars PROVE IInv'
    OBVIOUS
  <2> USE DEF IInv, TypeOK, DeviceIsWritten, SendIsOfAnnounced, SendsLeft, FlagIsOfSend,
              TellStands
  <2>1. CASE RegistClient
    BY <2>1 DEF RegistClient
  <2>2. CASE BuildService
    BY <2>2 DEF BuildService
  <2>3. CASE Choose
    BY <2>3 DEF Choose
  <2>4. CASE UnRegistAndExit
    BY <2>4 DEF UnRegistAndExit, UnRegistClient
  <2>5. CASE SendFile
    <3>1. CASE SearchDevice
      BY <3>1 DEF SearchDevice
    <3>2. CASE AwaitDevice
      BY <3>2 DEF AwaitDevice
    <3>3. CASE SendByHwShare
      BY <3>3 DEF SendByHwShare
    <3>4. CASE AwaitFinish
      BY <3>4 DEF AwaitFinish
    <3>5. CASE StopSearch
      BY <3>5 DEF StopSearch
    <3>6. CASE ResetFinish
      BY <3>6 DEF ResetFinish
    <3> QED
      BY <2>5, <3>1, <3>2, <3>3, <3>4, <3>5, <3>6 DEF SendFile
  <2>6. ASSUME NEW d \in Devices, OnDeviceFound(d) PROVE IInv'
    BY <2>6 DEF OnDeviceFound
  <2>7. CASE Listener
    <3>1. CASE BeginCopy
      BY <3>1 DEF BeginCopy
    <3>2. CASE EndCopy
      BY <3>2 DEF EndCopy
    <3>3. CASE SetFound
      BY <3>3 DEF SetFound
    <3> QED
      BY <2>7, <3>1, <3>2, <3>3 DEF Listener
  <2>8. CASE OnStatusChange
    BY <2>8 DEF OnStatusChange
  <2>9. ASSUME NEW s \in Signals, Deliver(s) \/ sig_handler(s) \/ DeliverAgain(s)
        PROVE  IInv'
    <3>1. CASE Deliver(s)
      <4>1. handler' \in [Signals -> {"armed", "running", "disarmed"}]
        BY <3>1 DEF Deliver
      <4>2. UNCHANGED <<pc, library, registered, g_sharedevice, isDeviceFound, isSendFinish,
                        sending>>
        BY <3>1 DEF Deliver
      <4> QED
        BY <4>1, <4>2
    <3>2. CASE sig_handler(s)
      <4>1. handler' \in [Signals -> {"armed", "running", "disarmed"}]
        BY <3>2 DEF sig_handler
      <4>2. registered' \in BOOLEAN
        BY <3>2 DEF sig_handler, UnRegistClient
      <4>3. UNCHANGED <<pc, library, g_sharedevice, isDeviceFound, isSendFinish, sending>>
        BY <3>2 DEF sig_handler
      <4> QED
        BY <4>1, <4>2, <4>3
    <3>3. CASE DeliverAgain(s)
      BY <3>3 DEF DeliverAgain
    <3> QED
      BY <2>9, <3>1, <3>2, <3>3
  <2>10. CASE UNCHANGED vars
    BY <2>10 DEF vars
  <2> QED
    BY <2>1, <2>2, <2>3, <2>4, <2>5, <2>6, <2>7, <2>8, <2>9, <2>10 DEF Next
<1> QED
  BY <1>1, <1>2, PTL DEF Spec

\* The variables keep their types, and what is copied was found.
THEOREM Typing == Spec => []TypeOK
<1>1. IInv => TypeOK
  BY DEF IInv
<1> QED
  BY <1>1, Invariance, PTL

\* With one device announced, every send is of that device, whole: what was
\* read is a nonempty set of announced devices.
THEOREM WholeDevice == Spec => []SendsWholeDevice
<1>1. IInv => SendsWholeDevice
  <2> SUFFICES ASSUME IInv, sends > 0, \A d, e \in announced : d = e
               PROVE  sentTo = announced
    BY DEF SendsWholeDevice
  <2>1. sentTo # {} /\ sentTo \subseteq announced
    BY DEF IInv, SendIsOfAnnounced
  <2> QED
    BY <2>1
<1> QED
  BY <1>1, Invariance, PTL

\* sendFile gets past its wait by the DISCONNECTED of its own send.
THEOREM FinishIsOwn == Spec => []FinishIsOfThisSend
<1>1. IInv => FinishIsOfThisSend
  BY DEF IInv, FlagIsOfSend, FinishIsOfThisSend
<1> QED
  BY <1>1, Invariance, PTL

\* What sendFile waits for is not lost: told once, and there until it looks.
THEOREM TellIsKept == Spec => []TellStands
<1>1. IInv => TellStands
  BY DEF IInv
<1> QED
  BY <1>1, Invariance, PTL
=============================================================================
