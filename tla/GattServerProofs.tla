-------------------------- MODULE GattServerProofs --------------------------
(***************************************************************************)
(* Theorems about GattServer for any set of server threads.                *)
(***************************************************************************)
EXTENDS GattServer, TLAPS

\* While server threads do not overlap: at most one is alive, and the SDK
\* has a callback table.
OneThread ==
    solo => /\ \A s, t \in Conns : Alive(s) /\ Alive(t) => s = t
            /\ \A s \in Conns : pc[s] # "unborn" => registered

\* A thread's server is live exactly from its creation to its destruction,
\* and then g_server points to it.
OwnServer ==
    solo => \A s \in Conns :
        /\ server[s] = "live" <=> pc[s] \in {"tell", "loop", "destroy"}
        /\ server[s] = "live" => srv = s

\* What the SDK has heard, by where the thread is.
Hears ==
    solo => \A s \in Conns :
        /\ pc[s] = "unborn" => phase[s] = "none"
        /\ pc[s] \in {"init", "accept", "create", "tell"} => phase[s] = "trying"
        /\ pc[s] \in {"loop", "destroy", "report"} => phase[s] = "up"
        /\ pc[s] = "done" => phase[s] \in {"trying", "over"}

IInv ==
    /\ TypeOK
    /\ OneThread
    /\ OwnServer
    /\ Hears
    /\ DestroysLiveServer

\* The server starts in IInv,
LEMMA IInvStarts == Init => IInv
<1> USE NULLAssumption DEF NULLAssumption, PcStates, Alive, heard, ghosts
<1> SUFFICES ASSUME Init PROVE IInv
  OBVIOUS
<1> USE DEF Init
<1>1. TypeOK
  BY DEF TypeOK
<1>2. OneThread /\ OwnServer /\ Hears /\ DestroysLiveServer
  BY DEF OneThread, OwnServer, Hears, DestroysLiveServer
<1> QED
  BY <1>1, <1>2 DEF IInv

\* and every step of it keeps IInv.
LEMMA IInvKept == IInv /\ [Next]_vars => IInv'
<1> USE NULLAssumption DEF NULLAssumption, PcStates, Alive, heard, ghosts
<1> SUFFICES ASSUME IInv, [Next]_vars PROVE IInv'
  OBVIOUS
<1> USE DEF IInv, TypeOK, OneThread, OwnServer, Hears, DestroysLiveServer,
            Goto, Tell, Use
<1>1. CASE BleRegisterChannelCallback
  BY <1>1 DEF BleRegisterChannelCallback
<1>2. ASSUME NEW s \in Conns, BleDriverInit(s) PROVE IInv'
  BY <1>2, ZenonT(60) DEF BleDriverInit
<1>3. CASE BleDriverDeinit
  BY <1>3 DEF BleDriverDeinit
<1>4. CASE BleNotifyData
  BY <1>4 DEF BleNotifyData
<1>5. ASSUME NEW s \in Conns, RunStep(s) PROVE IInv'
  <2>1. CASE MainloopInit(s)
    BY <2>1, ZenonT(60) DEF MainloopInit
  <2>2. CASE ServerCreated(s)
    BY <2>2 DEF ServerCreated
  <2>3. CASE ServerNotCreated(s)
    BY <2>3 DEF ServerNotCreated
  <2>4. CASE TellConnect(s)
    BY <2>4 DEF TellConnect
  <2>5. CASE MainloopEnds(s)
    BY <2>5 DEF MainloopEnds
  <2>6. CASE server_destroy(s)
    BY <2>6 DEF server_destroy
  <2>7. CASE TellDisconnect(s)
    BY <2>7 DEF TellDisconnect
  <2> QED
    BY <1>5, <2>1, <2>2, <2>3, <2>4, <2>5, <2>6, <2>7 DEF RunStep
<1>6. ASSUME NEW s \in Conns, PeerStep(s) PROVE IInv'
  <2>1. CASE Accept(s)
    BY <2>1 DEF Accept
  <2>2. CASE AcceptFails(s)
    BY <2>2 DEF AcceptFails
  <2>3. CASE att_disconnect_cb(s)
    BY <2>3 DEF att_disconnect_cb
  <2>4. CASE gap_nearby_write_cb(s)
    BY <2>4 DEF gap_nearby_write_cb
  <2> QED
    BY <1>6, <2>1, <2>2, <2>3, <2>4 DEF PeerStep
<1>7. CASE UNCHANGED vars
  BY <1>7 DEF vars
<1> QED
  BY <1>1, <1>2, <1>3, <1>4, <1>5, <1>6, <1>7 DEF Next, SdkStep

\* IInv holds of every behaviour of the server.
THEOREM Invariance == Spec => []IInv
  BY IInvStarts, IInvKept, PTL DEF Spec

\* The variables keep their types, and a thread that is to run its loop has
\* a server, overlap or not.
THEOREM Typing == Spec => []TypeOK
<1>1. IInv => TypeOK
  BY DEF IInv
<1> QED
  BY <1>1, Invariance, PTL

\* server_destroy is given the thread's own live server (line 291).
THEOREM DestroysLive == Spec => []DestroysLiveServer
<1>1. IInv => DestroysLiveServer
  BY DEF IInv
<1> QED
  BY <1>1, Invariance, PTL

\* Every step of the driver is a step of the promise, or none at all, as
\* far as the SDK hears.
LEMMA StepKeepsPromise ==
    ASSUME IInv, [Next]_vars
    PROVE  [Promise!ChannelNext]_(Promise!channelVars)
<1> USE NULLAssumption
    DEF NULLAssumption, PcStates, Alive, heard, ghosts, Goto, Tell
<1>0. TypeOK /\ OneThread /\ OwnServer /\ Hears
  BY DEF IInv
<1> USE DEF TypeOK
<1> DEFINE Voids == solo' = FALSE
           Mute == UNCHANGED <<phase, data, solo>>
<1>1. Voids => [Promise!ChannelNext]_(Promise!channelVars)
  BY <1>0 DEF Promise!ChannelNext, Promise!Overlap, Promise!Void
<1>2. Mute => [Promise!ChannelNext]_(Promise!channelVars)
  BY DEF Promise!channelVars
<1>3. ASSUME NEW s \in Conns,
             \/ Promise!Ask(s) \/ Promise!Connect(s)
             \/ Promise!Disconnect(s) \/ Promise!Receive(s)
      PROVE  [Promise!ChannelNext]_(Promise!channelVars)
  BY <1>3 DEF Promise!ChannelNext
<1> USE DEF Promise!Move
<1>4. CASE \/ BleRegisterChannelCallback
           \/ BleDriverDeinit
           \/ BleNotifyData
           \/ UNCHANGED vars
  <2>1. Mute
    BY <1>4 DEF BleRegisterChannelCallback, BleDriverDeinit, BleNotifyData, vars
  <2> QED
    BY <2>1, <1>2
<1>5. ASSUME NEW s \in Conns, BleDriverInit(s)
      PROVE  [Promise!ChannelNext]_(Promise!channelVars)
  <2>1. CASE solo'
    <3>1. \A t \in Conns : phase[t] # "up"
      BY <1>0, <1>5, <2>1 DEF BleDriverInit, Hears
    <3>2. Promise!Ask(s)
      BY <1>0, <1>5, <2>1, <3>1 DEF BleDriverInit, Hears, Promise!Ask
    <3> QED
      BY <3>2, <1>3
  <2>2. CASE ~solo'
    BY <1>0, <1>1, <1>5, <2>2 DEF BleDriverInit
  <2> QED
    BY <2>1, <2>2
<1>6. ASSUME NEW s \in Conns, RunStep(s)
      PROVE  [Promise!ChannelNext]_(Promise!channelVars)
  <2>1. CASE ~solo
    <3>1. solo' = solo
      BY <1>6 DEF RunStep, MainloopInit, ServerCreated, ServerNotCreated,
        TellConnect, MainloopEnds, server_destroy, TellDisconnect
    <3> QED
      BY <1>0, <1>1, <2>1, <3>1
  <2>2. CASE solo
    <3>1. CASE \/ MainloopInit(s) \/ ServerCreated(s) \/ ServerNotCreated(s)
               \/ MainloopEnds(s) \/ server_destroy(s)
      <4>1. Mute
        BY <3>1 DEF MainloopInit, ServerCreated, ServerNotCreated, MainloopEnds,
          server_destroy
      <4> QED
        BY <4>1, <1>2
    <3>2. CASE TellConnect(s)
      <4>1. Promise!Connect(s)
        BY <1>0, <2>2, <3>2 DEF TellConnect, OneThread, Hears, Promise!Connect
      <4> QED
        BY <4>1, <1>3
    <3>3. CASE TellDisconnect(s)
      <4>1. Promise!Disconnect(s)
        BY <1>0, <2>2, <3>3 DEF TellDisconnect, OneThread, Hears, Promise!Disconnect
      <4> QED
        BY <4>1, <1>3
    <3> QED
      BY <1>6, <3>1, <3>2, <3>3 DEF RunStep
  <2> QED
    BY <1>0, <2>1, <2>2
<1>7. ASSUME NEW s \in Conns, PeerStep(s)
      PROVE  [Promise!ChannelNext]_(Promise!channelVars)
  <2>1. CASE Accept(s) \/ AcceptFails(s) \/ att_disconnect_cb(s)
    <3>1. Mute
      BY <2>1 DEF Accept, AcceptFails, att_disconnect_cb
    <3> QED
      BY <3>1, <1>2
  <2>2. CASE gap_nearby_write_cb(s)
    <3>1. CASE ~solo
      BY <1>0, <1>1, <2>2, <3>1 DEF gap_nearby_write_cb
    <3>2. CASE solo
      <4>1. phase[s] = "up"
        BY <1>0, <2>2, <3>2 DEF gap_nearby_write_cb, Callable, OneThread, OwnServer, Hears
      <4>2. Promise!Receive(s)
        BY <2>2, <4>1 DEF gap_nearby_write_cb, Promise!Receive
      <4> QED
        BY <4>2, <1>3
    <3> QED
      BY <1>0, <3>1, <3>2
  <2> QED
    BY <1>7, <2>1, <2>2 DEF PeerStep
<1> QED
  BY <1>4, <1>5, <1>6, <1>7 DEF Next, SdkStep

\* The server implements the promise of Channel.
THEOREM KeepsPromise == Spec => ImplementsChannel
<1>1. Init => Promise!ChannelInit
  BY DEF Init, Promise!ChannelInit
<1>2. IInv /\ [Next]_vars => [Promise!ChannelNext]_(Promise!channelVars)
  BY StepKeepsPromise
<1> QED
  BY <1>1, <1>2, Invariance, PTL DEF Spec, ImplementsChannel, Promise!ChannelSpec

\* What ConnectIsClosed rests on, beside the scheduler: while server threads
\* do not overlap, a loop whose peer is gone has its quit request standing,
LossEndsLoop ==
    solo => \A s \in Conns : link[s] = "lost" =>
        \/ pc[s] = "loop" /\ quit
        \/ pc[s] \in {"destroy", "report", "done"}

\* and a request that stands, or a loop that has ended, stays so until the
\* SDK is told DISCONNECT (lines 289-293): no mainloop_init takes it away.
Ending(s) == (pc[s] = "loop" /\ quit) \/ pc[s] \in {"destroy", "report"}
EndIsPending ==
    [][\A s \in Conns : solo' /\ Ending(s) => Ending(s)' \/ phase'[s] = "over"]_vars

LEMMA EndingStays ==
    ASSUME IInv, LossEndsLoop, [Next]_vars
    PROVE  /\ LossEndsLoop'
           /\ \A s \in Conns : solo' /\ Ending(s) => Ending(s)' \/ phase'[s] = "over"
<1> DEFINE Kept == /\ LossEndsLoop'
                   /\ \A s \in Conns : solo' /\ Ending(s) => Ending(s)' \/ phase'[s] = "over"
<1>0. TypeOK /\ OneThread /\ OwnServer
  BY DEF IInv
<1> USE <1>0 DEF TypeOK, PcStates, OneThread, LossEndsLoop, Ending, Alive,
                 heard, ghosts, Goto, Tell
<1>1. CASE BleRegisterChannelCallback \/ BleDriverDeinit \/ BleNotifyData
  BY <1>1 DEF BleRegisterChannelCallback, BleDriverDeinit, BleNotifyData
<1>2. ASSUME NEW d \in Conns, BleDriverInit(d) PROVE Kept
  BY <1>2 DEF BleDriverInit
<1>3. ASSUME NEW d \in Conns, RunStep(d) PROVE Kept
  <2>1. CASE MainloopInit(d)
    <3>1. solo => \A s \in Conns : pc[s] \notin {"loop", "destroy", "report"}
      BY <2>1 DEF MainloopInit
    <3> QED
      BY <2>1, <3>1 DEF MainloopInit
  <2>2. CASE ServerCreated(d) \/ ServerNotCreated(d)
    BY <2>2 DEF ServerCreated, ServerNotCreated
  <2>3. CASE TellConnect(d)
    BY <2>3 DEF TellConnect
  <2>4. CASE MainloopEnds(d) \/ server_destroy(d)
    BY <2>4 DEF MainloopEnds, server_destroy
  <2>5. CASE TellDisconnect(d)
    BY <2>5 DEF TellDisconnect
  <2> QED
    BY <1>3, <2>1, <2>2, <2>3, <2>4, <2>5 DEF RunStep
<1>4. ASSUME NEW d \in Conns, PeerStep(d) PROVE Kept
  <2>1. CASE Accept(d) \/ AcceptFails(d)
    BY <2>1 DEF Accept, AcceptFails
  <2>2. CASE att_disconnect_cb(d)
    <3>1. solo => pc[d] \in {"tell", "loop", "destroy"}
      BY <2>2 DEF att_disconnect_cb, Callable, OwnServer
    <3>2. solo => pc[d] = "loop"
      BY <2>2, <3>1 DEF att_disconnect_cb, Callable
    <3> QED
      BY <2>2, <3>2 DEF att_disconnect_cb
  <2>3. CASE gap_nearby_write_cb(d)
    BY <2>3 DEF gap_nearby_write_cb
  <2> QED
    BY <1>4, <2>1, <2>2, <2>3 DEF PeerStep
<1>5. CASE UNCHANGED vars
  BY <1>5 DEF vars
<1> QED
  BY <1>1, <1>2, <1>3, <1>4, <1>5 DEF Next, SdkStep

\* A loop that has a reason to end keeps it until its end is told.
THEOREM EndIsKept == Spec => []LossEndsLoop /\ EndIsPending
<1>1. Init => LossEndsLoop
  BY DEF Init, LossEndsLoop
<1>2. IInv /\ LossEndsLoop /\ [Next]_vars => LossEndsLoop'
  BY EndingStays
<1>3. IInv /\ LossEndsLoop /\ [Next]_vars
        => [\A s \in Conns : solo' /\ Ending(s) => Ending(s)' \/ phase'[s] = "over"]_vars
  BY EndingStays
<1> QED
  BY <1>1, <1>2, <1>3, Invariance, PTL DEF Spec, EndIsPending
=============================================================================
