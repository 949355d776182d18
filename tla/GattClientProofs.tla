-------------------------- MODULE GattClientProofs --------------------------
(***************************************************************************)
(* Theorems about GattClient for any set of connections and addresses, and *)
(* for every behaviour: also those in which connections overlap, which the *)
(* model checker does not follow.                                          *)
(***************************************************************************)
EXTENDS GattClient, TLAPS

\* While connections do not overlap: at most one thread is alive, and the
\* SDK has a callback table.
OneThread ==
    solo => /\ \A c, d \in Conns : Alive(c) /\ Alive(d) => c = d
            /\ \A c \in Conns : pc[c] # "unborn" => registered

\* The client of a connection is live exactly while its thread is in the
\* loop or about to destroy it, and then g_nearbyCli points to it.
OwnClient ==
    solo => \A c \in Conns :
        /\ client[c] = "live" <=> pc[c] \in {"loop", "destroy"}
        /\ client[c] = "live" => cli = c

\* What a thread is to read from con is what its BleConnect was given.
ConHolds ==
    solo => \A c \in Conns :
        /\ pc[c] \in {"init", "dial"} => con = asked[c]
        /\ HasRead(c) => dialed[c] = asked[c]

\* Once a connection was asked for, con holds an address.
ConSet == con = NULL => \A c \in Conns : pc[c] = "unborn"

\* What the SDK has heard, by where the thread is and what was discovered.
Hears ==
    solo => \A c \in Conns :
        /\ pc[c] = "unborn" => phase[c] = "none"
        /\ pc[c] \in {"init", "dial", "dialing"} => phase[c] = "trying"
        /\ pc[c] = "create" => phase[c] \in {"trying", "broken"}
        /\ pc[c] \in {"loop", "destroy", "report"} => phase[c] \in {"trying", "broken", "up"}
        /\ pc[c] = "done" => phase[c] \in {"broken", "over"}
        /\ notify[c] # "none" => ready[c] = "ok"
        /\ phase[c] = "up" => notify[c] = "on"
        /\ notify[c] = "on" => phase[c] \in {"broken", "up", "over"}

\* What BleSendData finds behind g_nearbyCli, or discovery worked for, is
\* the client of a connection, up or over.
SendFinds ==
    /\ cli # NULL => client[cli] # "none"
    /\ \A c \in Conns : ready[c] # "pending" => client[c] # "none"
    /\ send = "write" => \E c \in Conns : client[c] # "none"
    /\ solo => \A c \in Conns :
          client[c] # "none" => pc[c] \in {"loop", "destroy", "report", "done"}

IInv ==
    /\ TypeOK
    /\ OneThread
    /\ OwnClient
    /\ ConHolds
    /\ ConSet
    /\ Hears
    /\ SendFinds
    /\ NoMisuseAlone

\* The client starts in IInv,
LEMMA IInvStarts == Init => IInv
<1> USE NULLAssumption
    DEF NULLAssumption, PcStates, Alive, HasRead, thread, gatt, dial, heard
<1> SUFFICES ASSUME Init PROVE IInv
  OBVIOUS
<1> USE DEF Init
<1>1. TypeOK
  BY DEF TypeOK
<1>2. OneThread /\ OwnClient /\ ConHolds /\ ConSet
  BY DEF OneThread, OwnClient, ConHolds, ConSet
<1>3. Hears /\ SendFinds /\ NoMisuseAlone
  BY DEF Hears, SendFinds, NoMisuseAlone
<1> QED
  BY <1>1, <1>2, <1>3 DEF IInv

\* and every step of it keeps IInv.
LEMMA IInvKept == IInv /\ [Next]_vars => IInv'
<1> USE NULLAssumption
    DEF NULLAssumption, PcStates, Alive, HasRead, thread, gatt, dial, heard
<1> SUFFICES ASSUME IInv, [Next]_vars PROVE IInv'
  OBVIOUS
<1> USE DEF IInv, TypeOK, OneThread, OwnClient, ConHolds, ConSet, Hears, SendFinds,
            NoMisuseAlone, Goto, Tell, Use
<1>1. CASE BleRegisterChannelCallback
  BY <1>1 DEF BleRegisterChannelCallback
<1>2. ASSUME NEW c \in Conns, NEW addr \in Addrs, BleConnect(c, addr)
      PROVE IInv'
  <2> USE DEF BleConnect
  <2>1. TypeOK'
    <3>1. \A d \in Conns : HasRead(d)' => HasRead(d)
      BY <1>2
    <3>2. asked' \in [Conns -> Addrs \cup {NULL}] /\ pc' \in [Conns -> PcStates]
      BY <1>2
    <3> QED
      BY <1>2, <3>1, <3>2
  <2>2. OneThread'
    <3> SUFFICES ASSUME solo'
                 PROVE /\ \A d, e \in Conns : Alive(d)' /\ Alive(e)' => d = e
                       /\ registered'
      OBVIOUS
    <3>1. \A d \in Conns : Alive(d)' => d = c
      BY <1>2, ZenonT(60)
    <3> QED
      BY <1>2, <3>1
  <2>3. OwnClient'
    BY <1>2
  <2>4. ConSet' /\ SendFinds' /\ NoMisuseAlone'
    BY <1>2
  <2>5. ConHolds'
    <3> SUFFICES ASSUME solo', NEW d \in Conns
                 PROVE /\ pc'[d] \in {"init", "dial"} => con' = asked'[d]
                       /\ HasRead(d)' => dialed'[d] = asked'[d]
      OBVIOUS
    <3>1. CASE d = c
      BY <1>2, <3>1
    <3>2. CASE d # c
      <4>1. pc'[d] = pc[d] /\ asked'[d] = asked[d] /\ dialed'[d] = dialed[d]
        BY <1>2, <3>2
      <4>2. pc[d] \notin {"init", "dial"}
        BY <1>2
      <4> QED
        BY <1>2, <4>1, <4>2
    <3> QED
      BY <3>1, <3>2
  <2>6. Hears'
    BY <1>2
  <2> QED
    BY <2>1, <2>2, <2>3, <2>4, <2>5, <2>6
<1>3. ASSUME NEW addr \in Addrs, BleConnectNoThread(addr) PROVE IInv'
  BY <1>3 DEF BleConnectNoThread
<1>4. CASE BleDisconnect
  BY <1>4 DEF BleDisconnect
<1>5. CASE SendCheck
  BY <1>5 DEF SendCheck
<1>6. CASE SendWrite
  BY <1>6 DEF SendWrite
<1>7. ASSUME NEW c \in Conns, ThreadStep(c) PROVE IInv'
  <2>1. CASE MainloopInit(c)
    <3> USE DEF MainloopInit
    <3>1. TypeOK'
      BY <2>1
    <3>2. OneThread' /\ OwnClient' /\ SendFinds' /\ NoMisuseAlone'
      BY <2>1
    <3>3. ConHolds' /\ ConSet'
      BY <2>1
    <3>4. Hears'
      BY <2>1
    <3> QED
      BY <3>1, <3>2, <3>3, <3>4
  <2>2. CASE ReadCon(c)
    <3> USE DEF ReadCon
    <3>1. TypeOK' /\ OneThread' /\ OwnClient' /\ SendFinds' /\ NoMisuseAlone'
      BY <2>2
    <3>2. ConHolds' /\ ConSet'
      BY <2>2
    <3>3. Hears'
      BY <2>2
    <3> QED
      BY <3>1, <3>2, <3>3
  <2>3. CASE DialSucceeds(c)
    BY <2>3 DEF DialSucceeds
  <2>4. CASE DialFails(c)
    BY <2>4 DEF DialFails
  <2>5. CASE ClientCreated(c)
    BY <2>5 DEF ClientCreated
  <2>6. CASE ClientNotCreated(c)
    BY <2>6 DEF ClientNotCreated
  <2>7. CASE MainloopEnds(c)
    BY <2>7 DEF MainloopEnds
  <2>8. CASE client_destroy(c)
    BY <2>8 DEF client_destroy
  <2>9. CASE TellDisconnect(c)
    BY <2>9 DEF TellDisconnect
  <2> QED
    BY <1>7, <2>1, <2>2, <2>3, <2>4, <2>5, <2>6, <2>7, <2>8, <2>9 DEF ThreadStep
<1>8. ASSUME NEW c \in Conns, Callback(c) PROVE IInv'
  <2> USE DEF Callable
  <2>1. CASE att_disconnect_cb(c)
    BY <2>1 DEF att_disconnect_cb
  <2>2. CASE ReadyFails(c)
    BY <2>2 DEF ReadyFails
  <2>3. CASE ready_cb(c)
    <3> USE DEF ready_cb
    <3>1. TypeOK'
      <4>1. nearby' \in [Conns -> BOOLEAN] /\ ready' \in [Conns -> {"pending", "ok", "failed"}]
        BY <2>3
      <4>2. phase' \in [Conns -> {"none", "trying", "broken", "up", "over"}]
        BY <2>3
      <4>3. /\ notify' \in [Conns -> {"none", "asked", "on"}]
            /\ misuse' \subseteq {"destroy", "callback", "send"}
        BY <2>3
      <4> QED
        BY <2>3, <4>1, <4>2, <4>3
    <3>2. OneThread' /\ OwnClient'
      BY <2>3
    <3>3. ConHolds' /\ ConSet'
      BY <2>3
    <3>4. SendFinds' /\ NoMisuseAlone'
      BY <2>3
    <3>5. Hears'
      BY <2>3
    <3> QED
      BY <3>1, <3>2, <3>3, <3>4, <3>5
  <2>4. CASE NotifyRefused(c)
    BY <2>4 DEF NotifyRefused
  <2>5. CASE register_notify_cb(c)
    <3> USE DEF register_notify_cb
    <3>1. TypeOK' /\ OneThread' /\ OwnClient' /\ ConHolds' /\ ConSet'
      BY <2>5
    <3>2. SendFinds' /\ NoMisuseAlone'
      BY <2>5
    <3>3. Hears'
      BY <2>5
    <3> QED
      BY <3>1, <3>2, <3>3
  <2>6. CASE notify_cb(c)
    BY <2>6 DEF notify_cb
  <2> QED
    BY <1>8, <2>1, <2>2, <2>3, <2>4, <2>5, <2>6 DEF Callback
<1>9. CASE UNCHANGED vars
  BY <1>9 DEF vars
<1> QED
  BY <1>1, <1>2, <1>3, <1>4, <1>5, <1>6, <1>7, <1>8, <1>9 DEF Next, SdkStep

\* IInv holds of every behaviour of the client.
THEOREM Invariance == Spec => []IInv
  BY IInvStarts, IInvKept, PTL DEF Spec

\* The variables keep their types, overlap or not.
THEOREM Typing == Spec => []TypeOK
<1>1. IInv => TypeOK
  BY DEF IInv
<1> QED
  BY <1>1, Invariance, PTL

\* A connect thread dials what its own BleConnect was given (line 280).
THEOREM DialsAsked == Spec => []DialsAskedAddress
<1>1. IInv => DialsAskedAddress
  BY DEF IInv, ConHolds, DialsAskedAddress
<1> QED
  BY <1>1, Invariance, PTL

\* No client is destroyed twice, and no callback writes through a client
\* that is freed, missing or another connection's.
THEOREM NoMisuse == Spec => []NoMisuseAlone
<1>1. IInv => NoMisuseAlone
  BY DEF IInv
<1> QED
  BY <1>1, Invariance, PTL

\* Every step of the driver is a step of the promise, or none at all, as
\* far as the SDK hears.
LEMMA StepKeepsPromise ==
    ASSUME IInv, [Next]_vars
    PROVE  [Promise!ChannelNext]_(Promise!channelVars)
<1> USE NULLAssumption
    DEF NULLAssumption, PcStates, Alive, thread, gatt, dial, heard, Goto, Tell
<1>0. TypeOK /\ OneThread /\ OwnClient /\ Hears
  BY DEF IInv
<1> USE DEF TypeOK
<1> DEFINE Voids == solo' = FALSE
           Mute == UNCHANGED <<phase, data, solo>>
<1>1. Voids => [Promise!ChannelNext]_(Promise!channelVars)
  BY <1>0 DEF Promise!ChannelNext, Promise!Overlap, Promise!Void
<1>2. Mute => [Promise!ChannelNext]_(Promise!channelVars)
  BY DEF Promise!channelVars
<1>3. ASSUME NEW c \in Conns,
             \/ Promise!Ask(c) \/ Promise!Fail(c) \/ Promise!Connect(c)
             \/ Promise!Disconnect(c) \/ Promise!Receive(c)
      PROVE  [Promise!ChannelNext]_(Promise!channelVars)
  BY <1>3 DEF Promise!ChannelNext
<1> USE DEF Promise!Move
<1>4. CASE \/ BleRegisterChannelCallback
           \/ BleDisconnect
           \/ SendCheck
           \/ SendWrite
           \/ UNCHANGED vars
  <2>1. Mute
    BY <1>4 DEF BleRegisterChannelCallback, BleDisconnect, SendCheck, SendWrite, vars
  <2> QED
    BY <2>1, <1>2
<1>5. ASSUME NEW c \in Conns, NEW addr \in Addrs, BleConnect(c, addr)
      PROVE  [Promise!ChannelNext]_(Promise!channelVars)
  <2>1. CASE solo'
    <3>1. \A d \in Conns : phase[d] # "up"
      BY <1>0, <1>5, <2>1 DEF BleConnect, Hears
    <3>2. Promise!Ask(c)
      BY <1>0, <1>5, <2>1, <3>1 DEF BleConnect, Hears, Promise!Ask
    <3> QED
      BY <3>2, <1>3
  <2>2. CASE ~solo'
    BY <1>0, <1>1, <1>5, <2>2 DEF BleConnect
  <2> QED
    BY <2>1, <2>2
<1>6. ASSUME NEW addr \in Addrs, BleConnectNoThread(addr)
      PROVE  [Promise!ChannelNext]_(Promise!channelVars)
  BY <1>0, <1>1, <1>2, <1>6 DEF BleConnectNoThread
<1>7. ASSUME NEW c \in Conns, ThreadStep(c)
      PROVE  [Promise!ChannelNext]_(Promise!channelVars)
  <2>1. CASE ~solo
    <3>1. solo' = solo
      BY <1>7 DEF ThreadStep, MainloopInit, ReadCon, DialSucceeds, DialFails,
        ClientCreated, ClientNotCreated, MainloopEnds, client_destroy, TellDisconnect
    <3> QED
      BY <1>0, <1>1, <2>1, <3>1
  <2>2. CASE solo
    <3>1. CASE \/ MainloopInit(c) \/ ReadCon(c) \/ DialSucceeds(c)
               \/ ClientCreated(c) \/ MainloopEnds(c) \/ client_destroy(c)
      <4>1. Mute
        BY <3>1 DEF MainloopInit, ReadCon, DialSucceeds, ClientCreated,
          MainloopEnds, client_destroy
      <4> QED
        BY <4>1, <1>2
    <3>2. CASE DialFails(c) \/ ClientNotCreated(c)
      <4>1. Promise!Fail(c)
        BY <1>0, <2>2, <3>2 DEF DialFails, ClientNotCreated, OneThread, Hears, Promise!Fail
      <4> QED
        BY <4>1, <1>3
    <3>3. CASE TellDisconnect(c)
      <4>1. Promise!Disconnect(c)
        BY <1>0, <2>2, <3>3 DEF TellDisconnect, OneThread, Hears, Promise!Disconnect
      <4> QED
        BY <4>1, <1>3
    <3> QED
      BY <1>7, <3>1, <3>2, <3>3 DEF ThreadStep
  <2> QED
    BY <1>0, <2>1, <2>2
<1>8. ASSUME NEW c \in Conns, Callback(c)
      PROVE  [Promise!ChannelNext]_(Promise!channelVars)
  <2>1. CASE ~solo
    <3>1. solo' = solo
      BY <1>8 DEF Callback, att_disconnect_cb, ReadyFails, ready_cb, NotifyRefused,
        register_notify_cb, notify_cb
    <3> QED
      BY <1>0, <1>1, <2>1, <3>1
  <2>2. CASE solo
    <3>1. pc[c] \in {"loop", "destroy"} /\ phase[c] \in {"trying", "broken", "up"} /\ registered
      BY <1>0, <1>8, <2>2 DEF Callback, att_disconnect_cb, ReadyFails, ready_cb,
        NotifyRefused, register_notify_cb, notify_cb, Callable, OneThread, OwnClient, Hears
    <3>2. CASE att_disconnect_cb(c)
      BY <1>2, <3>2 DEF att_disconnect_cb
    <3>3. CASE ReadyFails(c) \/ NotifyRefused(c)
      <4>1. phase[c] # "up"
        BY <1>0, <2>2, <3>3 DEF ReadyFails, NotifyRefused, Hears
      <4>2. Promise!Fail(c)
        BY <1>0, <3>1, <3>3, <4>1 DEF ReadyFails, NotifyRefused, Promise!Fail
      <4> QED
        BY <4>2, <1>3
    <3>4. CASE ready_cb(c)
      <4>1. phase[c] # "up"
        BY <1>0, <2>2, <3>4 DEF ready_cb, Hears
      <4>2. Promise!Fail(c) \/ Mute
        BY <1>0, <3>1, <3>4, <4>1 DEF ready_cb, Promise!Fail
      <4> QED
        BY <4>2, <1>2, <1>3
    <3>5. CASE register_notify_cb(c)
      <4>1. phase[c] # "up"
        BY <1>0, <2>2, <3>5 DEF register_notify_cb, Hears
      <4>2. Promise!Fail(c) \/ Promise!Connect(c)
        BY <1>0, <3>1, <3>5, <4>1 DEF register_notify_cb, Promise!Fail, Promise!Connect
      <4> QED
        BY <4>2, <1>3
    <3>6. CASE notify_cb(c)
      <4>1. phase[c] \in {"broken", "up"}
        BY <1>0, <2>2, <3>1, <3>6 DEF notify_cb, Hears
      <4>2. Promise!Receive(c)
        BY <1>0, <3>6, <4>1 DEF notify_cb, Promise!Receive
      <4> QED
        BY <4>2, <1>3
    <3> QED
      BY <1>8, <3>2, <3>3, <3>4, <3>5, <3>6 DEF Callback
  <2> QED
    BY <1>0, <2>1, <2>2
<1> QED
  BY <1>4, <1>5, <1>6, <1>7, <1>8 DEF Next, SdkStep

\* The client implements the promise of Channel.
THEOREM KeepsPromise == Spec => ImplementsChannel
<1>1. Init => Promise!ChannelInit
  BY DEF Init, Promise!ChannelInit
<1>2. IInv /\ [Next]_vars => [Promise!ChannelNext]_(Promise!channelVars)
  BY StepKeepsPromise
<1> QED
  BY <1>1, <1>2, Invariance, PTL DEF Spec, ImplementsChannel, Promise!ChannelSpec

\* What LoopEndIsTold rests on, beside the scheduler: while connections do
\* not overlap, a loop whose link is lost has its quit request standing,
LossEndsLoop ==
    solo => \A c \in Conns : link[c] = "lost" /\ pc[c] = "loop" => quit

\* and a request that stands, or a loop that has ended, stays so until the
\* SDK is told DISCONNECT (lines 526-532): no mainloop_init takes it away.
Ending(c) == (pc[c] = "loop" /\ quit) \/ pc[c] \in {"destroy", "report"}
EndIsPending ==
    [][\A c \in Conns : solo' /\ Ending(c) => Ending(c)' \/ phase'[c] = "over"]_vars

LEMMA EndingStays ==
    ASSUME IInv, LossEndsLoop, [Next]_vars
    PROVE  /\ LossEndsLoop'
           /\ \A c \in Conns : solo' /\ Ending(c) => Ending(c)' \/ phase'[c] = "over"
<1> DEFINE Kept == /\ LossEndsLoop'
                   /\ \A c \in Conns : solo' /\ Ending(c) => Ending(c)' \/ phase'[c] = "over"
<1>0. TypeOK /\ OneThread
  BY DEF IInv
<1> USE <1>0 DEF TypeOK, PcStates, OneThread, LossEndsLoop, Ending, Alive,
                 thread, gatt, dial, heard, Goto, Tell
<1>1. CASE BleRegisterChannelCallback \/ BleDisconnect \/ SendCheck \/ SendWrite
  BY <1>1 DEF BleRegisterChannelCallback, BleDisconnect, SendCheck, SendWrite
<1>2. ASSUME NEW d \in Conns, NEW addr \in Addrs, BleConnect(d, addr) PROVE Kept
  BY <1>2 DEF BleConnect
<1>3. ASSUME NEW addr \in Addrs, BleConnectNoThread(addr) PROVE Kept
  BY <1>3 DEF BleConnectNoThread
<1>4. ASSUME NEW d \in Conns, ThreadStep(d) PROVE Kept
  <2>1. CASE MainloopInit(d)
    <3>1. solo => \A c \in Conns : pc[c] \notin {"loop", "destroy", "report"}
      BY <2>1 DEF MainloopInit
    <3> QED
      BY <2>1, <3>1 DEF MainloopInit
  <2>2. CASE ReadCon(d) \/ DialSucceeds(d) \/ DialFails(d)
    BY <2>2 DEF ReadCon, DialSucceeds, DialFails
  <2>3. CASE ClientCreated(d) \/ ClientNotCreated(d)
    BY <2>3 DEF ClientCreated, ClientNotCreated
  <2>4. CASE MainloopEnds(d) \/ client_destroy(d)
    BY <2>4 DEF MainloopEnds, client_destroy
  <2>5. CASE TellDisconnect(d)
    BY <2>5 DEF TellDisconnect
  <2> QED
    BY <1>4, <2>1, <2>2, <2>3, <2>4, <2>5 DEF ThreadStep
<1>5. ASSUME NEW d \in Conns, Callback(d) PROVE Kept
  BY <1>5 DEF Callback, att_disconnect_cb, ReadyFails, ready_cb, NotifyRefused,
              register_notify_cb, notify_cb
<1>6. CASE UNCHANGED vars
  BY <1>6 DEF vars
<1> QED
  BY <1>1, <1>2, <1>3, <1>4, <1>5, <1>6 DEF Next, SdkStep

\* A loop that has a reason to end keeps it until its end is told.
THEOREM EndIsKept == Spec => []LossEndsLoop /\ EndIsPending
<1>1. Init => LossEndsLoop
  BY DEF Init, LossEndsLoop
<1>2. IInv /\ LossEndsLoop /\ [Next]_vars => LossEndsLoop'
  BY EndingStays
<1>3. IInv /\ LossEndsLoop /\ [Next]_vars
        => [\A c \in Conns : solo' /\ Ending(c) => Ending(c)' \/ phase'[c] = "over"]_vars
  BY EndingStays
<1> QED
  BY <1>1, <1>2, <1>3, Invariance, PTL DEF Spec, EndIsPending
=============================================================================
