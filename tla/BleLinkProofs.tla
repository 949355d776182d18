--------------------------- MODULE BleLinkProofs ---------------------------
(***************************************************************************)
(* Theorems about BleLink, for any set of connections, server threads and  *)
(* addresses, and any number of messages: the promises of both drivers to  *)
(* their SDKs hold at the two ends of a link, and the two SDKs agree.      *)
(***************************************************************************)
EXTENDS BleLink, TLAPS

CP == INSTANCE GattClientProofs WITH
         Conns <- Clients, quit <- cQuit, registered <- cRegistered, pc <- cPc,
         link <- cLink, phase <- cPhase, data <- cData, solo <- cSolo, misuse <- cMisuse
SP == INSTANCE GattServerProofs WITH
         Conns <- Servers, quit <- sQuit, registered <- sRegistered, pc <- sPc,
         link <- sLink, phase <- sPhase, data <- sData, solo <- sSolo, misuse <- sMisuse

-----------------------------------------------------------------------------
(***************************************************************************)
(* The inductive invariant.                                                *)
(***************************************************************************)

AirTypeOK ==
    /\ peer \in [Clients -> Servers \cup {NULL}]
    /\ up \subseteq Clients
    /\ notes \in [Clients -> Nat]
    /\ taken \in [Clients -> Nat]
    /\ early \in [Clients -> Nat]
    /\ missed \in [Clients -> Nat]

\* A peer that was discovered has told its SDK of the connection.
PeerWasTold ==
    Solo => \A c \in Clients :
        ready[c] = "ok" => /\ peer[c] \in Servers
                           /\ sPhase[peer[c]] \in {"up", "over"}

\* Until a server thread is in its loop, only a deinit makes its loop end;
\* from then on it may also be that no link is left.
ServerEnd ==
    sSolo => \A s \in Servers :
        /\ sPc[s] \in {"accept", "create", "tell"} /\ sQuit => s \in deinited
        /\ \/ sPc[s] = "loop" /\ sQuit
           \/ sPc[s] \in {"destroy", "report"}
           \/ sPhase[s] = "over"
           => s \in deinited \/ PeersOf(s) \cap up = {}

\* Until a client has its handler of notifications, every notification is an
\* early one; none is missed that was not taken up, nor taken up unsent.
NotesInOrder ==
    cSolo => \A c \in Clients :
        /\ notify[c] # "on" => early[c] = notes[c]
        /\ notify[c] # "on" => missed[c] <= taken[c]
        /\ taken[c] <= notes[c]
        /\ missed[c] <= early[c]

IInv ==
    /\ CP!IInv
    /\ SP!IInv
    /\ AirTypeOK
    /\ PeerWasTold
    /\ ServerEnd
    /\ NotesInOrder

-----------------------------------------------------------------------------
(***************************************************************************)
(* Every step is a step of each driver, or leaves it alone.                *)
(***************************************************************************)

\* The client as this module and as its proofs name it.
LEMMA ClientOfProofs == [C!Next]_clientVars => [CP!Next]_(CP!vars)
<1> SUFFICES ASSUME [C!Next]_clientVars PROVE [CP!Next]_(CP!vars)
  OBVIOUS
<1> USE DEF C!thread, CP!thread, C!gatt, CP!gatt, C!dial, CP!dial, C!heard, CP!heard,
            C!Alive, CP!Alive, C!Tell, CP!Tell, C!Use, CP!Use, C!Goto, CP!Goto,
            C!Callable, CP!Callable
<1>1. CASE C!SdkStep
  <2>1. C!BleRegisterChannelCallback => CP!BleRegisterChannelCallback
    BY DEF C!BleRegisterChannelCallback, CP!BleRegisterChannelCallback
  <2>2. \A c \in Clients, addr \in Addrs : C!BleConnect(c, addr) => CP!BleConnect(c, addr)
    BY DEF C!BleConnect, CP!BleConnect
  <2>3. \A addr \in Addrs : C!BleConnectNoThread(addr) => CP!BleConnectNoThread(addr)
    BY DEF C!BleConnectNoThread, CP!BleConnectNoThread
  <2>4. C!BleDisconnect => CP!BleDisconnect
    BY DEF C!BleDisconnect, CP!BleDisconnect
  <2>5. C!SendCheck => CP!SendCheck
    BY DEF C!SendCheck, CP!SendCheck
  <2>6. C!SendWrite => CP!SendWrite
    BY DEF C!SendWrite, CP!SendWrite
  <2> QED
    BY <1>1, <2>1, <2>2, <2>3, <2>4, <2>5, <2>6 DEF C!SdkStep, CP!SdkStep, CP!Next
<1>2. ASSUME NEW c \in Clients, C!ThreadStep(c) PROVE CP!Next
  <2>1. C!MainloopInit(c) => CP!MainloopInit(c)
    BY DEF C!MainloopInit, CP!MainloopInit
  <2>2. C!ReadCon(c) => CP!ReadCon(c)
    BY DEF C!ReadCon, CP!ReadCon
  <2>3. C!DialSucceeds(c) => CP!DialSucceeds(c)
    BY DEF C!DialSucceeds, CP!DialSucceeds
  <2>4. C!DialFails(c) => CP!DialFails(c)
    BY DEF C!DialFails, CP!DialFails
  <2>5. C!ClientCreated(c) => CP!ClientCreated(c)
    BY DEF C!ClientCreated, CP!ClientCreated
  <2>6. C!ClientNotCreated(c) => CP!ClientNotCreated(c)
    BY DEF C!ClientNotCreated, CP!ClientNotCreated
  <2>7. C!MainloopEnds(c) => CP!MainloopEnds(c)
    BY DEF C!MainloopEnds, CP!MainloopEnds
  <2>8. C!client_destroy(c) => CP!client_destroy(c)
    BY DEF C!client_destroy, CP!client_destroy
  <2>9. C!TellDisconnect(c) => CP!TellDisconnect(c)
    BY DEF C!TellDisconnect, CP!TellDisconnect
  <2> QED
    BY <1>2, <2>1, <2>2, <2>3, <2>4, <2>5, <2>6, <2>7, <2>8, <2>9
       DEF C!ThreadStep, CP!ThreadStep, CP!Next
<1>3. ASSUME NEW c \in Clients, C!Callback(c) PROVE CP!Next
  <2>1. C!att_disconnect_cb(c) => CP!att_disconnect_cb(c)
    BY DEF C!att_disconnect_cb, CP!att_disconnect_cb
  <2>2. C!ReadyFails(c) => CP!ReadyFails(c)
    BY DEF C!ReadyFails, CP!ReadyFails
  <2>3. C!ready_cb(c) => CP!ready_cb(c)
    BY DEF C!ready_cb, CP!ready_cb
  <2>4. C!NotifyRefused(c) => CP!NotifyRefused(c)
    BY DEF C!NotifyRefused, CP!NotifyRefused
  <2>5. C!register_notify_cb(c) => CP!register_notify_cb(c)
    BY DEF C!register_notify_cb, CP!register_notify_cb
  <2>6. C!notify_cb(c) => CP!notify_cb(c)
    BY DEF C!notify_cb, CP!notify_cb
  <2> QED
    BY <1>3, <2>1, <2>2, <2>3, <2>4, <2>5, <2>6 DEF C!Callback, CP!Callback, CP!Next
<1>4. CASE UNCHANGED clientVars
  BY <1>4 DEF clientVars, CP!vars
<1> QED
  BY <1>1, <1>2, <1>3, <1>4 DEF C!Next

\* The server, likewise.
LEMMA ServerOfProofs == [S!Next]_serverVars => [SP!Next]_(SP!vars)
<1> SUFFICES ASSUME [S!Next]_serverVars PROVE [SP!Next]_(SP!vars)
  OBVIOUS
<1> USE DEF S!heard, SP!heard, S!ghosts, SP!ghosts, S!Alive, SP!Alive, S!Tell, SP!Tell,
            S!Use, SP!Use, S!Goto, SP!Goto, S!Callable, SP!Callable
<1>1. CASE S!SdkStep
  <2>1. S!BleRegisterChannelCallback => SP!BleRegisterChannelCallback
    BY DEF S!BleRegisterChannelCallback, SP!BleRegisterChannelCallback
  <2>2. \A s \in Servers : S!BleDriverInit(s) => SP!BleDriverInit(s)
    BY DEF S!BleDriverInit, SP!BleDriverInit
  <2>3. S!BleDriverDeinit => SP!BleDriverDeinit
    BY DEF S!BleDriverDeinit, SP!BleDriverDeinit
  <2>4. S!BleNotifyData => SP!BleNotifyData
    BY DEF S!BleNotifyData, SP!BleNotifyData
  <2> QED
    BY <1>1, <2>1, <2>2, <2>3, <2>4 DEF S!SdkStep, SP!SdkStep, SP!Next
<1>2. ASSUME NEW s \in Servers, S!RunStep(s) PROVE SP!Next
  <2>1. S!MainloopInit(s) => SP!MainloopInit(s)
    BY DEF S!MainloopInit, SP!MainloopInit
  <2>2. S!ServerCreated(s) => SP!ServerCreated(s)
    BY DEF S!ServerCreated, SP!ServerCreated
  <2>3. S!ServerNotCreated(s) => SP!ServerNotCreated(s)
    BY DEF S!ServerNotCreated, SP!ServerNotCreated
  <2>4. S!TellConnect(s) => SP!TellConnect(s)
    BY DEF S!TellConnect, SP!TellConnect
  <2>5. S!MainloopEnds(s) => SP!MainloopEnds(s)
    BY DEF S!MainloopEnds, SP!MainloopEnds
  <2>6. S!server_destroy(s) => SP!server_destroy(s)
    BY DEF S!server_destroy, SP!server_destroy
  <2>7. S!TellDisconnect(s) => SP!TellDisconnect(s)
    BY DEF S!TellDisconnect, SP!TellDisconnect
  <2> QED
    BY <1>2, <2>1, <2>2, <2>3, <2>4, <2>5, <2>6, <2>7 DEF S!RunStep, SP!RunStep, SP!Next
<1>3. ASSUME NEW s \in Servers, S!PeerStep(s) PROVE SP!Next
  <2>1. S!Accept(s) => SP!Accept(s)
    BY DEF S!Accept, SP!Accept
  <2>2. S!AcceptFails(s) => SP!AcceptFails(s)
    BY DEF S!AcceptFails, SP!AcceptFails
  <2>3. S!att_disconnect_cb(s) => SP!att_disconnect_cb(s)
    BY DEF S!att_disconnect_cb, SP!att_disconnect_cb
  <2>4. S!gap_nearby_write_cb(s) => SP!gap_nearby_write_cb(s)
    BY DEF S!gap_nearby_write_cb, SP!gap_nearby_write_cb
  <2> QED
    BY <1>3, <2>1, <2>2, <2>3, <2>4 DEF S!PeerStep, SP!PeerStep, SP!Next
<1>4. CASE UNCHANGED serverVars
  BY <1>4 DEF serverVars, SP!vars
<1> QED
  BY <1>1, <1>2, <1>3, <1>4 DEF S!Next

\* A step of the link as the client sees it,
LEMMA StepOfClient == [Next]_vars => [C!Next]_clientVars
<1> SUFFICES ASSUME [Next]_vars PROVE [C!Next]_clientVars
  OBVIOUS
<1> USE DEF C!Next
<1>1. CASE ClientSdk \/ BleSendData
  BY <1>1 DEF ClientSdk, BleSendData, C!SdkStep
<1>2. ASSUME NEW c \in Clients, ClientThread(c) PROVE C!Next
  BY <1>2 DEF ClientThread, Dial, client_destroy, C!ThreadStep
<1>3. ASSUME NEW c \in Clients,
             ClientCallback(c) \/ ClientHears(c) \/ notify_cb(c)
      PROVE  [C!Next]_clientVars
  <2>1. CASE ClientCallback(c)
    BY <2>1 DEF ClientCallback, ready_cb, C!Callback
  <2>2. CASE ClientHears(c) \/ notify_cb(c)
    BY <2>2 DEF ClientHears, notify_cb, C!Callback
  <2> QED
    BY <1>3, <2>1, <2>2
<1>4. CASE ServerSdk \/ BleNotifyData \/ AirBreaks \/ UNCHANGED vars
  BY <1>4 DEF ServerSdk, BleNotifyData, AirBreaks, vars
<1>5. ASSUME NEW s \in Servers,
             \/ ServerThread(s) \/ Accept(s) \/ AcceptFails(s)
             \/ ServerHears(s) \/ gap_nearby_write_cb(s)
      PROVE  UNCHANGED clientVars
  BY <1>5 DEF ServerThread, Accept, AcceptFails, ServerHears, gap_nearby_write_cb
<1> QED
  BY <1>1, <1>2, <1>3, <1>4, <1>5 DEF Next

\* and as the server sees it.
LEMMA StepOfServer == [Next]_vars => [S!Next]_serverVars
<1> SUFFICES ASSUME [Next]_vars PROVE [S!Next]_serverVars
  OBVIOUS
<1> USE DEF S!Next
<1>1. CASE ServerSdk \/ BleNotifyData
  BY <1>1 DEF ServerSdk, BleNotifyData, S!SdkStep
<1>2. ASSUME NEW s \in Servers, ServerThread(s) PROVE S!Next
  BY <1>2 DEF ServerThread, S!RunStep
<1>3. ASSUME NEW s \in Servers,
             Accept(s) \/ AcceptFails(s) \/ ServerHears(s) \/ gap_nearby_write_cb(s)
      PROVE  S!Next
  BY <1>3 DEF Accept, AcceptFails, ServerHears, gap_nearby_write_cb, S!PeerStep
<1>4. CASE ClientSdk \/ BleSendData \/ AirBreaks \/ UNCHANGED vars
  BY <1>4 DEF ClientSdk, BleSendData, AirBreaks, vars
<1>5. ASSUME NEW c \in Clients,
             ClientThread(c) \/ ClientCallback(c) \/ ClientHears(c) \/ notify_cb(c)
      PROVE  UNCHANGED serverVars
  BY <1>5 DEF ClientThread, ClientCallback, ClientHears, notify_cb
<1> QED
  BY <1>1, <1>2, <1>3, <1>4, <1>5 DEF Next

-----------------------------------------------------------------------------
(***************************************************************************)
(* What a step of either driver does to what the other end relies on.      *)
(***************************************************************************)

\* A client that can dial has discovered nothing.
LEMMA DialerIsNew ==
    ASSUME CP!IInv, cSolo, NEW c \in Clients, cPc[c] = "dialing"
    PROVE  ready[c] = "pending"
  BY DEF CP!IInv, CP!SendFinds

\* A client that has its handler of notifications keeps it.
LEMMA HandlerStays ==
    ASSUME CP!IInv, cSolo, [C!Next]_clientVars, NEW c \in Clients, notify[c] = "on"
    PROVE  notify'[c] = "on"
<1>1. CP!TypeOK /\ ready[c] = "ok"
  BY DEF CP!IInv, CP!Hears
<1> USE <1>1 DEF CP!TypeOK, C!gatt
<1>2. CASE C!SdkStep \/ UNCHANGED clientVars
  BY <1>2 DEF C!SdkStep, C!BleRegisterChannelCallback, C!BleConnect, C!BleConnectNoThread,
              C!BleDisconnect, C!SendCheck, C!SendWrite, clientVars
<1>3. ASSUME NEW d \in Clients, C!ThreadStep(d) PROVE notify' = notify
  BY <1>3 DEF C!ThreadStep, C!MainloopInit, C!ReadCon, C!DialSucceeds, C!DialFails,
              C!ClientCreated, C!ClientNotCreated, C!MainloopEnds, C!client_destroy,
              C!TellDisconnect
<1>4. ASSUME NEW d \in Clients, C!Callback(d) PROVE notify'[c] = "on"
  BY <1>4 DEF C!Callback, C!att_disconnect_cb, C!ReadyFails, C!ready_cb, C!NotifyRefused,
              C!register_notify_cb, C!notify_cb
<1> QED
  BY <1>2, <1>3, <1>4 DEF C!Next

\* A discovery succeeds only with the answers of a peer that serves.
LEMMA DiscoveryNeedsPeer ==
    ASSUME CP!TypeOK, [Next]_vars, NEW c \in Clients, ready'[c] = "ok"
    PROVE  ready[c] = "ok" \/ (Serves(peer[c]) /\ UNCHANGED <<serverVars, air>>)
<1> USE DEF CP!TypeOK, C!gatt
<1>1. CASE ClientSdk \/ BleSendData
  BY <1>1 DEF ClientSdk, BleSendData, C!BleRegisterChannelCallback, C!BleConnect,
              C!BleConnectNoThread, C!BleDisconnect, C!SendCheck, C!SendWrite
<1>2. ASSUME NEW d \in Clients, ClientThread(d) PROVE ready' = ready
  BY <1>2 DEF ClientThread, Dial, client_destroy, C!MainloopInit, C!ReadCon,
              C!DialSucceeds, C!DialFails, C!ClientCreated, C!ClientNotCreated,
              C!MainloopEnds, C!client_destroy, C!TellDisconnect
<1>3. ASSUME NEW d \in Clients, ClientCallback(d)
      PROVE  ready[c] = "ok" \/ (Serves(peer[c]) /\ UNCHANGED <<serverVars, air>>)
  <2>1. CASE ready_cb(d)
    BY <1>3, <2>1 DEF ClientCallback, ready_cb, C!ready_cb
  <2>2. CASE C!ReadyFails(d)
    BY <2>2 DEF C!ReadyFails
  <2>3. CASE C!NotifyRefused(d) \/ C!register_notify_cb(d)
    BY <2>3 DEF C!NotifyRefused, C!register_notify_cb
  <2> QED
    BY <1>3, <2>1, <2>2, <2>3 DEF ClientCallback
<1>4. ASSUME NEW d \in Clients, ClientHears(d) \/ notify_cb(d) PROVE ready' = ready
  BY <1>4 DEF ClientHears, notify_cb, C!att_disconnect_cb, C!notify_cb, clientVars
<1>5. CASE ServerSdk \/ BleNotifyData \/ AirBreaks \/ UNCHANGED vars
  BY <1>5 DEF ServerSdk, BleNotifyData, AirBreaks, vars, clientVars
<1>6. ASSUME NEW s \in Servers,
             \/ ServerThread(s) \/ Accept(s) \/ AcceptFails(s)
             \/ ServerHears(s) \/ gap_nearby_write_cb(s)
      PROVE  ready' = ready
  BY <1>6 DEF ServerThread, Accept, AcceptFails, ServerHears, gap_nearby_write_cb,
              clientVars
<1> QED
  BY <1>1, <1>2, <1>3, <1>4, <1>5, <1>6 DEF Next

\* Overlaps are for ever.
LEMMA SoloShrinks ==
    ASSUME [Next]_vars
    PROVE  (cSolo' => cSolo) /\ (sSolo' => sSolo)
<1>1. cSolo' => cSolo
  BY StepOfClient
     DEF C!Next, C!SdkStep, C!BleRegisterChannelCallback, C!BleConnect,
         C!BleConnectNoThread, C!BleDisconnect, C!SendCheck, C!SendWrite,
         C!ThreadStep, C!MainloopInit, C!ReadCon, C!DialSucceeds, C!DialFails,
         C!ClientCreated, C!ClientNotCreated, C!MainloopEnds, C!client_destroy,
         C!TellDisconnect, C!Callback, C!att_disconnect_cb, C!ReadyFails, C!ready_cb,
         C!NotifyRefused, C!register_notify_cb, C!notify_cb, clientVars
<1>2. sSolo' => sSolo
  BY StepOfServer
     DEF S!Next, S!SdkStep, S!BleRegisterChannelCallback, S!BleDriverInit,
         S!BleDriverDeinit, S!BleNotifyData, S!RunStep, S!MainloopInit,
         S!ServerCreated, S!ServerNotCreated, S!TellConnect, S!MainloopEnds,
         S!server_destroy, S!TellDisconnect, S!PeerStep, S!Accept, S!AcceptFails,
         S!att_disconnect_cb, S!gap_nearby_write_cb, S!ghosts, serverVars
<1> QED
  BY <1>1, <1>2

\* A server that told CONNECT tells nothing but DISCONNECT afterwards.
LEMMA ToldStays ==
    ASSUME SP!IInv, sSolo, [S!Next]_serverVars, NEW s \in Servers,
           sPhase[s] \in {"up", "over"}
    PROVE  sPhase'[s] \in {"up", "over"}
<1>1. SP!TypeOK /\ sPc[s] \in {"loop", "destroy", "report", "done"}
  BY DEF SP!IInv, SP!TypeOK, SP!PcStates, SP!Hears
<1> USE <1>1 DEF SP!TypeOK, S!heard, S!ghosts, S!Tell
<1>2. CASE S!SdkStep \/ UNCHANGED serverVars
  BY <1>2 DEF S!SdkStep, S!BleRegisterChannelCallback, S!BleDriverInit,
              S!BleDriverDeinit, S!BleNotifyData, serverVars
<1>3. ASSUME NEW t \in Servers, S!RunStep(t) PROVE sPhase'[s] \in {"up", "over"}
  BY <1>3 DEF S!RunStep, S!MainloopInit, S!ServerCreated, S!ServerNotCreated,
              S!TellConnect, S!MainloopEnds, S!server_destroy, S!TellDisconnect
<1>4. ASSUME NEW t \in Servers, S!PeerStep(t) PROVE sPhase' = sPhase
  BY <1>4 DEF S!PeerStep, S!Accept, S!AcceptFails, S!att_disconnect_cb,
              S!gap_nearby_write_cb
<1> QED
  BY <1>2, <1>3, <1>4 DEF S!Next

\* A server that answers its peer has told its SDK.
LEMMA ServingWasTold ==
    ASSUME SP!IInv, sSolo, NEW s \in Servers, S!Callable(s)
    PROVE  sPc[s] = "loop" /\ sPhase[s] = "up"
<1>1. PICK d \in Servers : sPc[d] = "loop"
  BY DEF S!Callable
<1>2. sPc[s] \in {"tell", "loop", "destroy"}
  BY DEF S!Callable, SP!IInv, SP!OwnServer
<1>3. d = s
  BY <1>1, <1>2 DEF SP!IInv, SP!OneThread, SP!Alive
<1> QED
  BY <1>1, <1>3 DEF SP!IInv, SP!Hears

-----------------------------------------------------------------------------
(***************************************************************************)
(* What a step does to the air.                                            *)
(***************************************************************************)

\* Only a dial makes a link: any other step at most ends some.
LEMMA LinkSteps ==
    ASSUME [Next]_vars
    PROVE  \/ \E c \in Clients : Dial(c) /\ UNCHANGED serverVars
           \/ peer' = peer /\ up' \subseteq up
<1> USE DEF air, Close
<1>1. CASE ClientSdk \/ BleSendData \/ ServerSdk \/ BleNotifyData \/ AirBreaks
  BY <1>1 DEF ClientSdk, BleSendData, ServerSdk, BleNotifyData, AirBreaks
<1>2. ASSUME NEW c \in Clients, ClientThread(c)
      PROVE  \/ Dial(c) /\ UNCHANGED serverVars
             \/ peer' = peer /\ up' \subseteq up
  BY <1>2 DEF ClientThread, client_destroy
<1>3. ASSUME NEW c \in Clients, ClientCallback(c) \/ ClientHears(c) \/ notify_cb(c)
      PROVE  peer' = peer /\ up' \subseteq up
  BY <1>3 DEF ClientCallback, ClientHears, notify_cb
<1>4. ASSUME NEW s \in Servers,
             \/ ServerThread(s) \/ Accept(s) \/ AcceptFails(s)
             \/ ServerHears(s) \/ gap_nearby_write_cb(s)
      PROVE  peer' = peer /\ up' \subseteq up
  BY <1>4 DEF ServerThread, Accept, AcceptFails, ServerHears, gap_nearby_write_cb
<1>5. CASE UNCHANGED vars
  BY <1>5 DEF vars
<1> QED
  BY <1>1, <1>2, <1>3, <1>4, <1>5 DEF Next

\* Notifications are sent by BleNotifyData and taken up by notify_cb.
LEMMA NoteSteps ==
    ASSUME [Next]_vars
    PROVE  \/ UNCHANGED <<notes, taken, early, missed>>
           \/ BleNotifyData
           \/ \E c \in Clients : notify_cb(c)
<1> USE DEF air, transit, Close
<1>1. CASE ClientSdk \/ BleSendData \/ ServerSdk \/ AirBreaks
  BY <1>1 DEF ClientSdk, BleSendData, ServerSdk, AirBreaks
<1>2. ASSUME NEW c \in Clients, ClientThread(c) \/ ClientCallback(c) \/ ClientHears(c)
      PROVE  UNCHANGED <<notes, taken, early, missed>>
  BY <1>2 DEF ClientThread, Dial, client_destroy, ClientCallback, ClientHears
<1>3. ASSUME NEW s \in Servers,
             \/ ServerThread(s) \/ Accept(s) \/ AcceptFails(s)
             \/ ServerHears(s) \/ gap_nearby_write_cb(s)
      PROVE  UNCHANGED <<notes, taken, early, missed>>
  BY <1>3 DEF ServerThread, Accept, AcceptFails, ServerHears, gap_nearby_write_cb
<1>4. CASE UNCHANGED vars
  BY <1>4 DEF vars
<1> QED
  BY <1>1, <1>2, <1>3, <1>4 DEF Next

-----------------------------------------------------------------------------
(***************************************************************************)
(* The parts of the invariant that are about the link.                     *)
(***************************************************************************)

LEMMA AirTypeKept ==
    ASSUME IInv, [Next]_vars
    PROVE  AirTypeOK'
<1> USE DEF AirTypeOK, OneMore
<1>0. AirTypeOK
  BY DEF IInv
<1>1. peer' \in [Clients -> Servers \cup {NULL}] /\ up' \subseteq Clients
  BY <1>0, LinkSteps DEF Dial
<1>2. /\ notes' \in [Clients -> Nat] /\ taken' \in [Clients -> Nat]
      /\ early' \in [Clients -> Nat] /\ missed' \in [Clients -> Nat]
  BY <1>0, NoteSteps DEF BleNotifyData, notify_cb
<1> QED
  BY <1>1, <1>2

LEMMA PeerToldKept ==
    ASSUME IInv, [Next]_vars
    PROVE  PeerWasTold'
<1> SUFFICES ASSUME Solo', NEW c \in Clients, ready'[c] = "ok"
             PROVE  peer'[c] \in Servers /\ sPhase'[peer'[c]] \in {"up", "over"}
  BY DEF PeerWasTold
<1>0. CP!IInv /\ SP!IInv /\ AirTypeOK /\ PeerWasTold
  BY DEF IInv
<1>1. cSolo /\ sSolo
  BY SoloShrinks DEF Solo
<1>2. CASE ready[c] = "ok"
  <2>1. peer[c] \in Servers /\ sPhase[peer[c]] \in {"up", "over"}
    BY <1>0, <1>1, <1>2 DEF PeerWasTold, Solo
  <2>2. sPhase'[peer[c]] \in {"up", "over"}
    BY <1>0, <1>1, <2>1, StepOfServer, ToldStays
  <2>3. peer'[c] = peer[c]
    <3>1. ~Dial(c)
      BY <1>0, <1>1, <1>2, DialerIsNew DEF Dial, C!DialSucceeds
    <3> QED
      BY <1>0, <3>1, LinkSteps DEF Dial, AirTypeOK
  <2> QED
    BY <2>1, <2>2, <2>3
<1>3. CASE ready[c] # "ok"
  <2>1. Serves(peer[c]) /\ UNCHANGED <<serverVars, air>>
    BY <1>0, <1>3, DiscoveryNeedsPeer DEF CP!IInv
  <2>2. peer[c] \in Servers
    BY <1>0, <2>1 DEF AirTypeOK, Serves
  <2>3. sPhase[peer[c]] = "up"
    BY <1>0, <1>1, <2>1, <2>2, ServingWasTold DEF Serves
  <2> QED
    BY <2>1, <2>2, <2>3 DEF serverVars, air
<1> QED
  BY <1>2, <1>3

LEMMA ServerEndKept ==
    ASSUME IInv, [Next]_vars
    PROVE  ServerEnd'
<1> DEFINE Ends(s) == \/ sPc[s] = "loop" /\ sQuit
                      \/ sPc[s] \in {"destroy", "report"}
                      \/ sPhase[s] = "over"
           Before(s) == sPc[s] \in {"accept", "create", "tell"} /\ sQuit
<1> SUFFICES ASSUME sSolo', NEW s \in Servers
             PROVE  /\ Before(s)' => s \in deinited'
                    /\ Ends(s)' => s \in deinited' \/ PeersOf(s)' \cap up' = {}
  BY DEF ServerEnd
<1>0. SP!TypeOK /\ SP!OneThread /\ SP!OwnServer /\ SP!Hears /\ AirTypeOK
  BY DEF IInv, SP!IInv
<1>1. sSolo
  BY SoloShrinks
<1>2. /\ Before(s) => s \in deinited
      /\ Ends(s) => s \in deinited \/ PeersOf(s) \cap up = {}
  BY <1>1 DEF IInv, ServerEnd
<1>3. ASSUME NEW c \in Clients, Dial(c), UNCHANGED serverVars
      PROVE  /\ Before(s)' => s \in deinited'
             /\ Ends(s)' => s \in deinited' \/ PeersOf(s)' \cap up' = {}
  <2>1. PICK d \in Servers : /\ sPc[d] = "accept"
                             /\ peer' = [peer EXCEPT ![c] = d]
    BY <1>3 DEF Dial
  <2>2. Before(s)' = Before(s) /\ Ends(s)' = Ends(s) /\ deinited' = deinited
    BY <1>3 DEF serverVars
  <2>3. CASE s = d
    BY <1>0, <1>1, <1>2, <2>1, <2>2, <2>3 DEF SP!Hears
  <2>4. CASE s # d
    <3>1. up' = up \cup {c}
      BY <1>3 DEF Dial
    <3>2. PeersOf(s)' \cap up' \subseteq PeersOf(s) \cap up
      BY <1>0, <2>1, <2>4, <3>1 DEF PeersOf, AirTypeOK
    <3> QED
      BY <1>2, <2>2, <3>2
  <2> QED
    BY <2>3, <2>4
<1>4. ASSUME peer' = peer, up' \subseteq up
      PROVE  /\ Before(s)' => s \in deinited'
             /\ Ends(s)' => s \in deinited' \/ PeersOf(s)' \cap up' = {}
  <2>1. PeersOf(s)' \cap up' \subseteq PeersOf(s) \cap up
    BY <1>4 DEF PeersOf
  <2>2. SUFFICES /\ Before(s)' => s \in deinited'
                 /\ Ends(s)' => s \in deinited' \/ Ends(s) \/ PeersOf(s) \cap up = {}
    <3>1. deinited \subseteq deinited'
      BY <1>0, StepOfServer DEF S!Next, S!SdkStep, S!BleRegisterChannelCallback,
         S!BleDriverInit, S!BleDriverDeinit, S!BleNotifyData, S!RunStep, S!MainloopInit,
         S!ServerCreated, S!ServerNotCreated, S!TellConnect, S!MainloopEnds,
         S!server_destroy, S!TellDisconnect, S!PeerStep, S!Accept, S!AcceptFails,
         S!att_disconnect_cb, S!gap_nearby_write_cb, S!ghosts, serverVars
    <3> QED
      BY <1>2, <2>1, <3>1
  <2> USE <1>0, <1>1, <1>2
      DEF SP!TypeOK, SP!PcStates, SP!OneThread, SP!Hears, SP!Alive,
          S!Alive, S!Goto, S!Tell, S!heard, S!ghosts
  <2>3. CASE UNCHANGED serverVars
    BY <2>3 DEF serverVars
  <2>4. CASE ServerSdk
    <3>1. CASE S!BleRegisterChannelCallback
      BY <3>1 DEF S!BleRegisterChannelCallback
    <3>2. ASSUME NEW d \in Servers, S!BleDriverInit(d)
          PROVE  /\ Before(s)' => s \in deinited'
                 /\ Ends(s)' => s \in deinited' \/ Ends(s)
      BY <3>2 DEF S!BleDriverInit
    <3>3. CASE S!BleDriverDeinit
      BY <3>3 DEF S!BleDriverDeinit
    <3> QED
      BY <2>4, <3>1, <3>2, <3>3 DEF ServerSdk
  <2>5. CASE BleNotifyData
    BY <2>5 DEF BleNotifyData, S!BleNotifyData
  <2>6. ASSUME NEW d \in Servers, ServerThread(d)
        PROVE  /\ Before(s)' => s \in deinited'
               /\ Ends(s)' => s \in deinited' \/ Ends(s)
    <3>1. CASE S!MainloopInit(d)
      BY <3>1 DEF S!MainloopInit
    <3>2. CASE S!ServerCreated(d) \/ S!ServerNotCreated(d)
      BY <3>2 DEF S!ServerCreated, S!ServerNotCreated
    <3>3. CASE S!TellConnect(d)
      BY <3>3 DEF S!TellConnect
    <3>4. CASE S!MainloopEnds(d) \/ S!server_destroy(d)
      BY <3>4 DEF S!MainloopEnds, S!server_destroy
    <3>5. CASE S!TellDisconnect(d)
      BY <3>5 DEF S!TellDisconnect
    <3> QED
      BY <2>6, <3>1, <3>2, <3>3, <3>4, <3>5 DEF ServerThread
  <2>7. ASSUME NEW d \in Servers, Accept(d) \/ AcceptFails(d) \/ gap_nearby_write_cb(d)
        PROVE  /\ Before(s)' => s \in deinited'
               /\ Ends(s)' => s \in deinited' \/ Ends(s)
    BY <2>7 DEF Accept, AcceptFails, gap_nearby_write_cb, S!Accept, S!AcceptFails,
                S!gap_nearby_write_cb
  <2>8. ASSUME NEW d \in Servers, ServerHears(d)
        PROVE  /\ Before(s)' => s \in deinited'
               /\ Ends(s)' => s \in deinited' \/ Ends(s) \/ PeersOf(s) \cap up = {}
    <3>1. sPc[d] = "loop" /\ PeersOf(d) \cap up = {}
      BY <2>8, ServingWasTold DEF ServerHears, S!att_disconnect_cb, IInv
    <3>2. S!att_disconnect_cb(d)
      BY <2>8 DEF ServerHears
    <3>3. CASE s = d
      BY <3>1, <3>2, <3>3 DEF S!att_disconnect_cb
    <3>4. CASE s # d
      BY <3>1, <3>2, <3>4 DEF S!att_disconnect_cb
    <3> QED
      BY <3>3, <3>4
  <2>9. UNCHANGED serverVars \/ ServerSdk \/ BleNotifyData
        \/ \E d \in Servers : \/ ServerThread(d) \/ Accept(d) \/ AcceptFails(d)
                              \/ ServerHears(d) \/ gap_nearby_write_cb(d)
    BY DEF Next, ClientSdk, BleSendData, ClientThread, ClientCallback, ClientHears,
           notify_cb, AirBreaks, vars
  <2> QED
    BY <2>3, <2>4, <2>5, <2>6, <2>7, <2>8, <2>9
<1> QED
  BY <1>3, <1>4, LinkSteps

LEMMA NotesKept ==
    ASSUME IInv, [Next]_vars
    PROVE  NotesInOrder'
<1> SUFFICES ASSUME cSolo', NEW c \in Clients
             PROVE  /\ notify'[c] # "on" => early'[c] = notes'[c]
                    /\ notify'[c] # "on" => missed'[c] <= taken'[c]
                    /\ taken'[c] <= notes'[c]
                    /\ missed'[c] <= early'[c]
  BY DEF NotesInOrder
<1>0. CP!IInv /\ AirTypeOK
  BY DEF IInv
<1>1. cSolo
  BY SoloShrinks
<1>2. /\ notify[c] # "on" => early[c] = notes[c]
      /\ notify[c] # "on" => missed[c] <= taken[c]
      /\ taken[c] <= notes[c]
      /\ missed[c] <= early[c]
  BY <1>1 DEF IInv, NotesInOrder
<1>3. notify[c] = "on" => notify'[c] = "on"
  BY <1>0, <1>1, StepOfClient, HandlerStays
<1> USE <1>0, <1>2, <1>3 DEF AirTypeOK, OneMore
<1>4. CASE UNCHANGED <<notes, taken, early, missed>>
  BY <1>4
<1>5. CASE BleNotifyData
  <2>1. notify[c] # "on" => cPhase[c] # "up"
    BY <1>1 DEF CP!IInv, CP!Hears
  <2> QED
    BY <1>5, <2>1 DEF BleNotifyData
<1>6. ASSUME NEW d \in Clients, notify_cb(d)
      PROVE  /\ notify'[c] # "on" => early'[c] = notes'[c]
             /\ notify'[c] # "on" => missed'[c] <= taken'[c]
             /\ taken'[c] <= notes'[c]
             /\ missed'[c] <= early'[c]
  <2>1. C!Callable(d) => cRegistered
    BY <1>1 DEF C!Callable, CP!IInv, CP!OneThread
  <2>2. CASE c # d
    BY <1>6, <2>2 DEF notify_cb
  <2>3. CASE c = d /\ notify[d] = "on"
    <3>1. missed' = missed
      BY <1>6, <2>1, <2>3 DEF notify_cb
    <3> QED
      BY <1>6, <2>3, <3>1 DEF notify_cb
  <2>4. CASE c = d /\ notify[d] # "on"
    <3>1. taken[c] < notes[c] /\ missed' = OneMore(missed, c) /\ taken' = OneMore(taken, c)
          /\ notes' = notes /\ early' = early
      BY <1>6, <2>4 DEF notify_cb, C!notify_cb
    <3> QED
      BY <2>4, <3>1
  <2> QED
    BY <2>2, <2>3, <2>4
<1> QED
  BY <1>4, <1>5, <1>6, NoteSteps

-----------------------------------------------------------------------------
(***************************************************************************)
(* The theorems.                                                           *)
(***************************************************************************)

\* IInv holds of every behaviour of the link: the invariants of both drivers,
\* and what joins them.
THEOREM Invariance == Spec => []IInv
<1>1. Init => IInv
  <2>1. C!Init => CP!Init
    BY DEF C!Init, CP!Init
  <2>2. S!Init => SP!Init
    BY DEF S!Init, SP!Init
  <2>3. Init => AirTypeOK /\ PeerWasTold /\ ServerEnd /\ NotesInOrder
    BY DEF Init, C!Init, S!Init, AirTypeOK, PeerWasTold, ServerEnd, NotesInOrder
  <2> QED
    BY <2>1, <2>2, <2>3, CP!IInvStarts, SP!IInvStarts, NULLAssumption
       DEF Init, IInv, NULLAssumption
<1>2. IInv /\ [Next]_vars => IInv'
  <2> SUFFICES ASSUME IInv, [Next]_vars PROVE IInv'
    OBVIOUS
  <2>1. CP!IInv'
    BY StepOfClient, ClientOfProofs, CP!IInvKept, NULLAssumption DEF IInv, NULLAssumption
  <2>2. SP!IInv'
    BY StepOfServer, ServerOfProofs, SP!IInvKept, NULLAssumption DEF IInv, NULLAssumption
  <2> QED
    BY <2>1, <2>2, AirTypeKept, PeerToldKept, ServerEndKept, NotesKept DEF IInv
<1> QED
  BY <1>1, <1>2, PTL DEF Spec

\* Each end of a link keeps its promise to its SDK, however the other end
\* and the air behave.
BothPromises == C!ImplementsChannel /\ S!ImplementsChannel

THEOREM BothKeepTheirPromises == Spec => BothPromises
<1>1. Init => C!Promise!ChannelInit /\ S!Promise!ChannelInit
  BY DEF Init, C!Init, S!Init, C!Promise!ChannelInit, S!Promise!ChannelInit
<1>2. IInv /\ [Next]_vars => [C!Promise!ChannelNext]_(C!Promise!channelVars)
  <2> SUFFICES ASSUME IInv, [Next]_vars
               PROVE  [C!Promise!ChannelNext]_(C!Promise!channelVars)
    OBVIOUS
  <2>1. [CP!Promise!ChannelNext]_(CP!Promise!channelVars)
    BY StepOfClient, ClientOfProofs, CP!StepKeepsPromise, NULLAssumption
       DEF IInv, NULLAssumption
  <2> QED
    BY <2>1 DEF C!Promise!ChannelNext, CP!Promise!ChannelNext, C!Promise!channelVars,
       CP!Promise!channelVars, C!Promise!Ask, CP!Promise!Ask, C!Promise!Fail,
       CP!Promise!Fail, C!Promise!Connect, CP!Promise!Connect, C!Promise!Disconnect,
       CP!Promise!Disconnect, C!Promise!Receive, CP!Promise!Receive,
       C!Promise!Overlap, CP!Promise!Overlap, C!Promise!Void, CP!Promise!Void,
       C!Promise!Move, CP!Promise!Move
<1>3. IInv /\ [Next]_vars => [S!Promise!ChannelNext]_(S!Promise!channelVars)
  <2> SUFFICES ASSUME IInv, [Next]_vars
               PROVE  [S!Promise!ChannelNext]_(S!Promise!channelVars)
    OBVIOUS
  <2>1. [SP!Promise!ChannelNext]_(SP!Promise!channelVars)
    BY StepOfServer, ServerOfProofs, SP!StepKeepsPromise, NULLAssumption
       DEF IInv, NULLAssumption
  <2> QED
    BY <2>1 DEF S!Promise!ChannelNext, SP!Promise!ChannelNext, S!Promise!channelVars,
       SP!Promise!channelVars, S!Promise!Ask, SP!Promise!Ask, S!Promise!Fail,
       SP!Promise!Fail, S!Promise!Connect, SP!Promise!Connect, S!Promise!Disconnect,
       SP!Promise!Disconnect, S!Promise!Receive, SP!Promise!Receive,
       S!Promise!Overlap, SP!Promise!Overlap, S!Promise!Void, SP!Promise!Void,
       S!Promise!Move, SP!Promise!Move
<1> QED
  BY <1>1, <1>2, <1>3, Invariance, PTL
     DEF Spec, BothPromises, C!ImplementsChannel, S!ImplementsChannel,
         C!Promise!ChannelSpec, S!Promise!ChannelSpec

\* The two SDKs agree on whether there is a connection, but for a receiver
\* that gave its side up.
THEOREM Agreement == Spec => []EndsAgree
<1>1. IInv => EndsAgree
  <2> SUFFICES ASSUME IInv, NEW c \in Clients, Solo, cPhase[c] = "up"
               PROVE  /\ sPhase[peer[c]] \in {"up", "over"}
                      /\ c \in up /\ sPhase[peer[c]] = "over" => peer[c] \in deinited
    BY DEF EndsAgree
  <2>1. ready[c] = "ok"
    BY DEF IInv, CP!IInv, CP!Hears, Solo
  <2>2. peer[c] \in Servers /\ sPhase[peer[c]] \in {"up", "over"}
    BY <2>1 DEF IInv, PeerWasTold
  <2>3. c \in PeersOf(peer[c])
    BY DEF PeersOf
  <2> QED
    BY <2>2, <2>3 DEF IInv, ServerEnd, Solo
<1> QED
  BY <1>1, Invariance, PTL

\* A notification is lost on a connection that lasts only if it was sent
\* before the client was told CONNECT.
THEOREM EarlyNotes == Spec => []OnlyEarlyNotesAreMissed
<1>1. IInv => OnlyEarlyNotesAreMissed
  BY DEF IInv, NotesInOrder, OnlyEarlyNotesAreMissed, Solo
<1> QED
  BY <1>1, Invariance, PTL

-----------------------------------------------------------------------------
(***************************************************************************)
(* What BothHearTheEnd rests on, beside the scheduler and the drivers.     *)
(***************************************************************************)

BeforeDial == {"unborn", "init", "dial", "dialing"}

\* A client has a peer only from its dial on.
PeerIsDialed == \A c \in Clients : cPc[c] \in BeforeDial => peer[c] = NULL

\* A client that is over has let go of its link, so that the other end can
\* hear of it (tx lines 488-493).
LinkIsFreed == cSolo => \A c \in Clients : cPhase[c] = "over" => c \notin up

\* The same, from where the link is dropped on.
LinkIsDropped == cSolo => \A c \in Clients : cPc[c] \in {"report", "done"} => c \notin up

\* A link that has ended does not come back while an end has yet to hear.
LinkEndIsFinal ==
    [][\A c \in Clients : peer[c] # NULL /\ c \notin up
                             => peer'[c] = peer[c] /\ c \notin up']_vars

\* A dial is a thread's last step before it has a link,
LEMMA DialIsPassed ==
    ASSUME CP!TypeOK, [C!Next]_clientVars, NEW c \in Clients
    PROVE  /\ cPc'[c] \in BeforeDial => cPc[c] \in BeforeDial
           /\ C!DialSucceeds(c) => cPc'[c] = "create"
           /\ \A d \in Clients : C!DialSucceeds(d) /\ d # c => cPc'[c] = cPc[c]
<1> USE DEF CP!TypeOK, CP!PcStates, BeforeDial, C!Goto
<1>1. CASE C!SdkStep \/ UNCHANGED clientVars
  BY <1>1 DEF C!SdkStep, C!BleRegisterChannelCallback, C!BleConnect, C!BleConnectNoThread,
              C!BleDisconnect, C!SendCheck, C!SendWrite, clientVars, C!DialSucceeds, C!thread
<1>2. ASSUME NEW d \in Clients, C!ThreadStep(d)
      PROVE  cPc'[c] \in BeforeDial => cPc[c] \in BeforeDial
  BY <1>2 DEF C!ThreadStep, C!MainloopInit, C!ReadCon, C!DialSucceeds, C!DialFails,
              C!ClientCreated, C!ClientNotCreated, C!MainloopEnds, C!client_destroy,
              C!TellDisconnect
<1>3. ASSUME NEW d \in Clients, C!Callback(d) PROVE cPc' = cPc
  BY <1>3 DEF C!Callback, C!att_disconnect_cb, C!ReadyFails, C!ready_cb, C!NotifyRefused,
              C!register_notify_cb, C!notify_cb, C!thread
<1>4. /\ C!DialSucceeds(c) => cPc'[c] = "create"
      /\ \A d \in Clients : C!DialSucceeds(d) /\ d # c => cPc'[c] = cPc[c]
  BY DEF C!DialSucceeds
<1> QED
  BY <1>1, <1>2, <1>3, <1>4 DEF C!Next

\* and the steps that end it drop the link.
LEMMA DropSteps ==
    ASSUME IInv, cSolo, [Next]_vars, NEW c \in Clients,
           cPc'[c] \in {"report", "done"}, cPc[c] \notin {"report", "done"}
    PROVE  c \notin up'
<1>0. CP!TypeOK /\ CP!OwnClient
  BY DEF IInv, CP!IInv
<1> USE <1>0 DEF CP!TypeOK, CP!PcStates, C!Goto
<1>1. ASSUME NEW d \in Clients, ClientThread(d) PROVE c \notin up'
  <2>1. CASE Dial(d)
    BY <2>1 DEF Dial, C!DialSucceeds
  <2>2. CASE client_destroy(d)
    <3>1. d = c
      BY <2>2 DEF client_destroy, C!client_destroy
    <3>2. cli = c
      BY <1>1, <2>2, <3>1 DEF client_destroy, C!client_destroy, CP!OwnClient
    <3> QED
      BY <2>2, <3>2 DEF client_destroy, Close
  <2>3. CASE C!ClientNotCreated(d) /\ Close({d})
    BY <2>3 DEF C!ClientNotCreated, Close
  <2>4. CASE \/ C!MainloopInit(d) \/ C!ReadCon(d) \/ C!DialFails(d) \/ C!ClientCreated(d)
             \/ C!MainloopEnds(d) \/ C!TellDisconnect(d)
    <3>1. CASE C!TellDisconnect(d)
      BY <3>1 DEF C!TellDisconnect
    <3>2. CASE \/ C!MainloopInit(d) \/ C!ReadCon(d) \/ C!DialFails(d)
               \/ C!ClientCreated(d) \/ C!MainloopEnds(d)
      <4>1. \E to \in {"dial", "dialing", "create", "loop", "destroy"} :
               cPc' = [cPc EXCEPT ![d] = to]
        BY <3>2 DEF C!MainloopInit, C!ReadCon, C!DialFails, C!ClientCreated,
                    C!MainloopEnds
      <4> QED
        BY <4>1
    <3> QED
      BY <2>4, <3>1, <3>2
  <2> QED
    BY <1>1, <2>1, <2>2, <2>3, <2>4 DEF ClientThread
<1>2. CASE ClientSdk \/ BleSendData
  <2>1. cPc' = cPc \/ \E d \in Clients : cPc' = [cPc EXCEPT ![d] = "init"]
    BY <1>2 DEF ClientSdk, BleSendData, C!BleRegisterChannelCallback, C!BleConnect,
                C!BleConnectNoThread, C!BleDisconnect, C!SendCheck, C!SendWrite, C!thread
  <2> QED
    BY <2>1
<1>3. ASSUME NEW d \in Clients, ClientCallback(d) \/ ClientHears(d) \/ notify_cb(d)
      PROVE  cPc' = cPc
  BY <1>3 DEF ClientCallback, ready_cb, ClientHears, notify_cb, C!att_disconnect_cb,
              C!ReadyFails, C!ready_cb, C!NotifyRefused, C!register_notify_cb, C!notify_cb,
              C!thread, clientVars
<1>4. CASE ServerSdk \/ BleNotifyData \/ AirBreaks \/ UNCHANGED vars
  BY <1>4 DEF ServerSdk, BleNotifyData, AirBreaks, vars, clientVars
<1>5. ASSUME NEW s \in Servers,
             \/ ServerThread(s) \/ Accept(s) \/ AcceptFails(s)
             \/ ServerHears(s) \/ gap_nearby_write_cb(s)
      PROVE  cPc' = cPc
  BY <1>5 DEF ServerThread, Accept, AcceptFails, ServerHears, gap_nearby_write_cb, clientVars
<1> QED
  BY <1>1, <1>2, <1>3, <1>4, <1>5 DEF Next

LEMMA LinkEnds ==
    ASSUME IInv, PeerIsDialed, LinkIsDropped, [Next]_vars
    PROVE  /\ PeerIsDialed' /\ LinkIsDropped'
           /\ \A c \in Clients : peer[c] # NULL /\ c \notin up
                                    => peer'[c] = peer[c] /\ c \notin up'
<1>0. CP!TypeOK /\ AirTypeOK /\ [C!Next]_clientVars
  BY StepOfClient DEF IInv, CP!IInv
<1>1. ASSUME NEW c \in Clients
      PROVE  \/ peer' = peer /\ up' \subseteq up
             \/ Dial(c)
             \/ \E d \in Clients \ {c} : Dial(d)
  BY LinkSteps
<1>2. ASSUME NEW c \in Clients, NEW d \in Clients, d # c, Dial(d)
      PROVE  peer'[c] = peer[c] /\ (c \in up' => c \in up) /\ cPc'[c] = cPc[c]
  BY <1>0, <1>2, DialIsPassed DEF Dial, AirTypeOK
<1>3. ASSUME NEW c \in Clients, Dial(c)
      PROVE  cPc[c] = "dialing" /\ cPc'[c] = "create"
  BY <1>0, <1>3, DialIsPassed DEF Dial, C!DialSucceeds
<1>4. PeerIsDialed'
  <2> SUFFICES ASSUME NEW c \in Clients, cPc'[c] \in BeforeDial
               PROVE  peer'[c] = NULL
    BY DEF PeerIsDialed
  <2>1. cPc[c] \in BeforeDial /\ ~Dial(c)
    BY <1>0, <1>3, DialIsPassed DEF BeforeDial
  <2> QED
    BY <1>1, <1>2, <2>1 DEF PeerIsDialed
<1>5. LinkIsDropped'
  <2> SUFFICES ASSUME cSolo', NEW c \in Clients, cPc'[c] \in {"report", "done"}
               PROVE  c \notin up'
    BY DEF LinkIsDropped
  <2>1. cSolo /\ ~Dial(c)
    BY <1>3, SoloShrinks
  <2>2. CASE cPc[c] \in {"report", "done"}
    BY <1>1, <1>2, <2>1, <2>2 DEF LinkIsDropped
  <2>3. CASE cPc[c] \notin {"report", "done"}
    BY <2>1, <2>3, DropSteps
  <2> QED
    BY <2>2, <2>3
<1>6. ASSUME NEW c \in Clients, peer[c] # NULL, c \notin up
      PROVE  peer'[c] = peer[c] /\ c \notin up'
  <2>1. ~Dial(c)
    BY <1>3, <1>6 DEF PeerIsDialed, BeforeDial
  <2> QED
    BY <1>1, <1>2, <1>6, <2>1
<1> QED
  BY <1>4, <1>5, <1>6

\* The end of a connection reaches the link, and stays there for the other
\* end to hear.
THEOREM EndReachesLink == Spec => []LinkIsFreed /\ LinkEndIsFinal
<1> DEFINE J == PeerIsDialed /\ LinkIsDropped
<1>1. Init => J
  BY DEF Init, C!Init, PeerIsDialed, LinkIsDropped
<1>2. IInv /\ J /\ [Next]_vars => J'
  BY LinkEnds
<1>3. IInv /\ J /\ [Next]_vars
        => [\A c \in Clients : peer[c] # NULL /\ c \notin up
                                  => peer'[c] = peer[c] /\ c \notin up']_vars
  BY LinkEnds
<1>4. IInv /\ J => LinkIsFreed
  BY DEF IInv, CP!IInv, CP!Hears, CP!TypeOK, CP!PcStates, LinkIsDropped, LinkIsFreed
<1> HIDE DEF J
<1> QED
  BY <1>1, <1>2, <1>3, <1>4, Invariance, PTL DEF Spec, LinkEndIsFinal

\* At either end of a link, what ends a loop stands until its end is told.
BothEndsAreKept ==
    /\ [](CP!LossEndsLoop /\ SP!LossEndsLoop)
    /\ [][/\ \A c \in Clients :
                cSolo' /\ CP!Ending(c) => CP!Ending(c)' \/ cPhase'[c] = "over"
          /\ \A s \in Servers :
                sSolo' /\ SP!Ending(s) => SP!Ending(s)' \/ sPhase'[s] = "over"]_vars

THEOREM EndsAreKept == Spec => BothEndsAreKept
<1> DEFINE Losses == CP!LossEndsLoop /\ SP!LossEndsLoop
           Ends == /\ \A c \in Clients :
                         cSolo' /\ CP!Ending(c) => CP!Ending(c)' \/ cPhase'[c] = "over"
                   /\ \A s \in Servers :
                         sSolo' /\ SP!Ending(s) => SP!Ending(s)' \/ sPhase'[s] = "over"
<1>1. Init => Losses
  BY DEF Init, C!Init, S!Init, CP!LossEndsLoop, SP!LossEndsLoop
<1>2. ASSUME IInv, Losses, [Next]_vars PROVE Losses' /\ Ends
  <2>1. CP!IInv /\ SP!IInv
    BY <1>2 DEF IInv
  <2>2. [CP!Next]_(CP!vars) /\ [SP!Next]_(SP!vars)
    BY <1>2, StepOfClient, StepOfServer, ClientOfProofs, ServerOfProofs
  <2>3. /\ CP!LossEndsLoop'
        /\ \A c \in Clients :
              cSolo' /\ CP!Ending(c) => CP!Ending(c)' \/ cPhase'[c] = "over"
    BY <1>2, <2>1, <2>2, CP!EndingStays, NULLAssumption DEF NULLAssumption
  <2>4. /\ SP!LossEndsLoop'
        /\ \A s \in Servers :
              sSolo' /\ SP!Ending(s) => SP!Ending(s)' \/ sPhase'[s] = "over"
    BY <1>2, <2>1, <2>2, SP!EndingStays, NULLAssumption DEF NULLAssumption
  <2> QED
    BY <2>3, <2>4
<1>3. IInv /\ Losses /\ [Next]_vars => Losses' /\ [Ends]_vars
  BY <1>2
<1> HIDE DEF Losses, Ends
<1>4. Spec => []Losses /\ [][Ends]_vars
  BY <1>1, <1>3, Invariance, PTL DEF Spec
<1> QED
  BY <1>4 DEF BothEndsAreKept, Losses, Ends
=============================================================================
