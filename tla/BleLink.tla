------------------------------ MODULE BleLink ------------------------------
(***************************************************************************)
(* The two drivers on the two ends of one link: GattClient, the            *)
(* transmitter's (Linux-en/driver_ble_tx.c), and GattServer, the           *)
(* receiver's (Linux-en/driver_ble_rx.c), each with its own SDK, threads   *)
(* and main loop.  What joins them is the air: a dial succeeds when a      *)
(* server thread accepts, a callback of one end answers to the other, and  *)
(* a link that breaks, or that one end closes, is noticed by the other     *)
(* when its loop gets round to it.                                         *)
(*                                                                         *)
(* Air, kernel and BlueZ are external.  They keep data in order and lose   *)
(* none while the link is up, so data under way is a pair of counters; the *)
(* radio may break the link at any time.  A driver that ends without       *)
(* closing its descriptor leaves the link up: server_destroy does.         *)
(***************************************************************************)
EXTENDS Naturals, FiniteSets

CONSTANTS Clients, Addrs, \* of GattClient: its connections, and addresses
          Servers,        \* of GattServer: its threads
          NULL,
          MaxData         \* bound on the writes and notifications of a link

ASSUME NULLAssumption == NULL \notin Clients \cup Servers \cup Addrs

VARIABLES
    \* The transmitter: the variables of GattClient.
    con, cQuit, cli, cRegistered, cPc, cLink, client, ready, nearby, notify, send,
    asked, dialed, cPhase, cData, cSolo, hungUp, cMisuse,
    \* The receiver: the variables of GattServer.
    sQuit, srv, sRegistered, sPc, sLink, server,
    sPhase, sData, sSolo, deinited, sMisuse,
    \* The air.
    peer,     \* peer[c]: the server thread that c's dial reached
    up,       \* the clients whose link is up
    written,  \* written[c]: writes that c has sent
    received, \* received[c]: those of them that the receiver's SDK was given
    notes,    \* notes[c]: notifications sent to c
    taken,    \* taken[c]: those of them that c's loop has taken up
    \* History, read by the properties and by no action:
    early,    \* early[c]: notifications sent before c's SDK was told CONNECT
    missed    \* missed[c]: notifications nobody had registered for

C == INSTANCE GattClient WITH
        Conns <- Clients, quit <- cQuit, registered <- cRegistered, pc <- cPc,
        link <- cLink, phase <- cPhase, data <- cData, solo <- cSolo, misuse <- cMisuse
S == INSTANCE GattServer WITH
        Conns <- Servers, quit <- sQuit, registered <- sRegistered, pc <- sPc,
        link <- sLink, phase <- sPhase, data <- sData, solo <- sSolo, misuse <- sMisuse

clientVars == <<con, cQuit, cli, cRegistered, cPc, cLink, client, ready, nearby, notify,
                send, asked, dialed, cPhase, cData, cSolo, hungUp, cMisuse>>
serverVars == <<sQuit, srv, sRegistered, sPc, sLink, server,
                sPhase, sData, sSolo, deinited, sMisuse>>
transit == <<written, received, notes, taken, early, missed>>
air == <<peer, up, transit>>
vars == <<clientVars, serverVars, air>>

Init ==
    /\ C!Init
    /\ S!Init
    /\ peer = [c \in Clients |-> NULL]
    /\ up = {}
    /\ written = [c \in Clients |-> 0]
    /\ received = [c \in Clients |-> 0]
    /\ notes = [c \in Clients |-> 0]
    /\ taken = [c \in Clients |-> 0]
    /\ early = [c \in Clients |-> 0]
    /\ missed = [c \in Clients |-> 0]

OneMore(f, c) == [f EXCEPT ![c] = @ + 1]

\* An end of c's link closes its descriptor.
Close(closed) == up' = up \ closed /\ UNCHANGED <<peer, transit>>

\* The clients whose link server thread s accepted, or is about to.
PeersOf(s) == {c \in Clients : peer[c] = s}

\* Does server thread s answer what the peer asks?
Serves(s) == s # NULL /\ S!Callable(s)

-----------------------------------------------------------------------------
(***************************************************************************)
(* The transmitter.                                                        *)
(***************************************************************************)

\* connect() succeeds on a server thread that listens.
Dial(c) ==
    /\ C!DialSucceeds(c)
    /\ \E s \in Servers :
          /\ sPc[s] = "accept" /\ PeersOf(s) = {}
          /\ peer' = [peer EXCEPT ![c] = s]
    /\ up' = up \cup {c}
    /\ UNCHANGED transit

\* Mutant: client_destroy drops the GATT client and not the bt_att, as
\* server_destroy does.
client_destroy_KeepsLink(c) == C!client_destroy(c) /\ UNCHANGED air

\* client_destroy drops the bt_att, which closes the descriptor.
client_destroy(c) == C!client_destroy(c) /\ Close({cli})

ClientThread(c) ==
    /\ \/ Dial(c)
       \/ client_destroy(c)
       \/ C!ClientNotCreated(c) /\ Close({c})
       \/ /\ C!MainloopInit(c) \/ C!ReadCon(c) \/ C!DialFails(c) \/ C!ClientCreated(c)
             \/ C!MainloopEnds(c) \/ C!TellDisconnect(c)
          /\ UNCHANGED air
    /\ UNCHANGED serverVars

\* Discovery: the peer answers as long as its loop runs, and has both
\* characteristics of the nearby service (nearby_service of the receiver).
ready_cb(c) ==
    /\ c \in up
    /\ Serves(peer[c])
    /\ C!ready_cb(c)
    /\ nearby'[c]
    /\ cPhase' = cPhase

\* The callbacks that need no answer of the peer.
ClientCallback(c) ==
    /\ \/ ready_cb(c)
       \/ C!ReadyFails(c)
       \/ C!NotifyRefused(c)
       \/ C!register_notify_cb(c)
    /\ UNCHANGED <<serverVars, air>>

\* The loop finds the link broken.
ClientHears(c) ==
    /\ c \notin up
    /\ C!att_disconnect_cb(c)
    /\ UNCHANGED <<serverVars, air>>

\* BleSendData, its write.  On a link that is up a write without response
\* is either refused or under way.
BleSendData ==
    /\ C!SendWrite
    /\ \/ UNCHANGED written
       \/ /\ cli # NULL
          /\ client[cli] = "live" /\ ready[cli] = "ok" /\ nearby[cli]
          /\ cli \in up
          /\ written[cli] < MaxData
          /\ written' = OneMore(written, cli)
    /\ UNCHANGED <<serverVars, peer, up, received, notes, taken, early, missed>>

\* A notification reaches c's loop: notify_cb gives it to the SDK, if the
\* handler is registered; if not it is gone.
notify_cb(c) ==
    /\ taken[c] < notes[c]
    /\ taken' = OneMore(taken, c)
    /\ \/ C!notify_cb(c) /\ UNCHANGED missed
       \/ /\ C!Callable(c)
          /\ notify[c] # "on" \/ ~cRegistered
          /\ missed' = OneMore(missed, c)
          /\ UNCHANGED clientVars
    /\ UNCHANGED <<serverVars, peer, up, written, received, notes, early>>

ClientSdk ==
    /\ \/ C!BleRegisterChannelCallback
       \/ \E c \in Clients, addr \in Addrs : C!BleConnect(c, addr)
       \/ \E addr \in Addrs : C!BleConnectNoThread(addr)
       \/ C!BleDisconnect
       \/ C!SendCheck
    /\ UNCHANGED <<serverVars, air>>

-----------------------------------------------------------------------------
(***************************************************************************)
(* The receiver.                                                           *)
(***************************************************************************)

\* accept() returns the link a client has dialled.
Accept(s) ==
    /\ PeersOf(s) # {}
    /\ S!Accept(s)
    /\ UNCHANGED <<clientVars, air>>

\* The listening socket is closed, and with it a link it holds.
AcceptFails(s) ==
    /\ S!AcceptFails(s)
    /\ Close(PeersOf(s))
    /\ UNCHANGED clientVars

ServerThread(s) ==
    /\ \/ S!ServerNotCreated(s) /\ Close(PeersOf(s))
       \/ /\ S!MainloopInit(s) \/ S!ServerCreated(s) \/ S!TellConnect(s)
             \/ S!MainloopEnds(s) \/ S!server_destroy(s) \/ S!TellDisconnect(s)
          /\ UNCHANGED air
    /\ UNCHANGED clientVars

\* The loop finds the link broken.
ServerHears(s) ==
    /\ PeersOf(s) \cap up = {}
    /\ S!att_disconnect_cb(s)
    /\ UNCHANGED <<clientVars, air>>

\* A write of the peer reaches the loop.
gap_nearby_write_cb(s) ==
    /\ \E c \in PeersOf(s) :
          /\ received[c] < written[c]
          /\ received' = OneMore(received, c)
    /\ S!gap_nearby_write_cb(s)
    /\ UNCHANGED <<clientVars, peer, up, written, notes, taken, early, missed>>

\* BleNotifyData: sent if there is a server and a link for it.
BleNotifyData ==
    /\ S!BleNotifyData
    /\ \/ UNCHANGED <<notes, early>>
       \/ /\ srv # NULL
          /\ server[srv] = "live"
          /\ \E c \in PeersOf(srv) \cap up :
                /\ notes[c] < MaxData
                /\ notes' = OneMore(notes, c)
                /\ early' = IF cPhase[c] = "up" THEN early ELSE OneMore(early, c)
    /\ UNCHANGED <<clientVars, peer, up, written, received, taken, missed>>

ServerSdk ==
    /\ \/ S!BleRegisterChannelCallback
       \/ \E s \in Servers : S!BleDriverInit(s)
       \/ S!BleDriverDeinit
    /\ UNCHANGED <<clientVars, air>>

-----------------------------------------------------------------------------
\* The radio loses a link.
AirBreaks ==
    /\ \E c \in up : Close({c})
    /\ UNCHANGED <<clientVars, serverVars>>

Next ==
    \/ ClientSdk \/ BleSendData
    \/ \E c \in Clients : \/ ClientThread(c) \/ ClientCallback(c)
                          \/ ClientHears(c) \/ notify_cb(c)
    \/ ServerSdk \/ BleNotifyData
    \/ \E s \in Servers : \/ ServerThread(s) \/ Accept(s) \/ AcceptFails(s)
                          \/ ServerHears(s) \/ gap_nearby_write_cb(s)
    \/ AirBreaks

\* Threads that can run do, and a loop that runs gets to what has arrived:
\* a link to accept, data, the end of the link.  Nothing makes discovery
\* succeed, or an SDK call.
Fairness ==
    /\ \A c \in Clients : /\ WF_vars(ClientThread(c))
                          /\ WF_vars(ClientHears(c))
                          /\ WF_vars(notify_cb(c))
    /\ \A s \in Servers : /\ WF_vars(ServerThread(s))
                          /\ WF_vars(Accept(s))
                          /\ WF_vars(ServerHears(s))
                          /\ WF_vars(gap_nearby_write_cb(s))

Spec == Init /\ [][Next]_vars /\ Fairness

-----------------------------------------------------------------------------
(***************************************************************************)
(* Properties.  Each is about connections that do not overlap.             *)
(***************************************************************************)

Solo == cSolo /\ sSolo

\* A client that was told CONNECT (tx line 342) has a peer that was told so
\* too (rx line 287).  As long as its link is up the two are not of two
\* minds, but in one case: the receiver's BleDriverDeinit ends its side and
\* leaves the link up, and nothing tells the client.
EndsAgree ==
    \A c \in Clients : Solo /\ cPhase[c] = "up" =>
        /\ sPhase[peer[c]] \in {"up", "over"}
        /\ c \in up /\ sPhase[peer[c]] = "over" => peer[c] \in deinited

\* A notification is lost on a connection that lasts only if it was sent
\* before the client's SDK was told CONNECT.  The receiver's is told first
\* (rx line 287 comes before its loop runs and answers discovery), so what
\* it sends at once is what may be lost.
OnlyEarlyNotesAreMissed ==
    \A c \in Clients : Solo => missed[c] <= early[c]

\* A write that BleSendData made (tx line 865) is received, unless the link
\* breaks or an SDK ends the connection.
WritesArrive ==
    \A c \in Clients : \A n \in 1..MaxData :
        written[c] = n ~> \/ received[c] >= n
                          \/ c \notin up
                          \/ peer[c] \in deinited
                          \/ ~Solo

\* A connection that is up and breaks, or that the client's SDK gives up, is
\* over for both: each SDK is told DISCONNECT.
BothHearTheEnd ==
    \A c \in Clients :
        (cPhase[c] = "up" /\ (c \notin up \/ cQuit))
            ~> \/ cPhase[c] = "over" /\ sPhase[peer[c]] = "over"
               \/ ~Solo
=============================================================================
