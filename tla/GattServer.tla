---------------------------- MODULE GattServer -----------------------------
(***************************************************************************)
(* The receiver's connection, Linux-en/driver_ble_rx.c: BleDriverInit      *)
(* spawns a thread on StartGattServer, which waits for one peer, builds a  *)
(* GATT server in the global g_server, tells CONNECT, runs BlueZ's main    *)
(* loop until something calls mainloop_quit, destroys the server and tells *)
(* DISCONNECT.  BleDriverDeinit is mainloop_quit.  Nothing is locked, and  *)
(* nobody waits for the thread.                                            *)
(*                                                                         *)
(* BlueZ is modelled as in GattClient.  A link stays open until the peer   *)
(* breaks it or the driver drops its own reference to the bt_att (made     *)
(* close-on-unref at line 156) or closes the descriptor.                   *)
(***************************************************************************)
EXTENDS Naturals, FiniteSets

CONSTANTS Conns, \* the server threads that can be spawned, one connection each
          NULL   \* no server

ASSUME NULLAssumption == NULL \notin Conns

VARIABLES
    quit,       \* BlueZ: has mainloop_quit been called since mainloop_init?
    srv,        \* g_server: the thread whose server it points to
    registered, \* g_channel_cb is set
    pc,         \* pc[s]: where thread s is in StartGattServer
    link,       \* link[s]: the L2CAP link that thread s accepted
    server,     \* server[s]: the bt_gatt_server made by thread s
    \* History of the run, read by the properties and by no action:
    phase,      \* phase[s]: what the SDK heard last of s (see Channel)
    data,       \* data[s]: has ReceiveData been called for s?
    solo,       \* no BleDriverInit found another thread alive or no callback
    deinited,   \* the threads that a BleDriverDeinit found alive
    misuse      \* the kinds of code that used a server freed or missing

heard == <<phase, data>>
ghosts == <<solo, deinited, misuse>>
vars == <<quit, srv, registered, pc, link, server, heard, ghosts>>

PcStates == {"unborn", "init", "accept", "create", "tell",
             "loop", "destroy", "report", "done"}

TypeOK ==
    /\ quit \in BOOLEAN
    /\ srv \in Conns \cup {NULL}
    /\ registered \in BOOLEAN
    /\ pc \in [Conns -> PcStates]
    /\ link \in [Conns -> {"none", "open", "lost"}]
    /\ server \in [Conns -> {"none", "live", "freed"}]
    /\ \A s \in Conns : pc[s] \in {"tell", "loop"} => server[s] # "none"
    /\ phase \in [Conns -> {"none", "trying", "broken", "up", "over"}]
    /\ data \in [Conns -> BOOLEAN]
    /\ solo \in BOOLEAN
    /\ deinited \subseteq Conns
    /\ misuse \subseteq {"destroy", "notify"}

Init ==
    /\ quit = FALSE
    /\ srv = NULL
    /\ registered = FALSE
    /\ pc = [s \in Conns |-> "unborn"]
    /\ link = [s \in Conns |-> "none"]
    /\ server = [s \in Conns |-> "none"]
    /\ phase = [s \in Conns |-> "none"]
    /\ data = [s \in Conns |-> FALSE]
    /\ solo = TRUE
    /\ deinited = {}
    /\ misuse = {}

Alive(s) == pc[s] \notin {"unborn", "done"}

Tell(s, event) ==
    phase' = IF registered THEN [phase EXCEPT ![s] = event] ELSE phase

Use(kind) ==
    misuse' = IF srv # NULL /\ server[srv] = "live" THEN misuse ELSE misuse \cup {kind}

Goto(s, label) == pc' = [pc EXCEPT ![s] = label]

-----------------------------------------------------------------------------
(***************************************************************************)
(* The driver calls of the SDK.                                            *)
(***************************************************************************)

BleRegisterChannelCallback ==
    /\ ~registered
    /\ registered' = TRUE
    /\ UNCHANGED <<quit, srv, pc, link, server, heard, ghosts>>

\* BleDriverInit finds its device and spawns thread s.  Without a device or
\* a thread it changes nothing.
BleDriverInit(s) ==
    /\ pc[s] = "unborn"
    /\ Goto(s, "init")
    /\ phase' = [phase EXCEPT ![s] = "trying"]
    /\ solo' = (solo /\ registered /\ \A d \in Conns : ~Alive(d))
    /\ UNCHANGED <<quit, srv, registered, link, server, data, deinited, misuse>>

\* Mutant: a deinit that tells the disconnection before it has happened.
BleDriverDeinit_TellsNow ==
    /\ quit' = TRUE
    /\ deinited' = deinited \cup {s \in Conns : Alive(s)}
    /\ phase' = [s \in Conns |-> IF Alive(s) THEN "over" ELSE phase[s]]
    /\ UNCHANGED <<srv, registered, pc, link, server, data, solo, misuse>>

\* BleDriverDeinit: StopGattServer, that is, mainloop_quit.
BleDriverDeinit ==
    /\ quit' = TRUE
    /\ deinited' = deinited \cup {s \in Conns : Alive(s)}
    /\ UNCHANGED <<srv, registered, pc, link, server, heard, solo, misuse>>

\* BleNotifyData, and BleSendResponse: g_server is used without a look.
BleNotifyData ==
    /\ Use("notify")
    /\ UNCHANGED <<quit, srv, registered, pc, link, server, heard, solo, deinited>>

-----------------------------------------------------------------------------
(***************************************************************************)
(* StartGattServer, one action per access to what is shared.               *)
(***************************************************************************)

MainloopInit(s) ==
    /\ pc[s] = "init"
    /\ quit' = FALSE
    /\ Goto(s, "accept")
    /\ UNCHANGED <<srv, registered, link, server, heard, ghosts>>

\* accept returns a peer's link; only a peer makes it return one.
Accept(s) ==
    /\ pc[s] = "accept"
    /\ link' = [link EXCEPT ![s] = "open"]
    /\ Goto(s, "create")
    /\ UNCHANGED <<quit, srv, registered, server, heard, ghosts>>

\* The listening socket or accept fails: the thread returns, nobody is told.
AcceptFails(s) ==
    /\ pc[s] = "accept"
    /\ Goto(s, "done")
    /\ UNCHANGED <<quit, srv, registered, link, server, heard, ghosts>>

\* Mutant: the SDK is not told of the connection.
ServerCreated_Untold(s) ==
    /\ pc[s] = "create"
    /\ server' = [server EXCEPT ![s] = "live"]
    /\ srv' = s
    /\ Goto(s, "loop")
    /\ UNCHANGED <<quit, registered, link, heard, ghosts>>

ServerCreated(s) ==
    /\ pc[s] = "create"
    /\ server' = [server EXCEPT ![s] = "live"]
    /\ srv' = s
    /\ Goto(s, "tell")
    /\ UNCHANGED <<quit, registered, link, heard, ghosts>>

\* Mutant: no return after a server that could not be created.
ServerNotCreated_NoReturn(s) ==
    /\ pc[s] = "create"
    /\ srv' = NULL
    /\ link' = [link EXCEPT ![s] = "none"]
    /\ Goto(s, "tell")
    /\ UNCHANGED <<quit, registered, server, heard, ghosts>>

\* server_create fails: the link is closed and the thread returns.
ServerNotCreated(s) ==
    /\ pc[s] = "create"
    /\ srv' = NULL
    /\ link' = [link EXCEPT ![s] = "none"]
    /\ Goto(s, "done")
    /\ UNCHANGED <<quit, registered, server, heard, ghosts>>

TellConnect(s) ==
    /\ pc[s] = "tell"
    /\ Tell(s, "up")
    /\ Goto(s, "loop")
    /\ UNCHANGED <<quit, srv, registered, link, server, data, ghosts>>

\* Mutant: the loop is not run until it is told to end.
MainloopEnds_Early(s) ==
    /\ pc[s] = "loop"
    /\ Goto(s, "destroy")
    /\ UNCHANGED <<quit, srv, registered, link, server, heard, ghosts>>

\* mainloop_run returns.
MainloopEnds(s) ==
    /\ pc[s] = "loop"
    /\ quit
    /\ Goto(s, "destroy")
    /\ UNCHANGED <<quit, srv, registered, link, server, heard, ghosts>>

\* server_destroy(g_server): the GATT server and its database are dropped,
\* the bt_att and the struct are not; the pointer stays.
server_destroy(s) ==
    /\ pc[s] = "destroy"
    /\ Use("destroy")
    /\ server' = IF srv = NULL THEN server ELSE [server EXCEPT ![srv] = "freed"]
    /\ Goto(s, "report")
    /\ UNCHANGED <<quit, srv, registered, link, heard, solo, deinited>>

TellDisconnect(s) ==
    /\ pc[s] = "report"
    /\ Tell(s, "over")
    /\ Goto(s, "done")
    /\ UNCHANGED <<quit, srv, registered, link, server, data, ghosts>>

-----------------------------------------------------------------------------
(***************************************************************************)
(* Callbacks of server s, run by a thread inside mainloop_run.             *)
(***************************************************************************)

Callable(s) ==
    /\ server[s] = "live"
    /\ link[s] = "open"
    /\ \E d \in Conns : pc[d] = "loop"

\* Mutant: the loop is not told to end.
att_disconnect_cb_NoQuit(s) ==
    /\ Callable(s)
    /\ link' = [link EXCEPT ![s] = "lost"]
    /\ UNCHANGED <<quit, srv, registered, pc, server, heard, ghosts>>

att_disconnect_cb(s) ==
    /\ Callable(s)
    /\ link' = [link EXCEPT ![s] = "lost"]
    /\ quit' = TRUE
    /\ UNCHANGED <<srv, registered, pc, server, heard, ghosts>>

\* A write of the peer: ReceiveData, when a table is registered.
gap_nearby_write_cb(s) ==
    /\ Callable(s)
    /\ registered
    /\ data' = [data EXCEPT ![s] = TRUE]
    /\ UNCHANGED <<quit, srv, registered, pc, link, server, phase, ghosts>>

-----------------------------------------------------------------------------
\* The steps of a thread that do not wait for a peer.
RunStep(s) ==
    \/ MainloopInit(s)
    \/ ServerCreated(s)
    \/ ServerNotCreated(s)
    \/ TellConnect(s)
    \/ MainloopEnds(s)
    \/ server_destroy(s)
    \/ TellDisconnect(s)

PeerStep(s) ==
    \/ Accept(s)
    \/ AcceptFails(s)
    \/ att_disconnect_cb(s)
    \/ gap_nearby_write_cb(s)

SdkStep ==
    \/ BleRegisterChannelCallback
    \/ \E s \in Conns : BleDriverInit(s)
    \/ BleDriverDeinit
    \/ BleNotifyData

Next == SdkStep \/ \E s \in Conns : RunStep(s) \/ PeerStep(s)

\* The scheduler runs every thread that can run.  Nothing makes a peer
\* connect, write or go away, or the SDK call.
Fairness == \A s \in Conns : WF_vars(RunStep(s))

Spec == Init /\ [][Next]_vars /\ Fairness

-----------------------------------------------------------------------------
(***************************************************************************)
(* Properties.                                                             *)
(***************************************************************************)

\* Unless server threads overlap, server_destroy is given the server its own
\* thread made, live: no double drop, no NULL, over any sequence of inits,
\* deinits, failed accepts and failed creations (line 291).
DestroysLiveServer == solo => "destroy" \notin misuse

\* The driver keeps the promise of Channel: see there.
Promise == INSTANCE Channel
              WITH Conns <- Conns, phase <- phase, data <- data, solo <- solo
ImplementsChannel == Promise!ChannelSpec

\* A CONNECT that was told is followed by a DISCONNECT once the peer is gone
\* or a deinit found the loop running, unless server threads overlap.
ConnectIsClosed ==
    \A s \in Conns :
        (pc[s] = "loop" /\ (quit \/ link[s] = "lost"))
            ~> (phase[s] = "over" \/ ~solo)
=============================================================================
