---------------------------- MODULE GattClient -----------------------------
(***************************************************************************)
(* The transmitter's connection, Linux-en/driver_ble_tx.c: BleConnect      *)
(* fills a static struct and spawns a thread on GattcConnectByAddress,     *)
(* which connects, builds a GATT client in the global g_nearbyCli, runs    *)
(* BlueZ's main loop until something calls mainloop_quit and destroys the  *)
(* client.  Meanwhile the SDK's thread may connect again, disconnect and   *)
(* send.  Nothing is locked.                                               *)
(*                                                                         *)
(* BlueZ is external and modelled from its use here: mainloop_init resets  *)
(* the quit flag, mainloop_run returns once it is set, and the callbacks   *)
(* of a client run inside a main loop.                                     *)
(***************************************************************************)
EXTENDS Naturals, FiniteSets

CONSTANTS Conns, \* the connect threads that can be spawned
          Addrs, \* peer addresses
          NULL   \* no client; no address

ASSUME NULLAssumption == NULL \notin Conns /\ NULL \notin Addrs

VARIABLES
    con,        \* the static struct connect of BleConnect: its dst
    quit,       \* BlueZ: has mainloop_quit been called since mainloop_init?
    cli,        \* g_nearbyCli: the connection whose client it points to
    registered, \* g_channel_cb is set
    pc,         \* pc[c]: where thread c is in GattcConnectByAddress
    link,       \* link[c]: the L2CAP link
    client,     \* client[c]: the struct client made by thread c
    ready,      \* ready[c]: how the discovery of the peer ended
    nearby,     \* nearby[c]: is g_nearby_handle set in client c?
    notify,     \* notify[c]: the registration for notifications
    send,       \* BleSendData: "idle", or "write" between check and write
    \* History of the run, read by the properties and by no action:
    asked,      \* asked[c]: the address BleConnect was given
    dialed,     \* dialed[c]: the address thread c connected to
    phase,      \* phase[c]: what the SDK heard last of c (see Channel)
    data,       \* data[c]: has ReceiveData been called for c?
    solo,       \* no BleConnect found another thread alive or no callback
    hungUp,     \* the connections a BleDisconnect found in the making or up
    misuse      \* the kinds of code that used a client freed or not theirs

thread == <<pc, link, client>>
gatt == <<ready, nearby, notify>>
dial == <<con, asked, dialed>>
heard == <<phase, data>>
vars == <<dial, quit, cli, registered, thread, gatt, send, heard, hungUp, solo, misuse>>

PcStates == {"unborn", "init", "dial", "dialing", "create",
             "loop", "destroy", "report", "done"}

\* Thread c has read the destination.
HasRead(c) == pc[c] \notin {"unborn", "init", "dial"}

TypeOK ==
    /\ con \in Addrs \cup {NULL}
    /\ quit \in BOOLEAN
    /\ cli \in Conns \cup {NULL}
    /\ registered \in BOOLEAN
    /\ pc \in [Conns -> PcStates]
    /\ link \in [Conns -> {"none", "open", "lost"}]
    /\ client \in [Conns -> {"none", "live", "freed"}]
    /\ ready \in [Conns -> {"pending", "ok", "failed"}]
    /\ nearby \in [Conns -> BOOLEAN]
    /\ notify \in [Conns -> {"none", "asked", "on"}]
    /\ send \in {"idle", "write"}
    /\ asked \in [Conns -> Addrs \cup {NULL}]
    /\ dialed \in [Conns -> Addrs \cup {NULL}]
    /\ \A c \in Conns : HasRead(c) => dialed[c] \in Addrs
    /\ phase \in [Conns -> {"none", "trying", "broken", "up", "over"}]
    /\ data \in [Conns -> BOOLEAN]
    /\ solo \in BOOLEAN
    /\ hungUp \subseteq Conns
    /\ misuse \subseteq {"destroy", "callback", "send"}

Init ==
    /\ con = NULL
    /\ quit = FALSE
    /\ cli = NULL
    /\ registered = FALSE
    /\ pc = [c \in Conns |-> "unborn"]
    /\ link = [c \in Conns |-> "none"]
    /\ client = [c \in Conns |-> "none"]
    /\ ready = [c \in Conns |-> "pending"]
    /\ nearby = [c \in Conns |-> FALSE]
    /\ notify = [c \in Conns |-> "none"]
    /\ send = "idle"
    /\ asked = [c \in Conns |-> NULL]
    /\ dialed = [c \in Conns |-> NULL]
    /\ phase = [c \in Conns |-> "none"]
    /\ data = [c \in Conns |-> FALSE]
    /\ solo = TRUE
    /\ hungUp = {}
    /\ misuse = {}

Alive(c) == pc[c] \notin {"unborn", "done"}

\* g_channel_cb->ChannelStateChange, when a table is registered.
Tell(c, event) ==
    phase' = IF registered THEN [phase EXCEPT ![c] = event] ELSE phase

\* What is recorded when code of this kind uses client c through g_nearbyCli.
Use(kind, c) ==
    misuse' = IF c # NULL /\ client[c] = "live" THEN misuse ELSE misuse \cup {kind}

Goto(c, label) == pc' = [pc EXCEPT ![c] = label]

-----------------------------------------------------------------------------
(***************************************************************************)
(* The driver calls of the SDK.                                            *)
(***************************************************************************)

BleRegisterChannelCallback ==
    /\ ~registered
    /\ registered' = TRUE
    /\ UNCHANGED <<dial, quit, cli, thread, gatt, send, heard, solo, misuse, hungUp>>

\* Mutant: the destination is not copied into con.
BleConnect_NotCopied(c, addr) ==
    /\ pc[c] = "unborn"
    /\ UNCHANGED con
    /\ asked' = [asked EXCEPT ![c] = addr]
    /\ phase' = [phase EXCEPT ![c] = "trying"]
    /\ solo' = (solo /\ registered /\ \A d \in Conns : ~Alive(d))
    /\ Goto(c, "init")
    /\ UNCHANGED <<dialed, quit, cli, registered, link, client, gatt, send,
                   data, misuse, hungUp>>

\* BleConnect spawns thread c; the thread is given the address of con.
BleConnect(c, addr) ==
    /\ pc[c] = "unborn"
    /\ con' = addr
    /\ asked' = [asked EXCEPT ![c] = addr]
    /\ phase' = [phase EXCEPT ![c] = "trying"]
    /\ solo' = (solo /\ registered /\ \A d \in Conns : ~Alive(d))
    /\ Goto(c, "init")
    /\ UNCHANGED <<dialed, quit, cli, registered, link, client, gatt, send,
                   data, misuse, hungUp>>

\* hci_devinfo fails (-1) or pthread_create fails (0 all the same): con is
\* already overwritten and there is no thread.
BleConnectNoThread(addr) ==
    /\ con' = addr
    /\ solo' = (solo /\ \A d \in Conns : ~Alive(d))
    /\ UNCHANGED <<asked, dialed, quit, cli, registered, thread, gatt, send,
                   heard, misuse, hungUp>>

\* Mutant: the call reports the disconnection before it has happened.
BleDisconnect_TellsNow ==
    /\ quit' = TRUE
    /\ phase' = [c \in Conns |-> IF pc[c] = "loop" THEN "over" ELSE phase[c]]
    /\ UNCHANGED <<dial, cli, registered, thread, gatt, send, data, solo, misuse, hungUp>>

\* BleDisconnect: mainloop_quit and nothing else.
BleDisconnect ==
    /\ quit' = TRUE
    /\ hungUp' = hungUp \cup {c \in Conns : Alive(c)}
    /\ UNCHANGED <<dial, cli, registered, thread, gatt, send, heard, solo, misuse>>

\* BleSendData, first half: g_nearbyCli and its handle are looked at.  What
\* a freed client holds there is any value.
SendCheck ==
    /\ send = "idle"
    /\ cli # NULL
    /\ client[cli] = "live" => nearby[cli]
    /\ Use("send", cli)
    /\ send' = "write"
    /\ UNCHANGED <<dial, quit, cli, registered, thread, gatt, heard, solo, hungUp>>

\* BleSendData, second half: is the client ready, and the write.  Whether it
\* succeeds changes nothing here.
SendWrite ==
    /\ send = "write"
    /\ send' = "idle"
    /\ Use("send", cli)
    /\ UNCHANGED <<dial, quit, cli, registered, thread, gatt, heard, solo, hungUp>>

-----------------------------------------------------------------------------
(***************************************************************************)
(* GattcConnectByAddress, one action per access to what is shared.         *)
(***************************************************************************)

MainloopInit(c) ==
    /\ pc[c] = "init"
    /\ quit' = FALSE
    /\ Goto(c, "dial")
    /\ UNCHANGED <<dial, cli, registered, link, client, gatt, send, heard, solo, misuse, hungUp>>

\* l2cap_le_att_connect copies the destination out of con ...
ReadCon(c) ==
    /\ pc[c] = "dial"
    /\ dialed' = [dialed EXCEPT ![c] = con]
    /\ Goto(c, "dialing")
    /\ UNCHANGED <<con, asked, quit, cli, registered, link, client, gatt, send,
                   heard, solo, misuse, hungUp>>

\* ... and connects.
DialSucceeds(c) ==
    /\ pc[c] = "dialing"
    /\ link' = [link EXCEPT ![c] = "open"]
    /\ Goto(c, "create")
    /\ UNCHANGED <<dial, quit, cli, registered, client, gatt, send, heard, solo, misuse, hungUp>>

\* The failure is told, and the thread goes on with a descriptor of -1.
DialFails(c) ==
    /\ pc[c] = "dialing"
    /\ Tell(c, "broken")
    /\ Goto(c, "create")
    /\ UNCHANGED <<dial, quit, cli, registered, link, client, gatt, send, data,
                   solo, misuse, hungUp>>

ClientCreated(c) ==
    /\ pc[c] = "create"
    /\ link[c] = "open"
    /\ client' = [client EXCEPT ![c] = "live"]
    /\ cli' = c
    /\ Goto(c, "loop")
    /\ UNCHANGED <<dial, quit, registered, link, gatt, send, heard, solo, misuse, hungUp>>

\* Mutant: no return after a client that could not be created.
ClientNotCreated_NoReturn(c) ==
    /\ pc[c] = "create"
    /\ cli' = NULL
    /\ link' = [link EXCEPT ![c] = "none"]
    /\ Tell(c, "broken")
    /\ Goto(c, "destroy")
    /\ UNCHANGED <<dial, quit, registered, client, gatt, send, data, solo, misuse, hungUp>>

\* client_create fails, as it must without a link: the failure is told (for
\* the second time, if the link failed) and the thread returns.
ClientNotCreated(c) ==
    /\ pc[c] = "create"
    /\ cli' = NULL
    /\ link' = [link EXCEPT ![c] = "none"]
    /\ Tell(c, "broken")
    /\ Goto(c, "done")
    /\ UNCHANGED <<dial, quit, registered, client, gatt, send, data, solo, misuse, hungUp>>

\* mainloop_run returns.
MainloopEnds(c) ==
    /\ pc[c] = "loop"
    /\ quit
    /\ Goto(c, "destroy")
    /\ UNCHANGED <<dial, quit, cli, registered, link, client, gatt, send, heard,
                   solo, misuse, hungUp>>

\* client_destroy(g_nearbyCli), whoever made it; the pointer stays.
client_destroy(c) ==
    /\ pc[c] = "destroy"
    /\ Use("destroy", cli)
    /\ client' = IF cli = NULL THEN client ELSE [client EXCEPT ![cli] = "freed"]
    /\ Goto(c, "report")
    /\ UNCHANGED <<dial, quit, cli, registered, link, gatt, send, heard, solo, hungUp>>

TellDisconnect(c) ==
    /\ pc[c] = "report"
    /\ Tell(c, "over")
    /\ Goto(c, "done")
    /\ UNCHANGED <<dial, quit, cli, registered, link, client, gatt, send, data,
                   solo, misuse, hungUp>>

-----------------------------------------------------------------------------
(***************************************************************************)
(* Callbacks of client c, run by a thread inside mainloop_run.             *)
(***************************************************************************)

Callable(c) ==
    /\ client[c] = "live"
    /\ link[c] = "open"
    /\ \E d \in Conns : pc[d] = "loop"

\* Mutant: the loop is not told to end.
att_disconnect_cb_NoQuit(c) ==
    /\ Callable(c)
    /\ link' = [link EXCEPT ![c] = "lost"]
    /\ UNCHANGED <<dial, quit, cli, registered, pc, client, gatt, send, heard,
                   solo, misuse, hungUp>>

att_disconnect_cb(c) ==
    /\ Callable(c)
    /\ link' = [link EXCEPT ![c] = "lost"]
    /\ quit' = TRUE
    /\ UNCHANGED <<dial, cli, registered, pc, client, gatt, send, heard, solo, misuse, hungUp>>

\* ready_cb(FALSE): the failure is told, the loop goes on.
ReadyFails(c) ==
    /\ Callable(c)
    /\ ready[c] = "pending"
    /\ ready' = [ready EXCEPT ![c] = "failed"]
    /\ Tell(c, "broken")
    /\ UNCHANGED <<dial, quit, cli, registered, thread, nearby, notify, send,
                   data, solo, misuse, hungUp>>

\* ready_cb(TRUE): every characteristic of the nearby service goes through
\* get_neaby_char, which keeps the handle it sends to, asks for
\* notifications (through g_nearbyCli, not through its own client) and tells
\* a failure for one it cannot read.  The peer has each at most once.
ready_cb(c) ==
    /\ Callable(c)
    /\ ready[c] = "pending"
    /\ ready' = [ready EXCEPT ![c] = "ok"]
    /\ \E hasNearby, unreadable \in BOOLEAN :
          /\ nearby' = [nearby EXCEPT ![c] = hasNearby]
          /\ IF unreadable THEN Tell(c, "broken") ELSE UNCHANGED phase
    /\ \/ UNCHANGED <<notify, misuse>>
       \/ /\ notify' = [notify EXCEPT ![c] = "asked"]
          /\ Use("callback", IF cli = c THEN c ELSE NULL)
    /\ UNCHANGED <<dial, quit, cli, registered, thread, send, data, solo, hungUp>>

\* register_notify_cb with an error code.
NotifyRefused(c) ==
    /\ Callable(c)
    /\ notify[c] = "asked"
    /\ notify' = [notify EXCEPT ![c] = "none"]
    /\ Tell(c, "broken")
    /\ UNCHANGED <<dial, quit, cli, registered, thread, ready, nearby, send,
                   data, solo, misuse, hungUp>>

\* Mutant: CONNECT is told before the handler of notifications is there.
register_notify_cb_TooEarly(c) ==
    /\ Callable(c)
    /\ notify[c] = "asked"
    /\ Use("callback", IF cli = c THEN c ELSE NULL)
    /\ Tell(c, "up")
    /\ UNCHANGED <<dial, quit, cli, registered, thread, gatt, send, data, solo, hungUp>>

\* register_notify_cb without one: the descriptor is written through
\* g_nearbyCli, and the outcome of the write is the outcome that is told.
register_notify_cb(c) ==
    /\ Callable(c)
    /\ notify[c] = "asked"
    /\ notify' = [notify EXCEPT ![c] = "on"]
    /\ Use("callback", IF cli = c THEN c ELSE NULL)
    /\ \E event \in {"broken", "up"} : Tell(c, event)
    /\ UNCHANGED <<dial, quit, cli, registered, thread, ready, nearby, send, data, solo, hungUp>>

\* notify_cb: ReceiveData, when a table is registered.  That BlueZ calls it only
\* after register_notify_cb is an assumption about BlueZ.
notify_cb(c) ==
    /\ Callable(c)
    /\ notify[c] = "on"
    /\ registered
    /\ data' = [data EXCEPT ![c] = TRUE]
    /\ UNCHANGED <<dial, quit, cli, registered, thread, gatt, send, phase, solo, misuse, hungUp>>

-----------------------------------------------------------------------------
ThreadStep(c) ==
    \/ MainloopInit(c)
    \/ ReadCon(c)
    \/ DialSucceeds(c)
    \/ DialFails(c)
    \/ ClientCreated(c)
    \/ ClientNotCreated(c)
    \/ MainloopEnds(c)
    \/ client_destroy(c)
    \/ TellDisconnect(c)

Callback(c) ==
    \/ att_disconnect_cb(c)
    \/ ReadyFails(c)
    \/ ready_cb(c)
    \/ NotifyRefused(c)
    \/ register_notify_cb(c)
    \/ notify_cb(c)

SdkStep ==
    \/ BleRegisterChannelCallback
    \/ \E c \in Conns, addr \in Addrs : BleConnect(c, addr)
    \/ \E addr \in Addrs : BleConnectNoThread(addr)
    \/ BleDisconnect
    \/ SendCheck
    \/ SendWrite

Next == SdkStep \/ \E c \in Conns : ThreadStep(c) \/ Callback(c)

\* The scheduler runs every thread that can run; connect() returns in the
\* end.  Nothing makes the peer answer, the link break or the SDK call.
Fairness == \A c \in Conns : WF_vars(ThreadStep(c))

Spec == Init /\ [][Next]_vars /\ Fairness

-----------------------------------------------------------------------------
(***************************************************************************)
(* Properties.                                                             *)
(***************************************************************************)

\* Unless connections overlap, a connect thread dials the address its own
\* BleConnect was given, though both go through one static struct and the
\* thread reads it long after the call returned (line 280).
DialsAskedAddress ==
    solo => \A c \in Conns : HasRead(c) => dialed[c] = asked[c]

\* Unless connections overlap, the thread and the callbacks use g_nearbyCli
\* only while it points to the live client of their own connection: no
\* double free, no write through a stale or NULL client (lines 332, 372 and
\* 528), over any sequence of connections, failures and disconnections.
\* BleSendData (853) tests the pointer, which is never reset: it uses memory
\* that was freed, but only once a connection has come to its end.
NoMisuseAlone ==
    solo => /\ misuse \subseteq {"send"}
            /\ "send" \in misuse => \E c \in Conns : client[c] = "freed"

\* The driver keeps the promise of Channel: see there.
Promise == INSTANCE Channel
              WITH Conns <- Conns, phase <- phase, data <- data, solo <- solo
ImplementsChannel == Promise!ChannelSpec

\* A link that breaks, or a disconnect asked for while the loop runs, ends
\* in EVENT_DISCONNECT, unless connections overlap (mainloop_init of the next
\* one resets the flag both loops look at).
LoopEndIsTold ==
    \A c \in Conns :
        (pc[c] = "loop" /\ (quit \/ link[c] = "lost"))
            ~> (phase[c] = "over" \/ ~solo)

\* What driver_adapt.h:200-204 says of Disconnect ("Disconnect Channel", 0 on
\* success): once it has returned, the connection that was being made or was
\* up comes to an end.
DisconnectTakesEffect ==
    \A c \in Conns : c \in hungUp ~> ~Alive(c)
=============================================================================
