------------------------------ MODULE Channel ------------------------------
(***************************************************************************)
(* What a BLE driver promises the SDK through the ChannelCallback table of *)
(* driver_adapt.h: the order in which the events of one connection         *)
(* (EVENT_CONNECT, EVENT_CONNECT_FAIL, EVENT_DISCONNECT, ReceiveData) may  *)
(* be heard.  Conns is the set of connections, numbered by the call that   *)
(* started them.  The promise is void once connections overlap: the        *)
(* drivers keep one connection in unprotected globals.                     *)
(***************************************************************************)
CONSTANT Conns

VARIABLES phase, \* phase[c]: what the SDK has heard of connection c
          data,  \* data[c]: has the SDK received data from c?
          solo   \* has no connection been started on top of another?

channelVars == <<phase, data, solo>>

Phases == {"none",   \* not asked for
           "trying", \* asked for, nothing heard
           "broken", \* EVENT_CONNECT_FAIL heard
           "up",     \* EVENT_CONNECT heard
           "over"}   \* EVENT_DISCONNECT heard

ChannelInit ==
    /\ phase = [c \in Conns |-> "none"]
    /\ data = [c \in Conns |-> FALSE]
    /\ solo = TRUE

Move(c, from, to) ==
    /\ phase[c] \in from
    /\ phase' = [phase EXCEPT ![c] = to]
    /\ UNCHANGED <<data, solo>>

\* A connection is asked for while no other is up.
Ask(c) == /\ Move(c, {"none"}, "trying")
          /\ \A d \in Conns : phase[d] # "up"

\* A failure is not final: discovery may fail in part and still succeed.
Fail(c) == Move(c, {"trying", "broken"}, "broken")

\* CONNECT is heard once, and never after DISCONNECT.
Connect(c) == Move(c, {"trying", "broken"}, "up")

\* DISCONNECT is the last thing heard of a connection.
Disconnect(c) == Move(c, {"trying", "broken", "up"}, "over")

\* Data comes after the outcome of the connection and before its end.
Receive(c) == /\ phase[c] \in {"broken", "up"}
              /\ data' = [data EXCEPT ![c] = TRUE]
              /\ UNCHANGED <<phase, solo>>

\* Connections overlap: from here on nothing is promised.
Overlap == solo /\ solo' = FALSE
Void == ~solo /\ solo' = FALSE

ChannelNext ==
    \/ \E c \in Conns : \/ Ask(c) \/ Fail(c) \/ Connect(c)
                        \/ Disconnect(c) \/ Receive(c)
    \/ Overlap
    \/ Void

ChannelSpec == ChannelInit /\ [][ChannelNext]_channelVars
=============================================================================
