----------------------------- MODULE AndroidDemo -----------------------------
(***************************************************************************)
(* The Android demo, ShareKitDemo.java: a list of the devices nearby, kept *)
(* in deviceMap under `lock` and shown in a text and in a spinner, and a   *)
(* history of what happened, kept nowhere but in the text of statusView.   *)
(*                                                                         *)
(* Three kinds of actor.  The share service (external) announces devices   *)
(* by calls of `callback`, each served by a binder thread.  The binder     *)
(* threads change deviceMap and post runnables.  The UI thread runs the    *)
(* runnables in the order they were posted and the click handlers in       *)
(* between; what a click handler hands to runOnUiThread runs at once.      *)
(*                                                                         *)
(* Every call, a click or a callback, is numbered, and a set of numbers    *)
(* stands for the text of statusView: the calls whose lines it shows.      *)
(* foundTimeMap has the keys of deviceMap, both always changed together    *)
(* under the lock, and is left out.                                        *)
(***************************************************************************)
EXTENDS Naturals, Sequences, FiniteSets

CONSTANTS Devices,   \* common device ids
          BtName,    \* BtName[d]: its Bluetooth name, which need not be unique
          Binders,   \* the binder threads of the process
          MaxClicks,   \* bound: clicks in one run
          MaxCallbacks \* bound: callbacks in one run

ASSUME DevicesAssumption == IsFiniteSet(Devices) /\ DOMAIN BtName = Devices
ASSUME BoundsAssumption == MaxClicks \in Nat /\ MaxCallbacks \in Nat

VARIABLES
    near,       \* the devices the share service can see
    registered, \* has it been given `callback`?
    clicks,     \* the clicks so far
    calls,      \* the clicks and callbacks so far; the number of the newest one
    pc,         \* pc[t]: where binder thread t is in its callback
    job,        \* job[t]: the callback it serves, what it is about, its number
    text,       \* text[t]: what t has put together for statusView
    deviceMap,  \* the keys of deviceMap
    queue,      \* runnables posted to the UI thread
    uiPc,       \* what the UI thread is in the middle of
    targets,    \* the devices the click in progress has to send to
    sent,       \* the devices it has sent to
    saw,        \* what was in deviceMap at some time of the collection in progress
    raced,      \* was deviceMap changed during that collection?
    view,       \* deviceView: the quantity and the list in its text
    spinner,    \* the items of deviceSelectAdapter, one for each device
    lines,      \* statusView: the calls whose lines its text has
    open,       \* is the activity open?
    crashed,    \* has the process died of an uncaught exception?
    \* History of the run, read by the properties and by no action:
    adrift,     \* devices cleared from the list, or changed unannounced, since the
                \* service last announced them
    overtaken,  \* devices with two announcements applied in the wrong order
    crossed     \* has statusView been read or set with another text under way?

service == <<near, registered>>
binder == <<pc, job, text>>
ui == <<uiPc, targets, sent, saw, raced, open>>
screen == <<view, spinner, lines>>
vars == <<service, clicks, calls, binder, deviceMap, queue, ui, screen, crashed,
          adrift, overtaken, crossed>>

Calls == 1..(MaxClicks + MaxCallbacks)

\* What a thread in no callback is serving.
NoJob == [what |-> "note", about |-> {}, no |-> 0]

Runnables == [kind : {"list"}, list : SUBSET Devices]
             \cup [kind : {"line"}, text : SUBSET Calls]

TypeOK ==
    /\ near \subseteq Devices
    /\ registered \in BOOLEAN
    /\ clicks \in 0..MaxClicks
    /\ calls \in clicks..(clicks + MaxCallbacks)
    /\ pc \in [Binders -> {"idle", "line", "post", "map", "list"}]
    /\ job \in [Binders -> [what : {"found", "lost", "note"},
                            about : SUBSET Devices, no : Calls \cup {0}]]
    /\ text \in [Binders -> SUBSET Calls]
    /\ deviceMap \subseteq Devices
    /\ queue \in Seq(Runnables)
    /\ uiPc \in {"idle", "collect", "clear", "send", "cancel"}
    /\ targets \subseteq Devices
    /\ sent \subseteq Devices
    /\ saw \subseteq Devices
    /\ raced \in BOOLEAN
    /\ view \in [count : Nat, list : SUBSET Devices]
    /\ spinner \subseteq Devices
    /\ lines \subseteq Calls
    /\ open \in BOOLEAN
    /\ crashed \in BOOLEAN
    /\ adrift \subseteq Devices
    /\ overtaken \subseteq Devices
    /\ crossed \in BOOLEAN

Init ==
    /\ near = {}
    /\ registered = FALSE
    /\ clicks = 0
    /\ calls = 0
    /\ pc = [t \in Binders |-> "idle"]
    /\ job = [t \in Binders |-> NoJob]
    /\ text = [t \in Binders |-> {}]
    /\ deviceMap = {}
    /\ queue = <<>>
    /\ uiPc = "idle"
    /\ targets = {}
    /\ sent = {}
    /\ saw = {}
    /\ raced = FALSE
    /\ view = [count |-> 0, list |-> {}]
    /\ spinner = {}
    /\ lines = {}
    /\ open = TRUE
    /\ crashed = FALSE
    /\ adrift = {}
    /\ overtaken = {}
    /\ crossed = FALSE

\* doSend and onCancel hold `lock` while they call the service; every other
\* critical section is one step.
LockHeld == uiPc \in {"send", "cancel"}

\* Some text for statusView has been put together and not yet shown.
TextUnderWay ==
    \/ \E t \in Binders : pc[t] = "post"
    \/ \E i \in 1..Len(queue) : queue[i].kind = "line"

\* The callbacks about d that have not yet changed deviceMap.
Unapplied(d) == {t \in Binders : /\ pc[t] \in {"line", "post", "map"}
                                 /\ d \in job[t].about}

-----------------------------------------------------------------------------
(***************************************************************************)
(* The share service (external).  It announces what it sees while it has   *)
(* the callback; what changes while it has not, nobody is told.            *)
(***************************************************************************)

Serve(t, what, about) ==
    /\ ~crashed
    /\ calls < clicks + MaxCallbacks
    /\ pc[t] = "idle"
    /\ calls' = calls + 1
    /\ pc' = [pc EXCEPT ![t] = "line"]
    /\ job' = [job EXCEPT ![t] = [what |-> what, about |-> about, no |-> calls + 1]]
    /\ UNCHANGED <<registered, clicks, text, deviceMap, queue, ui, screen, crashed,
                   overtaken, crossed>>

Find(t, d) ==
    /\ registered
    /\ near' = near \cup {d}
    /\ adrift' = adrift \ {d}
    /\ Serve(t, "found", {d})

Lose(t, d) ==
    /\ registered
    /\ d \in near
    /\ near' = near \ {d}
    /\ adrift' = adrift \ {d}
    /\ Serve(t, "lost", {d})

\* onTransStateChange, onEnableStatusChanged, the callback of init: one line.
Notify(t) ==
    /\ Serve(t, "note", {})
    /\ UNCHANGED <<near, adrift>>

ChangeUnannounced(d) ==
    /\ ~crashed
    /\ ~registered
    /\ near' = IF d \in near THEN near \ {d} ELSE near \cup {d}
    /\ adrift' = adrift \cup {d}
    /\ UNCHANGED <<registered, clicks, calls, binder, deviceMap, queue, ui, screen, crashed,
                   overtaken, crossed>>

-----------------------------------------------------------------------------
(***************************************************************************)
(* A binder thread in a callback: a line for the history, then, for a      *)
(* device found or lost, the map and the list.                             *)
(***************************************************************************)

\* Mutant: the line replaces the text instead of following it.
ReadHistory_Replaces(t) ==
    /\ ~crashed
    /\ pc[t] = "line"
    /\ job[t].what = "found" =>
           ~ \E u \in Binders \ {t} : /\ job[u].what = "found"
                                      /\ pc[u] \in {"post", "map", "list"}
    /\ text' = [text EXCEPT ![t] = {job[t].no}]
    /\ pc' = [pc EXCEPT ![t] = "post"]
    /\ crossed' = (crossed \/ TextUnderWay)
    /\ UNCHANGED <<service, clicks, calls, job, deviceMap, queue, ui, screen, crashed,
                   adrift, overtaken>>

\* updateStatusHistory up to runOnUiThread: the text shown now, and a line
\* more.  onDeviceFound is synchronized on the callback, so a second one
\* waits here until the first has returned; onDeviceDisappeared is not.
ReadHistory(t) ==
    /\ ~crashed
    /\ pc[t] = "line"
    /\ job[t].what = "found" =>
           ~ \E u \in Binders \ {t} : /\ job[u].what = "found"
                                      /\ pc[u] \in {"post", "map", "list"}
    /\ text' = [text EXCEPT ![t] = lines \cup {job[t].no}]
    /\ pc' = [pc EXCEPT ![t] = "post"]
    /\ crossed' = (crossed \/ TextUnderWay)
    /\ UNCHANGED <<service, clicks, calls, job, deviceMap, queue, ui, screen, crashed,
                   adrift, overtaken>>

\* Thread t returns from the callback, and its locals are gone.
Return(t) ==
    /\ pc' = [pc EXCEPT ![t] = "idle"]
    /\ job' = [job EXCEPT ![t] = NoJob]

PostHistory(t) ==
    /\ ~crashed
    /\ pc[t] = "post"
    /\ queue' = Append(queue, [kind |-> "line", text |-> text[t]])
    /\ text' = [text EXCEPT ![t] = {}]
    /\ IF job[t].what = "note"
           THEN Return(t)
           ELSE pc' = [pc EXCEPT ![t] = "map"] /\ UNCHANGED job
    /\ UNCHANGED <<service, clicks, calls, deviceMap, ui, screen, crashed,
                   adrift, overtaken, crossed>>

\* Is an older callback about the same device still to change the map?
Overtakes(t) == \E d \in job[t].about : \E u \in Unapplied(d) : job[u].no < job[t].no

\* Mutant: a device that is lost stays in the map.
MapAfter_KeepsLost(t) ==
    IF job[t].what = "found" THEN deviceMap \cup job[t].about ELSE deviceMap

MapAfter(t) ==
    IF job[t].what = "found" THEN deviceMap \cup job[t].about
                             ELSE deviceMap \ job[t].about

\* Mutant: a device that is lost does not refresh the list.
ChangeMap_NoRefresh(t) ==
    /\ ~crashed
    /\ pc[t] = "map"
    /\ ~LockHeld
    /\ deviceMap' = MapAfter(t)
    /\ raced' = (raced \/ uiPc = "collect")
    /\ saw' = IF uiPc = "collect" THEN saw \cup MapAfter(t) ELSE saw
    /\ overtaken' = IF Overtakes(t) THEN overtaken \cup job[t].about ELSE overtaken
    /\ IF job[t].what = "lost"
           THEN Return(t)
           ELSE pc' = [pc EXCEPT ![t] = "list"] /\ UNCHANGED job
    /\ UNCHANGED <<service, clicks, calls, text, queue, uiPc, targets, sent, open,
                   screen, crashed, adrift, crossed>>

\* The critical section of onDeviceFound or onDeviceDisappeared.
ChangeMap(t) ==
    /\ ~crashed
    /\ pc[t] = "map"
    /\ ~LockHeld
    /\ deviceMap' = MapAfter(t)
    /\ raced' = (raced \/ uiPc = "collect")
    /\ saw' = IF uiPc = "collect" THEN saw \cup MapAfter(t) ELSE saw
    /\ overtaken' = IF Overtakes(t) THEN overtaken \cup job[t].about ELSE overtaken
    /\ pc' = [pc EXCEPT ![t] = "list"]
    /\ UNCHANGED <<service, clicks, calls, job, text, queue, uiPc, targets, sent, open,
                   screen, crashed, adrift, crossed>>

\* updateDeviceList: the list of the text is put together here, under the lock.
updateDeviceList(t) ==
    /\ ~crashed
    /\ pc[t] = "list"
    /\ ~LockHeld
    /\ queue' = Append(queue, [kind |-> "list", list |-> deviceMap])
    /\ Return(t)
    /\ UNCHANGED <<service, clicks, calls, text, deviceMap, ui, screen, crashed,
                   adrift, overtaken, crossed>>

-----------------------------------------------------------------------------
(***************************************************************************)
(* The UI thread.                                                          *)
(***************************************************************************)

RunHistory ==
    /\ ~crashed
    /\ uiPc = "idle"
    /\ queue # <<>>
    /\ Head(queue).kind = "line"
    /\ lines' = Head(queue).text
    /\ queue' = Tail(queue)
    /\ UNCHANGED <<service, clicks, calls, binder, deviceMap, ui, view, spinner, crashed,
                   adrift, overtaken, crossed>>

\* Mutant: the quantity is the last index.
RunDeviceList_OffByOne ==
    /\ ~crashed
    /\ uiPc = "idle"
    /\ queue # <<>>
    /\ Head(queue).kind = "list"
    /\ view' = [count |-> Cardinality(deviceMap) - 1, list |-> Head(queue).list]
    /\ spinner' = {}
    /\ uiPc' = "collect"
    /\ saw' = deviceMap
    /\ raced' = FALSE
    /\ queue' = Tail(queue)
    /\ UNCHANGED <<service, clicks, calls, binder, deviceMap, targets, sent, open, lines,
                   crashed, adrift, overtaken, crossed>>

\* The runnable of updateDeviceList: the quantity is that of now, the list that
\* of then; the spinner is emptied and the collection of its items begins,
\* without the lock.
RunDeviceList ==
    /\ ~crashed
    /\ uiPc = "idle"
    /\ queue # <<>>
    /\ Head(queue).kind = "list"
    /\ view' = [count |-> Cardinality(deviceMap), list |-> Head(queue).list]
    /\ spinner' = {}
    /\ uiPc' = "collect"
    /\ saw' = deviceMap
    /\ raced' = FALSE
    /\ queue' = Tail(queue)
    /\ UNCHANGED <<service, clicks, calls, binder, deviceMap, targets, sent, open, lines,
                   crashed, adrift, overtaken, crossed>>

\* A HashMap changed while it is iterated over: ConcurrentModificationException,
\* or, when the change goes unnoticed, some of what was in it meanwhile.
CollectItems ==
    /\ ~crashed
    /\ uiPc = "collect"
    /\ \/ /\ spinner' = deviceMap
          /\ ~raced
          /\ UNCHANGED crashed
       \/ /\ raced
          /\ spinner' \in SUBSET saw
          /\ UNCHANGED crashed
       \/ /\ raced
          /\ crashed' = TRUE
          /\ UNCHANGED spinner
    /\ uiPc' = "idle"
    /\ saw' = {}
    /\ raced' = FALSE
    /\ UNCHANGED <<service, clicks, calls, binder, deviceMap, queue, targets, sent, open,
                   view, lines, adrift, overtaken, crossed>>

\* A click: its first line is shown at once.
Click ==
    /\ ~crashed
    /\ open
    /\ uiPc = "idle"
    /\ clicks < MaxClicks
    /\ clicks' = clicks + 1
    /\ calls' = calls + 1
    /\ lines' = lines \cup {calls + 1}
    /\ crossed' = (crossed \/ TextUnderWay)
    /\ UNCHANGED <<near, binder, deviceMap, queue, saw, raced, open, view, spinner,
                   crashed, adrift, overtaken>>

\* onGetStatus, onGetDeviceList, onEnable, and an onSend with nothing to send:
\* their lines and nothing else.
ClickForLines ==
    /\ Click
    /\ UNCHANGED <<registered, uiPc, targets, sent>>

\* onInit, onUninit, onRegister, onUnregister, onDiscovery, onStopDiscovery:
\* each calls the service, which may refuse, adds a line and clears the list.
ClickThatClears ==
    /\ Click
    /\ registered' \in BOOLEAN
    /\ uiPc' = "clear"
    /\ UNCHANGED <<targets, sent>>

clearDeviceList ==
    /\ ~crashed
    /\ uiPc = "clear"
    /\ deviceMap' = {}
    /\ view' = [count |-> 0, list |-> {}]
    /\ spinner' = {}
    /\ adrift' = adrift \cup deviceMap
    /\ uiPc' = "idle"
    /\ UNCHANGED <<service, clicks, calls, binder, queue, targets, sent, saw, raced, open,
                   lines, crashed, overtaken, crossed>>

\* doSend to the devices of that name, or onCancel of the sends to them.
doSend(name) ==
    /\ Click
    /\ targets' = {d \in deviceMap : BtName[d] = name}
    /\ uiPc' = "send"
    /\ UNCHANGED <<registered, sent>>

SendTo(d) ==
    /\ ~crashed
    /\ uiPc = "send"
    /\ d \in targets \ sent
    /\ sent' = sent \cup {d}
    /\ crossed' = (crossed \/ TextUnderWay)
    /\ UNCHANGED <<service, clicks, calls, binder, deviceMap, queue, uiPc, targets, saw,
                   raced, open, screen, crashed, adrift, overtaken>>

\* When no device had the name, the line that it is lost.
SendEnds ==
    /\ ~crashed
    /\ uiPc = "send"
    /\ sent = targets
    /\ uiPc' = "idle"
    /\ targets' = {}
    /\ sent' = {}
    /\ crossed' = (crossed \/ (targets = {} /\ TextUnderWay))
    /\ UNCHANGED <<service, clicks, calls, binder, deviceMap, queue, saw, raced,
                   open, screen, crashed, adrift, overtaken>>

onCancel ==
    /\ Click
    /\ uiPc' = "cancel"
    /\ UNCHANGED <<registered, targets, sent>>

\* The service is asked for its devices and told to cancel those of the name.
CancelEnds ==
    /\ ~crashed
    /\ uiPc = "cancel"
    /\ uiPc' = "idle"
    /\ crossed' = (crossed \/ TextUnderWay)
    /\ UNCHANGED <<service, clicks, calls, binder, deviceMap, queue, targets, sent, saw,
                   raced, open, screen, crashed, adrift, overtaken>>

onDestroy ==
    /\ ~crashed
    /\ open
    /\ uiPc = "idle"
    /\ open' = FALSE
    /\ registered' = FALSE
    /\ UNCHANGED <<near, clicks, calls, binder, deviceMap, queue, uiPc, targets, sent, saw,
                   raced, screen, crashed, adrift, overtaken, crossed>>

-----------------------------------------------------------------------------
Service ==
    \/ \E t \in Binders, d \in Devices : Find(t, d) \/ Lose(t, d)
    \/ \E t \in Binders : Notify(t)
    \/ \E d \in Devices : ChangeUnannounced(d)

BinderStep(t) ==
    \/ ReadHistory(t)
    \/ PostHistory(t)
    \/ ChangeMap(t)
    \/ updateDeviceList(t)

\* The looper of the UI thread, and the rest of a click handler once begun.
UiStep ==
    \/ RunHistory
    \/ RunDeviceList
    \/ CollectItems
    \/ clearDeviceList
    \/ \E d \in Devices : SendTo(d)
    \/ SendEnds
    \/ CancelEnds

User ==
    \/ ClickForLines
    \/ ClickThatClears
    \/ \E d \in Devices : doSend(BtName[d])
    \/ onCancel
    \/ onDestroy

Next == Service \/ (\E t \in Binders : BinderStep(t)) \/ UiStep \/ User

Fairness == WF_vars(UiStep) /\ \A t \in Binders : WF_vars(BinderStep(t))

Spec == Init /\ [][Next]_vars

FairSpec == Spec /\ Fairness

-----------------------------------------------------------------------------
(***************************************************************************)
(* Properties.                                                             *)
(***************************************************************************)

\* No callback, no runnable and no click is under way.
Quiet ==
    /\ \A t \in Binders : pc[t] = "idle"
    /\ queue = <<>>
    /\ uiPc = "idle"

\* deviceMap holds what the service sees, for every device whose announcements
\* have all been applied, in the order they were made, with nothing cleared and
\* nothing changed unannounced since (onDeviceFound, onDeviceDisappeared).
MapFollowsService ==
    \A d \in Devices \ (adrift \cup overtaken) :
        Unapplied(d) = {} => (d \in deviceMap <=> d \in near)

\* However the runnables, the clicks and the unlocked collection interleave,
\* once nothing is under way the spinner offers the devices of the map and the
\* quantity shown is theirs: whoever changes the map posts a runnable after it.
\* The list shown is theirs too, unless the map is empty: a click clears the
\* screen at once and so overtakes lists that were posted before it.
BoardSettles ==
    Quiet /\ ~crashed => /\ spinner = deviceMap
                         /\ view.count = Cardinality(deviceMap)
                         /\ deviceMap # {} => view.list = deviceMap

\* The history has the lines of every call, so long as no text for it was put
\* together while another was under way (updateStatusHistory).
HistoryIsComplete ==
    Quiet /\ ~crossed => lines = 1..calls

\* The devices doSend goes through stay in the map to the end: that is what it
\* holds the lock for.
TargetsStayListed ==
    uiPc = "send" => targets \subseteq deviceMap

\* The spinner catches up with the map again and again, or the process has died.
SpinnerCatchesUp ==
    []<>(spinner = deviceMap \/ crashed)
=============================================================================
