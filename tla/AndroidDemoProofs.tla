-------------------------- MODULE AndroidDemoProofs --------------------------
(***************************************************************************)
(* Theorems about AndroidDemo, for any set of devices and of binder        *)
(* threads and any number of clicks and callbacks.  The invariant is a     *)
(* conjunction of parts that are inductive one after the other; each has a *)
(* lemma, with a step for every kind of action that can disturb it.        *)
(***************************************************************************)
EXTENDS AndroidDemo, TLAPS, FiniteSetTheorems

\* Callbacks in progress are numbered apart, and the ones that go on to the
\* map are about a device.
Numbered ==
    \A t \in Binders : pc[t] # "idle" =>
        /\ job[t].no \in 1..calls
        /\ \A u \in Binders \ {t} : pc[u] # "idle" => job[u].no # job[t].no
        /\ pc[t] \in {"map", "list"} => job[t].what # "note"
        /\ job[t].what = "note" => job[t].about = {}

\* No callback about d is newer than the one t serves.
IsNewest(t, d) == \A u \in Unapplied(d) : job[u].no <= job[t].no

\* MapFollowsService, and what makes it so: the newest callback that has yet to
\* change the map says what the service sees.
NewestIsTrue ==
    \A d \in Devices \ (adrift \cup overtaken) :
        /\ Unapplied(d) = {} => (d \in deviceMap <=> d \in near)
        /\ \A t \in Unapplied(d) :
               IsNewest(t, d) => (job[t].what = "found" <=> d \in near)

\* A runnable that will refresh the list is posted, or about to be.
RefreshComes ==
    \/ \E t \in Binders : pc[t] = "list"
    \/ \E i \in 1..Len(queue) : queue[i].kind = "list"

\* Unless a refresh comes, what is on the screen is the map, or the collection
\* in progress will make it so.
ScreenOrRefresh ==
    crashed \/ RefreshComes \/ /\ view.count = Cardinality(deviceMap)
                               /\ IF uiPc = "collect" THEN ~raced
                                                      ELSE spinner = deviceMap

\* The newest runnable with a list, of those posted.
IsNewestList(i) ==
    /\ queue[i].kind = "list"
    /\ \A j \in 1..Len(queue) : j > i => queue[j].kind # "list"

\* Unless a list is about to be put together, the newest list is that of the
\* map.  An empty map says nothing: a click may have cleared it since.
ListOrRefresh ==
    \/ deviceMap = {}
    \/ \E t \in Binders : pc[t] = "list"
    \/ /\ \A i \in 1..Len(queue) : IsNewestList(i) => queue[i].list = deviceMap
       /\ (\A i \in 1..Len(queue) : queue[i].kind # "list") => view.list = deviceMap

\* The calls whose lines have been put into a text.
Told == (1..calls) \ {job[t].no : t \in {u \in Binders : pc[u] = "line"}}

\* Until two texts cross, one is under way at most, and it has every line.
OneTextUnderWay ==
    ~crossed =>
        /\ ~TextUnderWay => lines = Told
        /\ \A t \in Binders : pc[t] = "post" =>
               /\ text[t] = Told
               /\ \A u \in Binders \ {t} : pc[u] # "post"
               /\ \A i \in 1..Len(queue) : queue[i].kind # "line"
        /\ \A i \in 1..Len(queue) : queue[i].kind = "line" =>
               /\ queue[i].text = Told
               /\ \A t \in Binders : pc[t] # "post"
               /\ \A j \in 1..Len(queue) : queue[j].kind = "line" => i = j

IInv ==
    /\ TypeOK
    /\ Numbered
    /\ NewestIsTrue
    /\ ScreenOrRefresh
    /\ ListOrRefresh
    /\ OneTextUnderWay
    /\ TargetsStayListed

-----------------------------------------------------------------------------
(***************************************************************************)
(* Types.                                                                  *)
(***************************************************************************)

\* The initial values have their types.
LEMMA InitTyped == Init => TypeOK
<1> SUFFICES ASSUME Init PROVE TypeOK
  OBVIOUS
<1> USE DEF Init
<1>1. clicks \in 0..MaxClicks /\ calls \in clicks..(clicks + MaxCallbacks)
  BY BoundsAssumption DEF BoundsAssumption
<1>2. NoJob \in [what : {"found", "lost", "note"}, about : SUBSET Devices,
                 no : Calls \cup {0}]
  BY DEF NoJob
<1>3. /\ pc \in [Binders -> {"idle", "line", "post", "map", "list"}]
      /\ job \in [Binders -> [what : {"found", "lost", "note"},
                              about : SUBSET Devices, no : Calls \cup {0}]]
      /\ text \in [Binders -> SUBSET Calls]
  BY <1>2
<1>4. queue \in Seq(Runnables)
  OBVIOUS
<1>5. view \in [count : Nat, list : SUBSET Devices]
  OBVIOUS
<1> QED
  BY <1>1, <1>3, <1>4, <1>5 DEF TypeOK

\* The quantity is a number: a set of devices is finite.
LEMMA QuantityIsNat == deviceMap \subseteq Devices => Cardinality(deviceMap) \in Nat
BY DevicesAssumption, FS_Subset, FS_CardinalityType DEF DevicesAssumption

\* The number of the next call is one of Calls.
LEMMA NextCall ==
    ASSUME TypeOK
    PROVE  /\ calls < clicks + MaxCallbacks => calls + 1 \in clicks..(clicks + MaxCallbacks)
           /\ calls < clicks + MaxCallbacks \/ clicks < MaxClicks => calls + 1 \in Calls
           /\ clicks < MaxClicks =>
                  /\ clicks + 1 \in 0..MaxClicks
                  /\ calls + 1 \in (clicks + 1)..((clicks + 1) + MaxCallbacks)
           /\ 1..calls \subseteq Calls
BY BoundsAssumption DEF BoundsAssumption, TypeOK, Calls

\* The service keeps the types.
LEMMA ServiceTyped ==
    ASSUME TypeOK, Service
    PROVE  TypeOK'
<1> USE NextCall DEF TypeOK, service, binder, ui, screen
<1>1. ASSUME NEW t \in Binders, NEW d \in Devices, Find(t, d)
      PROVE  TypeOK'
  BY <1>1 DEF Find, Serve
<1>2. ASSUME NEW t \in Binders, NEW d \in Devices, Lose(t, d)
      PROVE  TypeOK'
  BY <1>2 DEF Lose, Serve
<1>3. ASSUME NEW t \in Binders, Notify(t)
      PROVE  TypeOK'
  BY <1>3 DEF Notify, Serve
<1>4. ASSUME NEW d \in Devices, ChangeUnannounced(d)
      PROVE  TypeOK'
  BY <1>4 DEF ChangeUnannounced
<1> QED
  BY <1>1, <1>2, <1>3, <1>4 DEF Service

\* The binder threads keep the types: a text is made of calls that were made.
LEMMA BinderTyped ==
    ASSUME TypeOK, Numbered, NEW t \in Binders, BinderStep(t)
    PROVE  TypeOK'
<1> USE DEF TypeOK, service, binder, ui, screen
<1>1. CASE ReadHistory(t)
  <2>1. job[t].no \in Calls
    BY <1>1, NextCall DEF ReadHistory, Numbered
  <2> QED
    BY <1>1, <2>1 DEF ReadHistory
<1>2. CASE PostHistory(t)
  <2>1. [kind |-> "line", text |-> text[t]] \in Runnables
    BY DEF Runnables
  <2>2. queue' \in Seq(Runnables)
    BY <1>2, <2>1 DEF PostHistory
  <2>3. NoJob \in [what : {"found", "lost", "note"}, about : SUBSET Devices,
                   no : Calls \cup {0}]
    BY DEF NoJob
  <2> QED
    BY <1>2, <2>2, <2>3, ZenonT(60) DEF PostHistory, Return
<1>3. CASE ChangeMap(t)
  BY <1>3 DEF ChangeMap, MapAfter
<1>4. CASE updateDeviceList(t)
  <2>1. [kind |-> "list", list |-> deviceMap] \in Runnables
    BY DEF Runnables
  <2>2. queue' \in Seq(Runnables)
    BY <1>4, <2>1 DEF updateDeviceList
  <2>3. NoJob \in [what : {"found", "lost", "note"}, about : SUBSET Devices,
                   no : Calls \cup {0}]
    BY DEF NoJob
  <2> QED
    BY <1>4, <2>2, <2>3 DEF updateDeviceList, Return
<1> QED
  BY <1>1, <1>2, <1>3, <1>4 DEF BinderStep

\* The UI thread and the user keep the types.
LEMMA UiTyped ==
    ASSUME TypeOK, UiStep \/ User
    PROVE  TypeOK'
<1> USE DEF TypeOK, service, binder, ui, screen
<1>1. ASSUME queue # <<>>
      PROVE  Head(queue) \in Runnables /\ Tail(queue) \in Seq(Runnables)
  BY <1>1
<1>2. CASE RunHistory
  <2>1. Head(queue).text \subseteq Calls
    BY <1>1, <1>2 DEF RunHistory, Runnables
  <2> QED
    BY <1>1, <1>2, <2>1 DEF RunHistory
<1>3. CASE RunDeviceList
  <2>1. Head(queue).list \subseteq Devices
    BY <1>1, <1>3 DEF RunDeviceList, Runnables
  <2> QED
    BY <1>1, <1>3, <2>1, QuantityIsNat DEF RunDeviceList
<1>4. CASE CollectItems
  BY <1>4 DEF CollectItems
<1>5. CASE clearDeviceList
  BY <1>5 DEF clearDeviceList
<1>6. CASE (\E d \in Devices : SendTo(d)) \/ SendEnds \/ CancelEnds
  BY <1>6 DEF SendTo, SendEnds, CancelEnds
<1>7. CASE ClickForLines \/ ClickThatClears \/ onCancel
  BY <1>7, NextCall DEF ClickForLines, ClickThatClears, onCancel, Click
<1>8. ASSUME NEW d \in Devices, doSend(BtName[d])
      PROVE  TypeOK'
  BY <1>8, NextCall DEF doSend, Click
<1>9. CASE onDestroy
  BY <1>9 DEF onDestroy
<1> QED
  BY <1>2, <1>3, <1>4, <1>5, <1>6, <1>7, <1>8, <1>9 DEF UiStep, User

\* Every step keeps the types.
LEMMA StepTyped ==
    ASSUME TypeOK, Numbered, [Next]_vars
    PROVE  TypeOK'
<1>1. CASE UNCHANGED vars
  BY <1>1 DEF vars, TypeOK, service, binder, ui, screen
<1> QED
  BY <1>1, ServiceTyped, BinderTyped, UiTyped DEF Next

-----------------------------------------------------------------------------
(***************************************************************************)
(* The other parts of the invariant.                                       *)
(***************************************************************************)

\* A step of no binder thread and of no callback leaves the threads alone.
LEMMA QuietSteps ==
    ASSUME (\E d \in Devices : ChangeUnannounced(d)) \/ UiStep \/ User \/ UNCHANGED vars
    PROVE  UNCHANGED <<pc, job, text>>
BY DEF UiStep, User, vars, binder, ChangeUnannounced, RunHistory, RunDeviceList,
       CollectItems, clearDeviceList, SendTo, SendEnds, CancelEnds, ClickForLines,
       ClickThatClears, doSend, onCancel, onDestroy, Click

\* Callbacks in progress stay numbered apart: a new one gets a number above all.
LEMMA StepNumbered ==
    ASSUME TypeOK, Numbered, [Next]_vars
    PROVE  Numbered'
<1> USE DEF Numbered
<1>1. calls \in Nat /\ (calls' = calls \/ calls' = calls + 1)
  <2>1. calls \in Nat
    BY BoundsAssumption DEF BoundsAssumption, TypeOK
  <2>2. CASE Service
    BY <2>1, <2>2 DEF Service, Find, Lose, Notify, Serve, ChangeUnannounced
  <2>3. CASE \E t \in Binders : BinderStep(t)
    BY <2>1, <2>3 DEF BinderStep, ReadHistory, PostHistory, ChangeMap, updateDeviceList
  <2>4. CASE UiStep \/ User \/ UNCHANGED vars
    BY <2>1, <2>4 DEF UiStep, User, vars, RunHistory, RunDeviceList, CollectItems,
       clearDeviceList, SendTo, SendEnds, CancelEnds, ClickForLines, ClickThatClears,
       doSend, onCancel, onDestroy, Click
  <2> QED
    BY <2>1, <2>2, <2>3, <2>4 DEF Next
<1>2. ASSUME NEW t \in Binders, NEW what \in {"found", "lost", "note"},
             NEW about \in SUBSET Devices, Serve(t, what, about),
             what = "note" => about = {}
      PROVE  Numbered'
  BY <1>1, <1>2 DEF Serve, TypeOK
<1>3. CASE Service
  <2>1. ASSUME NEW t \in Binders, NEW d \in Devices, Find(t, d) \/ Lose(t, d)
        PROVE  Numbered'
    BY <1>2, <2>1 DEF Find, Lose
  <2>2. ASSUME NEW t \in Binders, Notify(t)
        PROVE  Numbered'
    BY <1>2, <2>2 DEF Notify
  <2>3. ASSUME NEW d \in Devices, ChangeUnannounced(d)
        PROVE  Numbered'
    BY <2>3, <1>1, QuietSteps
  <2> QED
    BY <1>3, <2>1, <2>2, <2>3 DEF Service
<1>4. ASSUME NEW t \in Binders, BinderStep(t)
      PROVE  Numbered'
  <2>1. CASE ReadHistory(t)
    BY <1>1, <2>1 DEF ReadHistory, TypeOK
  <2>2. CASE PostHistory(t)
    BY <1>1, <2>2, ZenonT(60) DEF PostHistory, Return, TypeOK
  <2>3. CASE ChangeMap(t)
    BY <1>1, <2>3 DEF ChangeMap, TypeOK
  <2>4. CASE updateDeviceList(t)
    BY <1>1, <2>4 DEF updateDeviceList, Return, TypeOK
  <2> QED
    BY <1>4, <2>1, <2>2, <2>3, <2>4 DEF BinderStep
<1>5. CASE UiStep \/ User \/ UNCHANGED vars
  BY <1>1, <1>5, QuietSteps
<1> QED
  BY <1>3, <1>4, <1>5 DEF Next

\* The targets of a send stay in the map: only the UI thread, which is sending,
\* could take them out without the lock.
LEMMA StepListed ==
    ASSUME TypeOK, TargetsStayListed, [Next]_vars
    PROVE  TargetsStayListed'
<1> USE DEF TargetsStayListed
<1>1. CASE Service
  BY <1>1 DEF Service, Find, Lose, Notify, Serve, ChangeUnannounced, ui
<1>2. CASE \E t \in Binders : BinderStep(t)
  BY <1>2 DEF BinderStep, ReadHistory, PostHistory, ChangeMap, updateDeviceList, ui,
     LockHeld
<1>3. CASE UiStep
  BY <1>3 DEF UiStep, RunHistory, RunDeviceList, CollectItems, clearDeviceList, SendTo,
     SendEnds, CancelEnds, ui
<1>4. CASE User
  BY <1>4 DEF User, ClickForLines, ClickThatClears, doSend, onCancel, onDestroy, Click
<1> QED
  BY <1>1, <1>2, <1>3, <1>4 DEF Next, vars, ui

\* Announcements applied in the order they were made keep the map true.
LEMMA StepNewestIsTrue ==
    ASSUME TypeOK, Numbered, NewestIsTrue, [Next]_vars
    PROVE  NewestIsTrue'
<1> USE DEF NewestIsTrue
<1>1. ASSUME NEW t \in Binders, NEW what \in {"found", "lost"}, NEW d \in Devices,
             Serve(t, what, {d}),
             near' = IF what = "found" THEN near \cup {d} ELSE near \ {d},
             adrift' = adrift \ {d}
      PROVE  NewestIsTrue'
  <2> SUFFICES ASSUME NEW e \in Devices \ (adrift' \cup overtaken')
               PROVE  /\ Unapplied(e)' = {} => (e \in deviceMap' <=> e \in near')
                      /\ \A u \in Unapplied(e)' :
                             IsNewest(u, e)' => (job'[u].what = "found" <=> e \in near')
    OBVIOUS
  <2>1. CASE e = d
    <3>1. t \in Unapplied(d)'
      BY <1>1 DEF Serve, Unapplied, TypeOK
    <3>2. job'[t].no = calls + 1 /\ job'[t].what = what
      BY <1>1 DEF Serve, TypeOK
    <3>3. ASSUME NEW u \in Unapplied(d)', u # t
          PROVE  job'[u].no < calls + 1 /\ job'[u].no \in Int
      BY <1>1, <3>3 DEF Serve, Unapplied, TypeOK, Numbered
    <3>4. calls \in Int
      BY BoundsAssumption DEF BoundsAssumption, TypeOK
    <3>5. ASSUME NEW u \in Unapplied(d)', IsNewest(u, d)'
          PROVE  u = t
      BY <3>1, <3>2, <3>3, <3>4, <3>5 DEF IsNewest
    <3> QED
      BY <1>1, <2>1, <3>1, <3>2, <3>5
  <2>2. CASE e # d
    <3>1. Unapplied(e)' = Unapplied(e)
      BY <1>1, <2>2 DEF Serve, Unapplied, TypeOK
    <3>2. \A u \in Unapplied(e) : u # t
      BY <1>1 DEF Serve, Unapplied
    <3>3. \A u \in Unapplied(e) : job'[u] = job[u]
      BY <1>1, <3>2 DEF Serve, Unapplied, TypeOK
    <3>4. e \notin adrift \cup overtaken /\ (e \in near' <=> e \in near) /\ deviceMap' = deviceMap
      BY <1>1, <2>2 DEF Serve
    <3> QED
      BY <3>1, <3>3, <3>4 DEF IsNewest
  <2> QED
    BY <2>1, <2>2
<1>2. ASSUME NEW t \in Binders, NEW d \in Devices, Find(t, d) \/ Lose(t, d)
      PROVE  NewestIsTrue'
  BY <1>1, <1>2 DEF Find, Lose
<1>3. ASSUME UNCHANGED <<near, overtaken, deviceMap>>, adrift' = adrift,
             \A e \in Devices : Unapplied(e)' = Unapplied(e),
             \A e \in Devices : \A u \in Unapplied(e) : job'[u] = job[u]
      PROVE  NewestIsTrue'
  BY <1>3 DEF IsNewest
<1>4. ASSUME NEW t \in Binders, Notify(t)
      PROVE  NewestIsTrue'
  <2>1. \A e \in Devices : Unapplied(e)' = Unapplied(e) /\ t \notin Unapplied(e)
    BY <1>4 DEF Notify, Serve, Unapplied, TypeOK
  <2>2. \A e \in Devices : \A u \in Unapplied(e) : job'[u] = job[u]
    BY <1>4, <2>1 DEF Notify, Serve, Unapplied, TypeOK
  <2> QED
    BY <1>3, <1>4, <2>1, <2>2 DEF Notify, Serve
<1>5. ASSUME NEW d \in Devices, ChangeUnannounced(d)
      PROVE  NewestIsTrue'
  BY <1>5 DEF ChangeUnannounced, Unapplied, IsNewest, binder
<1>6. ASSUME NEW t \in Binders, ReadHistory(t)
      PROVE  NewestIsTrue'
  <2>1. \A e \in Devices : Unapplied(e)' = Unapplied(e)
    BY <1>6 DEF ReadHistory, Unapplied, TypeOK
  <2> QED
    BY <1>3, <1>6, <2>1 DEF ReadHistory, service
<1>7. ASSUME NEW t \in Binders, PostHistory(t)
      PROVE  NewestIsTrue'
  <2>1. job[t].what = "note" => job[t].about = {}
    BY <1>7 DEF PostHistory, Numbered
  <2>2. \A e \in Devices : Unapplied(e)' = Unapplied(e)
    BY <1>7, <2>1 DEF PostHistory, Return, Unapplied, TypeOK, NoJob
  <2>3. \A e \in Devices : \A u \in Unapplied(e) : job'[u] = job[u]
    BY <1>7, <2>1 DEF PostHistory, Return, Unapplied, TypeOK
  <2> QED
    BY <1>3, <1>7, <2>2, <2>3 DEF PostHistory, service
<1>8. ASSUME NEW t \in Binders, ChangeMap(t)
      PROVE  NewestIsTrue'
  <2> SUFFICES ASSUME NEW e \in Devices \ (adrift' \cup overtaken')
               PROVE  /\ Unapplied(e)' = {} => (e \in deviceMap' <=> e \in near')
                      /\ \A u \in Unapplied(e)' :
                             IsNewest(u, e)' => (job'[u].what = "found" <=> e \in near')
    OBVIOUS
  <2>1. Unapplied(e)' = Unapplied(e) \ {t} /\ UNCHANGED <<job, near, adrift>>
    BY <1>8 DEF ChangeMap, Unapplied, TypeOK, service
  <2>2. e \notin adrift \cup overtaken
    BY <1>8 DEF ChangeMap
  <2>3. CASE e \notin job[t].about
    <3>1. t \notin Unapplied(e) /\ (e \in deviceMap' <=> e \in deviceMap)
      BY <1>8, <2>3 DEF ChangeMap, MapAfter, Unapplied
    <3> QED
      BY <2>1, <2>2, <3>1 DEF IsNewest
  <2>4. CASE e \in job[t].about
    <3>1. t \in Unapplied(e) /\ (e \in deviceMap' <=> job[t].what = "found")
      BY <1>8, <2>4 DEF ChangeMap, MapAfter, Unapplied
    <3>2. \A u \in Unapplied(e) : ~(job[u].no < job[t].no)
      BY <1>8, <2>4 DEF ChangeMap, Overtakes
    <3>3. \A u \in Unapplied(e) : job[u].no \in Int
      BY DEF Unapplied, Numbered
    <3>4. CASE Unapplied(e) \ {t} = {}
      <4>1. IsNewest(t, e)
        BY <3>1, <3>3, <3>4 DEF IsNewest
      <4> QED
        BY <2>1, <2>2, <3>1, <3>4, <4>1
    <3>5. ASSUME NEW u \in Unapplied(e)', IsNewest(u, e)'
          PROVE  job'[u].what = "found" <=> e \in near'
      <4>1. u \in Unapplied(e) /\ job[t].no <= job[u].no
        BY <2>1, <3>1, <3>2, <3>3
      <4>2. IsNewest(u, e)
        BY <2>1, <3>5, <4>1 DEF IsNewest
      <4> QED
        BY <2>1, <2>2, <4>1, <4>2
    <3> QED
      BY <2>1, <3>4, <3>5
  <2> QED
    BY <2>3, <2>4
<1>9. ASSUME NEW t \in Binders, updateDeviceList(t)
      PROVE  NewestIsTrue'
  <2>1. \A e \in Devices : Unapplied(e)' = Unapplied(e) /\ t \notin Unapplied(e)
    BY <1>9 DEF updateDeviceList, Return, Unapplied, TypeOK
  <2>2. \A e \in Devices : \A u \in Unapplied(e) : job'[u] = job[u]
    BY <1>9, <2>1 DEF updateDeviceList, Return, TypeOK, Unapplied
  <2> QED
    BY <1>3, <1>9, <2>1, <2>2 DEF updateDeviceList, service
<1>10. CASE clearDeviceList
  BY <1>10 DEF clearDeviceList, Unapplied, IsNewest, binder, service
<1>11. ASSUME UiStep \/ User \/ UNCHANGED vars, ~clearDeviceList
       PROVE  NewestIsTrue'
  <2>1. UNCHANGED <<near, overtaken, deviceMap, adrift>>
    BY <1>11 DEF UiStep, User, vars, service, RunHistory, RunDeviceList, CollectItems,
       SendTo, SendEnds, CancelEnds, ClickForLines, ClickThatClears, doSend, onCancel,
       onDestroy, Click
  <2>2. UNCHANGED <<pc, job, text>>
    BY <1>11, QuietSteps
  <2> QED
    BY <1>3, <2>1, <2>2 DEF Unapplied
<1> QED
  BY <1>2, <1>4, <1>5, <1>6, <1>7, <1>8, <1>9, <1>10, <1>11 DEF Next, Service, BinderStep

\* Posting a runnable, element by element.
LEMMA AppendStep ==
    ASSUME queue \in Seq(Runnables), NEW r \in Runnables, queue' = Append(queue, r)
    PROVE  /\ Len(queue) \in Nat
           /\ Len(queue') = Len(queue) + 1
           /\ \A i \in 1..Len(queue) : i \in 1..Len(queue') /\ queue'[i] = queue[i]
           /\ queue'[Len(queue) + 1] = r
  OBVIOUS

\* Running the oldest runnable, element by element.
LEMMA TailStep ==
    ASSUME queue \in Seq(Runnables), queue # <<>>, queue' = Tail(queue)
    PROVE  /\ Len(queue) \in Nat \ {0}
           /\ Len(queue') = Len(queue) - 1
           /\ \A i \in 1..Len(queue') : queue'[i] = queue[i + 1]
           /\ Head(queue) = queue[1]
  OBVIOUS

\* Whoever changes the map refreshes the list after it.
LEMMA StepScreenOrRefresh ==
    ASSUME TypeOK, ScreenOrRefresh, [Next]_vars
    PROVE  ScreenOrRefresh'
<1> USE DEF ScreenOrRefresh
<1>0. queue \in Seq(Runnables)
  BY DEF TypeOK
<1>1. ASSUME UNCHANGED <<deviceMap, view, spinner, crashed, raced, queue>>,
             uiPc' = uiPc \/ (uiPc # "collect" /\ uiPc' # "collect"),
             \A t \in Binders : pc[t] = "list" => pc'[t] = "list"
      PROVE  ScreenOrRefresh'
  BY <1>1 DEF RefreshComes
<1>2. CASE Service
  <2>1. UNCHANGED <<deviceMap, view, spinner, crashed, raced, queue, uiPc>>
    BY <1>2 DEF Service, Find, Lose, Notify, Serve, ChangeUnannounced, ui, screen
  <2>2. \A t \in Binders : pc[t] = "list" => pc'[t] = "list"
    BY <1>2 DEF Service, Find, Lose, Notify, Serve, ChangeUnannounced, binder, TypeOK
  <2> QED
    BY <1>1, <2>1, <2>2
<1>3. ASSUME NEW t \in Binders, ReadHistory(t)
      PROVE  ScreenOrRefresh'
  BY <1>1, <1>3 DEF ReadHistory, ui, screen, TypeOK
<1>4. ASSUME NEW t \in Binders, PostHistory(t)
      PROVE  ScreenOrRefresh'
  <2>1. queue' = Append(queue, [kind |-> "line", text |-> text[t]])
    BY <1>4 DEF PostHistory
  <2>2. [kind |-> "line", text |-> text[t]] \in Runnables
    BY DEF Runnables, TypeOK
  <2>3. \A u \in Binders : pc[u] = "list" => pc'[u] = "list"
    BY <1>4 DEF PostHistory, Return, TypeOK
  <2>4. \A i \in 1..Len(queue) : i \in 1..Len(queue') /\ queue'[i] = queue[i]
    BY <1>0, <2>1, <2>2, AppendStep, Zenon
  <2>5. RefreshComes => RefreshComes'
    BY <2>3, <2>4 DEF RefreshComes
  <2> QED
    BY <1>4, <2>5 DEF PostHistory, ui, screen
<1>5. ASSUME NEW t \in Binders, ChangeMap(t)
      PROVE  ScreenOrRefresh'
  BY <1>5 DEF ChangeMap, RefreshComes, TypeOK
<1>6. ASSUME NEW t \in Binders, updateDeviceList(t)
      PROVE  ScreenOrRefresh'
  <2>1. [kind |-> "list", list |-> deviceMap] \in Runnables
    BY DEF Runnables, TypeOK
  <2>2. queue' = Append(queue, [kind |-> "list", list |-> deviceMap])
    BY <1>6 DEF updateDeviceList
  <2>3. /\ Len(queue) \in Nat /\ Len(queue') = Len(queue) + 1
        /\ queue'[Len(queue) + 1] = [kind |-> "list", list |-> deviceMap]
    BY <1>0, <2>1, <2>2, AppendStep, Zenon
  <2> QED
    BY <2>3 DEF RefreshComes
<1>7. CASE RunHistory
  <2>1. queue # <<>> /\ queue' = Tail(queue) /\ Head(queue).kind = "line"
    BY <1>7 DEF RunHistory
  <2>2. /\ Len(queue) \in Nat \ {0} /\ Len(queue') = Len(queue) - 1
        /\ \A i \in 1..Len(queue') : queue'[i] = queue[i + 1]
        /\ queue[1].kind = "line"
    BY <1>0, <2>1, TailStep, Zenon
  <2>3. ASSUME NEW i \in 1..Len(queue), queue[i].kind = "list"
        PROVE  i - 1 \in 1..Len(queue') /\ queue'[i - 1].kind = "list"
    <3> HIDE DEF ScreenOrRefresh
    <3>1. "list" # "line"
      OBVIOUS
    <3>2. i # 1
      BY <2>2, <2>3, <3>1, Zenon
    <3>3. i - 1 \in 1..Len(queue') /\ (i - 1) + 1 = i
      BY <2>2, <3>2
    <3>4. queue'[i - 1] = queue[(i - 1) + 1]
      BY <2>2, <3>3, Zenon
    <3> QED
      BY <2>3, <3>3, <3>4, Zenon
  <2>4. RefreshComes => RefreshComes'
    BY <1>7, <2>3 DEF RefreshComes, RunHistory, binder
  <2> QED
    BY <1>7, <2>4 DEF RunHistory, ui
<1>8. CASE RunDeviceList
  BY <1>8 DEF RunDeviceList
<1>9. CASE CollectItems
  BY <1>9 DEF CollectItems, RefreshComes, binder
<1>10. CASE clearDeviceList
  <2>1. Cardinality({}) = 0
    BY FS_EmptySet
  <2> QED
    BY <1>10, <2>1 DEF clearDeviceList
<1>11. CASE (\E d \in Devices : SendTo(d)) \/ SendEnds \/ CancelEnds
  BY <1>1, <1>11 DEF SendTo, SendEnds, CancelEnds, screen, binder
<1>12. CASE User \/ UNCHANGED vars
  BY <1>1, <1>12 DEF User, vars, ClickForLines, ClickThatClears, doSend, onCancel,
     onDestroy, Click, screen, binder, ui
<1> QED
  BY <1>2, <1>3, <1>4, <1>5, <1>6, <1>7, <1>8, <1>9, <1>10, <1>11, <1>12
  DEF Next, BinderStep, UiStep

\* A list is put together after the change of the map that it is posted for.
LEMMA StepListOrRefresh ==
    ASSUME TypeOK, ListOrRefresh, [Next]_vars
    PROVE  ListOrRefresh'
<1>0. queue \in Seq(Runnables)
  BY DEF TypeOK
<1>1. ASSUME UNCHANGED <<deviceMap, view, queue>>,
             \A t \in Binders : pc[t] = "list" => pc'[t] = "list"
      PROVE  ListOrRefresh'
  BY <1>1 DEF ListOrRefresh, IsNewestList
<1>2. CASE Service
  <2>1. UNCHANGED <<deviceMap, view, queue>>
    BY <1>2 DEF Service, Find, Lose, Notify, Serve, ChangeUnannounced, ui, screen
  <2>2. \A t \in Binders : pc[t] = "list" => pc'[t] = "list"
    BY <1>2 DEF Service, Find, Lose, Notify, Serve, ChangeUnannounced, binder, TypeOK
  <2> QED
    BY <1>1, <2>1, <2>2
<1>3. ASSUME NEW t \in Binders, ReadHistory(t)
      PROVE  ListOrRefresh'
  BY <1>1, <1>3 DEF ReadHistory, ui, screen, TypeOK
<1>4. ASSUME NEW t \in Binders, PostHistory(t)
      PROVE  ListOrRefresh'
  <2>1. queue' = Append(queue, [kind |-> "line", text |-> text[t]])
        /\ UNCHANGED <<deviceMap, view>>
    BY <1>4 DEF PostHistory, screen
  <2>2. [kind |-> "line", text |-> text[t]] \in Runnables
    BY DEF Runnables, TypeOK
  <2>3. \A u \in Binders : pc[u] = "list" => pc'[u] = "list"
    BY <1>4 DEF PostHistory, Return, TypeOK
  <2>4. /\ Len(queue) \in Nat /\ Len(queue') = Len(queue) + 1
        /\ \A i \in 1..Len(queue) : i \in 1..Len(queue') /\ queue'[i] = queue[i]
        /\ queue'[Len(queue) + 1] = [kind |-> "line", text |-> text[t]]
    BY <1>0, <2>1, <2>2, AppendStep, Zenon
  <2>5. \A i \in 1..Len(queue') : queue'[i].kind = "list" => i \in 1..Len(queue)
    BY <2>4
  <2> QED
    BY <2>1, <2>3, <2>4, <2>5 DEF ListOrRefresh, IsNewestList
<1>5. ASSUME NEW t \in Binders, ChangeMap(t)
      PROVE  ListOrRefresh'
  BY <1>5 DEF ChangeMap, ListOrRefresh, TypeOK
<1>6. ASSUME NEW t \in Binders, updateDeviceList(t)
      PROVE  ListOrRefresh'
  <2>1. [kind |-> "list", list |-> deviceMap] \in Runnables
    BY DEF Runnables, TypeOK
  <2>2. /\ Len(queue) \in Nat /\ Len(queue') = Len(queue) + 1
        /\ queue'[Len(queue) + 1] = [kind |-> "list", list |-> deviceMap]
        /\ deviceMap' = deviceMap
    <3>1. /\ queue' = Append(queue, [kind |-> "list", list |-> deviceMap])
          /\ deviceMap' = deviceMap
      BY <1>6 DEF updateDeviceList
    <3> QED
      BY <1>0, <2>1, <3>1, AppendStep, Zenon
  <2>3. Len(queue) + 1 \in 1..Len(queue')
    BY <2>2
  <2>4. ASSUME NEW i \in 1..Len(queue'), i # Len(queue) + 1
        PROVE  Len(queue) + 1 > i
    BY <2>2, <2>4
  <2> QED
    BY <2>2, <2>3, <2>4 DEF ListOrRefresh, IsNewestList
<1>7. CASE RunHistory \/ RunDeviceList
  <2>1. /\ queue # <<>> /\ queue' = Tail(queue)
        /\ UNCHANGED <<deviceMap, pc>>
        /\ \/ Head(queue).kind = "line" /\ view' = view
           \/ Head(queue).kind = "list" /\ view'.list = Head(queue).list
    BY <1>7 DEF RunHistory, RunDeviceList, binder
  <2>2. /\ Len(queue') = Len(queue) - 1
        /\ Len(queue) \in Nat \ {0}
        /\ \A i \in 1..Len(queue') : queue'[i] = queue[i + 1]
        /\ Head(queue) = queue[1]
    BY <1>0, <2>1, TailStep, Zenon
  <2>3. ASSUME NEW j \in 1..Len(queue), j # 1
        PROVE  j - 1 \in 1..Len(queue') /\ queue'[j - 1] = queue[j]
    <3>1. j - 1 \in 1..Len(queue') /\ (j - 1) + 1 = j
      BY <2>2, <2>3
    <3>2. queue'[j - 1] = queue[(j - 1) + 1]
      BY <2>2, <3>1
    <3> QED
      BY <3>1, <3>2
  <2>4. ASSUME NEW i \in 1..Len(queue'), IsNewestList(i)'
        PROVE  i + 1 \in 1..Len(queue) /\ IsNewestList(i + 1)
    <3>1. i + 1 \in 1..Len(queue) /\ queue[i + 1].kind = "list"
      BY <2>2, <2>4 DEF IsNewestList
    <3>2. ASSUME NEW j \in 1..Len(queue), j > i + 1
          PROVE  queue[j].kind # "list"
      <4>1. j # 1 /\ j - 1 > i
        BY <3>2
      <4>2. j - 1 \in 1..Len(queue') /\ queue'[j - 1] = queue[j]
        BY <2>3, <4>1
      <4> QED
        BY <2>4, <4>1, <4>2 DEF IsNewestList
    <3> QED
      BY <3>1, <3>2 DEF IsNewestList
  <2>5. ASSUME \A i \in 1..Len(queue') : queue'[i].kind # "list"
        PROVE  \A j \in 1..Len(queue) : queue[j].kind = "list" => j = 1
    BY <2>3, <2>5
  <2>6. ASSUME \A i \in 1..Len(queue') : queue'[i].kind # "list",
               Head(queue).kind = "list"
        PROVE  1 \in 1..Len(queue) /\ IsNewestList(1)
    BY <2>2, <2>5, <2>6 DEF IsNewestList
  <2>7. SUFFICES ASSUME deviceMap # {}, \A t \in Binders : pc[t] # "list"
                 PROVE  ListOrRefresh'
    BY <2>1 DEF ListOrRefresh
  <2>8. (\A i \in 1..Len(queue) : IsNewestList(i) => queue[i].list = deviceMap)'
    BY <2>1, <2>2, <2>4, <2>7 DEF ListOrRefresh
  <2>9. ((\A i \in 1..Len(queue) : queue[i].kind # "list") => view.list = deviceMap)'
    <3> SUFFICES ASSUME \A i \in 1..Len(queue') : queue'[i].kind # "list"
                 PROVE  view'.list = deviceMap
      BY <2>1
    <3>1. CASE Head(queue).kind = "list"
      BY <2>1, <2>2, <2>6, <2>7, <3>1 DEF ListOrRefresh
    <3>2. CASE Head(queue).kind = "line" /\ view' = view
      BY <2>2, <2>5, <2>7, <3>2 DEF ListOrRefresh
    <3> QED
      BY <2>1, <3>1, <3>2
  <2> QED
    BY <2>8, <2>9 DEF ListOrRefresh
<1>8. CASE clearDeviceList
  BY <1>8 DEF clearDeviceList, ListOrRefresh
<1>9. CASE CollectItems \/ (\E d \in Devices : SendTo(d)) \/ SendEnds \/ CancelEnds
  BY <1>1, <1>9 DEF CollectItems, SendTo, SendEnds, CancelEnds, screen, binder
<1>10. CASE User \/ UNCHANGED vars
  BY <1>1, <1>10 DEF User, vars, ClickForLines, ClickThatClears, doSend, onCancel,
     onDestroy, Click, screen, binder, ui
<1> QED
  BY <1>2, <1>3, <1>4, <1>5, <1>6, <1>7, <1>8, <1>9, <1>10 DEF Next, BinderStep, UiStep

\* The calls told of change only when a binder thread reads the history or a
\* click is made.
LEMMA ToldSteps ==
    ASSUME TypeOK, Numbered
    PROVE  /\ \A t \in Binders : ReadHistory(t) => Told' = Told \cup {job[t].no}
           /\ Click => Told' = Told \cup {calls + 1}
           /\ Service => Told' = Told
           /\ (\E t \in Binders : BinderStep(t) /\ ~ReadHistory(t)) => Told' = Told
           /\ UiStep \/ onDestroy \/ UNCHANGED vars => Told' = Told
<1> DEFINE Waiting == {u \in Binders : pc[u] = "line"}
<1>0. calls \in Nat
  BY BoundsAssumption DEF BoundsAssumption, TypeOK
<1>1. ASSUME NEW t \in Binders, ReadHistory(t)
      PROVE  Told' = Told \cup {job[t].no}
  <2>1. Waiting' = Waiting \ {t} /\ t \in Waiting /\ UNCHANGED <<job, calls>>
    BY <1>1 DEF ReadHistory, TypeOK
  <2>2. job[t].no \in 1..calls /\ \A u \in Waiting \ {t} : job[u].no # job[t].no
    BY <2>1 DEF Numbered
  <2> QED
    BY <2>1, <2>2 DEF Told
<1>2. ASSUME Click
      PROVE  Told' = Told \cup {calls + 1}
  <2>1. UNCHANGED <<pc, job>> /\ calls' = calls + 1
    BY <1>2 DEF Click, binder
  <2>2. \A u \in Waiting : job[u].no \in 1..calls
    BY DEF Numbered
  <2> QED
    BY <1>0, <2>1, <2>2 DEF Told
<1>3. ASSUME NEW t \in Binders, NEW what, NEW about, Serve(t, what, about)
      PROVE  Told' = Told
  <2>1. Waiting' = Waiting \cup {t} /\ t \notin Waiting /\ calls' = calls + 1
    BY <1>3 DEF Serve, TypeOK
  <2>2. job'[t].no = calls + 1 /\ \A u \in Waiting : job'[u] = job[u]
    BY <1>3, <2>1 DEF Serve, TypeOK
  <2>3. {job'[u].no : u \in Waiting'} = {job[u].no : u \in Waiting} \cup {calls + 1}
    BY <2>1, <2>2
  <2>4. \A S : (1..(calls + 1)) \ (S \cup {calls + 1}) = (1..calls) \ S
    BY <1>0
  <2> QED
    BY <2>1, <2>3, <2>4 DEF Told
<1>4. ASSUME Service
      PROVE  Told' = Told
  <2>1. CASE \E d \in Devices : ChangeUnannounced(d)
    BY <2>1 DEF ChangeUnannounced, binder, Told
  <2> QED
    BY <1>3, <1>4, <2>1 DEF Service, Find, Lose, Notify
<1>5. ASSUME NEW t \in Binders, BinderStep(t), ~ReadHistory(t)
      PROVE  Told' = Told
  <2>1. Waiting' = Waiting /\ t \notin Waiting /\ calls' = calls
    BY <1>5 DEF BinderStep, PostHistory, ChangeMap, updateDeviceList, Return, TypeOK
  <2>2. \A u \in Waiting : job'[u] = job[u]
    BY <1>5, <2>1 DEF BinderStep, PostHistory, ChangeMap, updateDeviceList, Return, TypeOK
  <2>3. {job'[u].no : u \in Waiting'} = {job[u].no : u \in Waiting}
    BY <2>1, <2>2
  <2> QED
    BY <2>1, <2>3 DEF Told
<1>6. ASSUME UiStep \/ onDestroy \/ UNCHANGED vars
      PROVE  Told' = Told
  BY <1>6 DEF Told, UiStep, vars, binder, RunHistory, RunDeviceList, CollectItems,
     clearDeviceList, SendTo, SendEnds, CancelEnds, onDestroy
<1> QED
  BY <1>1, <1>2, <1>4, <1>5, <1>6

\* While no two texts have crossed, the one under way or the one shown has every
\* line told of.
LEMMA StepOneTextUnderWay ==
    ASSUME TypeOK, Numbered, OneTextUnderWay, [Next]_vars
    PROVE  OneTextUnderWay'
<1>0. queue \in Seq(Runnables) /\ Len(queue) \in Nat
  BY DEF TypeOK
<1>1. ASSUME UNCHANGED <<text, queue, lines>>, Told' = Told, crossed => crossed',
             \A t \in Binders : pc'[t] = "post" <=> pc[t] = "post"
      PROVE  OneTextUnderWay'
  BY <1>1 DEF OneTextUnderWay, TextUnderWay
<1>2. CASE Service
  <2>1. UNCHANGED <<text, queue, lines, crossed>>
    BY <1>2 DEF Service, Find, Lose, Notify, Serve, ChangeUnannounced, screen, binder
  <2>2. \A t \in Binders : pc'[t] = "post" <=> pc[t] = "post"
    BY <1>2 DEF Service, Find, Lose, Notify, Serve, ChangeUnannounced, binder, TypeOK
  <2> QED
    BY <1>1, <1>2, <2>1, <2>2, ToldSteps
<1>3. ASSUME NEW t \in Binders, ReadHistory(t)
      PROVE  OneTextUnderWay'
  <2> SUFFICES ASSUME ~crossed'
               PROVE  OneTextUnderWay'
    BY DEF OneTextUnderWay
  <2>1. ~TextUnderWay /\ ~crossed /\ UNCHANGED <<queue, lines>>
    BY <1>3 DEF ReadHistory, screen
  <2>2. text'[t] = Told' /\ pc'[t] = "post"
    BY <1>3, <2>1, ToldSteps DEF ReadHistory, OneTextUnderWay, TypeOK
  <2>3. \A u \in Binders \ {t} : pc'[u] # "post"
    BY <1>3, <2>1 DEF ReadHistory, TextUnderWay, TypeOK
  <2> QED
    BY <2>1, <2>2, <2>3 DEF OneTextUnderWay, TextUnderWay
<1>4. ASSUME NEW t \in Binders, PostHistory(t)
      PROVE  OneTextUnderWay'
  <2> SUFFICES ASSUME ~crossed'
               PROVE  OneTextUnderWay'
    BY DEF OneTextUnderWay
  <2> DEFINE new == [kind |-> "line", text |-> text[t]]
  <2>1. ~crossed /\ pc[t] = "post" /\ queue' = Append(queue, new)
    BY <1>4 DEF PostHistory
  <2>2. /\ text[t] = Told
        /\ \A u \in Binders \ {t} : pc[u] # "post"
        /\ \A i \in 1..Len(queue) : queue[i].kind # "line"
    BY <2>1 DEF OneTextUnderWay
  <2>3. new \in Runnables /\ new.kind = "line" /\ new.text = text[t]
    BY DEF Runnables, TypeOK
  <2>4. \A u \in Binders : pc'[u] # "post"
    BY <1>4, <2>2 DEF PostHistory, Return, TypeOK
  <2>5. Told' = Told
    BY <1>4, ToldSteps DEF BinderStep, ReadHistory, PostHistory
  <2> HIDE DEF new
  <2>6. /\ Len(queue') = Len(queue) + 1
        /\ \A i \in 1..Len(queue) : queue'[i] = queue[i]
        /\ queue'[Len(queue) + 1] = new
    BY <1>0, <2>1, <2>3, AppendStep, Zenon
  <2>7. \A i \in 1..Len(queue') : queue'[i].kind = "line" => i = Len(queue) + 1
    BY <1>0, <2>2, <2>6
  <2>8. Len(queue) + 1 \in 1..Len(queue')
    BY <1>0, <2>6
  <2>9. TextUnderWay'
    BY <2>3, <2>6, <2>8 DEF TextUnderWay
  <2> QED
    BY <2>2, <2>3, <2>4, <2>5, <2>6, <2>7, <2>9 DEF OneTextUnderWay
<1>5. ASSUME NEW t \in Binders, ChangeMap(t)
      PROVE  OneTextUnderWay'
  <2>1. Told' = Told
    BY <1>5, ToldSteps DEF BinderStep, ReadHistory, ChangeMap
  <2> QED
    BY <1>1, <1>5, <2>1 DEF ChangeMap, screen, TypeOK
<1>6. ASSUME NEW t \in Binders, updateDeviceList(t)
      PROVE  OneTextUnderWay'
  <2> DEFINE new == [kind |-> "list", list |-> deviceMap]
  <2>1. Told' = Told
    BY <1>6, ToldSteps DEF BinderStep, ReadHistory, updateDeviceList
  <2>2. new \in Runnables /\ new.kind # "line" /\ queue' = Append(queue, new)
    BY <1>6 DEF Runnables, TypeOK, updateDeviceList
  <2> HIDE DEF new
  <2>3. /\ Len(queue') = Len(queue) + 1
        /\ \A i \in 1..Len(queue) : queue'[i] = queue[i]
        /\ queue'[Len(queue) + 1] = new
    BY <1>0, <2>2, AppendStep, Zenon
  <2>4. \A i \in 1..Len(queue') : queue'[i].kind = "line" => i \in 1..Len(queue)
    BY <1>0, <2>2, <2>3
  <2>5. \A u \in Binders : pc'[u] = "post" <=> pc[u] = "post"
    BY <1>6 DEF updateDeviceList, Return, TypeOK
  <2>6. UNCHANGED <<text, lines, crossed>>
    BY <1>6 DEF updateDeviceList, screen
  <2>7. TextUnderWay' <=> TextUnderWay
    BY <1>0, <2>3, <2>4, <2>5 DEF TextUnderWay
  <2> QED
    BY <1>0, <2>1, <2>3, <2>4, <2>5, <2>6, <2>7 DEF OneTextUnderWay
<1>7. ASSUME RunHistory \/ RunDeviceList
      PROVE  OneTextUnderWay'
  <2>1. queue # <<>> /\ queue' = Tail(queue) /\ UNCHANGED <<pc, text, crossed>>
    BY <1>7 DEF RunHistory, RunDeviceList, binder
  <2>2. Told' = Told
    BY <1>7, ToldSteps DEF UiStep
  <2>3. /\ Len(queue') = Len(queue) - 1
        /\ Len(queue) \in Nat \ {0}
        /\ \A i \in 1..Len(queue') : queue'[i] = queue[i + 1]
        /\ Head(queue) = queue[1]
    BY <1>0, <2>1, TailStep, Zenon
  <2>4. \A i \in 1..Len(queue') : i + 1 \in 1..Len(queue) /\ i + 1 # 1
    BY <2>3
  <2>5. CASE RunHistory
    <3> SUFFICES ASSUME ~crossed
                 PROVE  OneTextUnderWay'
      BY <2>1 DEF OneTextUnderWay
    <3>1. 1 \in 1..Len(queue) /\ queue[1].kind = "line" /\ lines' = queue[1].text
      BY <2>3, <2>5 DEF RunHistory
    <3>2. /\ lines' = Told
          /\ \A t \in Binders : pc[t] # "post"
          /\ \A j \in 1..Len(queue) : queue[j].kind = "line" => 1 = j
      BY <3>1 DEF OneTextUnderWay
    <3>3. \A i \in 1..Len(queue') : queue'[i].kind # "line"
      BY <2>3, <2>4, <3>2
    <3> QED
      BY <2>1, <2>2, <3>2, <3>3 DEF OneTextUnderWay
  <2>6. CASE RunDeviceList
    <3>1. queue[1].kind # "line" /\ lines' = lines
      BY <2>3, <2>6 DEF RunDeviceList
    <3>2. \A j \in 1..Len(queue) : queue[j].kind = "line" =>
              j - 1 \in 1..Len(queue') /\ queue'[j - 1] = queue[j]
      <4> TAKE j \in 1..Len(queue)
      <4> HAVE queue[j].kind = "line"
      <4>1. j # 1
        BY <3>1
      <4>2. j - 1 \in 1..Len(queue') /\ (j - 1) + 1 = j
        BY <2>3, <4>1
      <4> QED
        BY <2>3, <4>2
    <3>3. TextUnderWay' <=> TextUnderWay
      BY <2>1, <2>3, <2>4, <3>2 DEF TextUnderWay
    <3>4. \A i, j \in 1..Len(queue') : i + 1 = j + 1 => i = j
      BY <2>3
    <3> QED
      BY <2>1, <2>2, <2>3, <2>4, <3>1, <3>3, <3>4 DEF OneTextUnderWay
  <2> QED
    BY <1>7, <2>5, <2>6
<1>8. CASE CollectItems \/ clearDeviceList \/ (\E d \in Devices : SendTo(d)) \/ SendEnds
           \/ CancelEnds \/ onDestroy \/ UNCHANGED vars
  <2>1. Told' = Told
    BY <1>8, ToldSteps DEF UiStep
  <2>2. UNCHANGED <<text, queue, lines, pc>> /\ (crossed => crossed')
    BY <1>8 DEF CollectItems, clearDeviceList, SendTo, SendEnds, CancelEnds, onDestroy,
       vars, binder, screen, TypeOK
  <2> QED
    BY <1>1, <2>1, <2>2
<1>9. CASE Click
  <2>1. UNCHANGED <<pc, text, queue>> /\ lines' = lines \cup {calls + 1}
    BY <1>9 DEF Click, binder
  <2>2. Told' = Told \cup {calls + 1}
    BY <1>9, ToldSteps
  <2>3. ~crossed' => ~crossed /\ ~TextUnderWay
    BY <1>9 DEF Click
  <2> QED
    BY <2>1, <2>2, <2>3 DEF OneTextUnderWay, TextUnderWay
<1> QED
  BY <1>2, <1>3, <1>4, <1>5, <1>6, <1>7, <1>8, <1>9
  DEF Next, BinderStep, UiStep, User, ClickForLines, ClickThatClears, doSend, onCancel

-----------------------------------------------------------------------------
(***************************************************************************)
(* The theorems.                                                           *)
(***************************************************************************)

\* The invariant holds of every behaviour of the demo.
THEOREM Invariance == Spec => []IInv
<1>1. Init => IInv
  <2> SUFFICES ASSUME Init PROVE IInv
    OBVIOUS
  <2>1. Cardinality({}) = 0
    BY FS_EmptySet
  <2>2. Numbered /\ NewestIsTrue /\ ScreenOrRefresh /\ ListOrRefresh /\ TargetsStayListed
    BY <2>1 DEF Init, Numbered, NewestIsTrue, Unapplied, ScreenOrRefresh, ListOrRefresh,
                TargetsStayListed
  <2>3. OneTextUnderWay
    BY DEF Init, OneTextUnderWay, Told, TextUnderWay
  <2> QED
    BY <2>2, <2>3, InitTyped DEF IInv
<1>2. IInv /\ [Next]_vars => IInv'
  BY StepTyped, StepNumbered, StepNewestIsTrue, StepScreenOrRefresh, StepListOrRefresh,
     StepOneTextUnderWay, StepListed DEF IInv
<1> QED
  BY <1>1, <1>2, PTL DEF Spec

\* The variables keep their types.
THEOREM Typing == Spec => []TypeOK
<1>1. IInv => TypeOK
  BY DEF IInv
<1> QED
  BY <1>1, Invariance, PTL

\* deviceMap holds what the service sees, where order and clearing allow it
\* (onDeviceFound, onDeviceDisappeared).
THEOREM MapIsTrue == Spec => []MapFollowsService
<1>1. IInv => MapFollowsService
  BY DEF IInv, NewestIsTrue, MapFollowsService
<1> QED
  BY <1>1, Invariance, PTL

\* Once nothing is under way the spinner, the quantity and, unless the map is
\* empty, the list are those of the map (updateDeviceList, clearDeviceList).
THEOREM Settling == Spec => []BoardSettles
<1>1. IInv => BoardSettles
  BY DEF IInv, ScreenOrRefresh, RefreshComes, ListOrRefresh, BoardSettles, Quiet
<1> QED
  BY <1>1, Invariance, PTL

\* The history misses no line unless two texts crossed (updateStatusHistory).
THEOREM CompleteHistory == Spec => []HistoryIsComplete
<1>1. IInv => HistoryIsComplete
  <2> SUFFICES ASSUME IInv, Quiet, ~crossed
               PROVE  lines = 1..calls
    BY DEF HistoryIsComplete
  <2>1. ~TextUnderWay
    BY DEF Quiet, TextUnderWay
  <2>2. {u \in Binders : pc[u] = "line"} = {}
    BY DEF Quiet
  <2>3. Told = 1..calls
    BY <2>2 DEF Told
  <2> QED
    BY <2>1, <2>3 DEF IInv, OneTextUnderWay
<1> QED
  BY <1>1, Invariance, PTL

\* What a send goes through stays in the map (doSend under the lock).
THEOREM ListedTargets == Spec => []TargetsStayListed
<1>1. IInv => TargetsStayListed
  BY DEF IInv
<1> QED
  BY <1>1, Invariance, PTL
=============================================================================
