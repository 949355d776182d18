------------------------- MODULE TransmitterProofs -------------------------
(***************************************************************************)
(* Theorems about Transmitter for any devices, largest number, number of   *)
(* files and number of keys.                                               *)
(***************************************************************************)
EXTENDS Transmitter, FiniteSetTheorems, TLAPS

-----------------------------------------------------------------------------
(***************************************************************************)
(* The inductive invariant: what the types leave out, by the part of main  *)
(* that it is about.                                                       *)
(***************************************************************************)

Selecting == {"key", "get", "show", "select"}

Ended == {"wait", "free", "stop", "uninit", "exited"}

\* uriList is there from the second look at the directory to FreeFileList,
\* and has as many names as were counted unless the directory changed.
NamesCounted ==
    /\ pc = "count" => uriList = "null" /\ ~changed
    /\ pc = "scan" => uriList = "null" /\ (~changed => fileNum = files)
    /\ pc \notin {"count", "scan", "stop", "uninit", "exited"} => uriList = "live"
    /\ (~changed /\ uriList # "null") => names = fileNum
    /\ ~changed => "namesOverrun" \notin misuse

\* A transfer begins with its names; if g_running is 0 while it goes on, it
\* was a SIGINT or something before TransFile that made it so.
TransferHasNames ==
    /\ transfer # "none" => pc \in Ended /\ uriList # "null"
    /\ (transfer = "going" /\ ~running) => interrupted \/ late
    /\ (transfer = "going" /\ pc # "wait") => ~running

\* devNum is the length of the list.  Unless a call has failed, devList is not
\* freed before the device is selected, and devNum is set when it is printed:
\* what is passed on unset is passed with no list.
ListHolds ==
    /\ devList # "null" => devNum = Len(devs)
    /\ ~failed => /\ devList = "freed" => pc \in Ended \cup {"send"}
                  /\ pc = "show" => devNum # NULL
                  /\ "numberUnset" \in misuse => pc \in Ended \cup {"send"} /\ dev = NULL

\* The device that stands at number n of the screen.
OnScreen(n) == IF n \in DOMAIN screen THEN screen[n] ELSE NULL

\* Unless main is about to print another list, the screen shows devList.
ScreenIsList ==
    (~failed /\ pc \notin {"get", "show", "send"} \cup Ended)
        => screen = IF devList = "live" THEN devs ELSE <<>>

\* A key that is not stale means what stands on the screen, also the one
\* that was read, as long as it can select.
KeysMeanScreen ==
    /\ \A i \in DOMAIN keys : ~keys[i].stale => keys[i].want = OnScreen(keys[i].num)
    /\ pc \notin {"select", "send"} \cup Ended => meant = NoKey /\ selectNum = 0
    /\ pc = "select" => /\ selectNum = meant.num
                        /\ ~meant.stale => meant.want = OnScreen(meant.num)

\* What is selected is what was meant.
DevIsMeant ==
    /\ pc \notin {"send"} \cup Ended => dev = NULL
    /\ (pc \in {"send"} \cup Ended /\ ~failed /\ ~meant.stale) => dev = meant.want

IInv ==
    /\ TypeOK
    /\ NamesCounted
    /\ TransferHasNames
    /\ ListHolds
    /\ ListIsLive
    /\ ScreenIsList
    /\ KeysMeanScreen
    /\ DevIsMeant

-----------------------------------------------------------------------------
\* What GetAvailableDevice returns is a sequence of devices, and may be empty.
LEMMA ListsAreSequences ==
    /\ \A l \in Lists : /\ l \in Seq(Devices)
                        /\ Len(l) \in Nat
                        /\ DOMAIN l = 1..Len(l)
    /\ <<>> \in Lists
<1>1. Cardinality(Devices) \in Nat
  BY DevicesAssumption, FS_CardinalityType DEF DevicesAssumption
<1>2. <<>> \in [1..0 -> Devices]
  OBVIOUS
<1>3. \A n \in Nat : \A l \in [1..n -> Devices] :
         l \in Seq(Devices) /\ Len(l) = n /\ DOMAIN l = 1..n
  OBVIOUS
<1> QED
  BY <1>1, <1>2, <1>3 DEF Lists

\* The types are kept.
LEMMA TypesAreKept ==
    ASSUME TypeOK, ListHolds, [Next]_vars
    PROVE  TypeOK'
<1> USE DevicesAssumption, BoundsAssumption
        DEF DevicesAssumption, BoundsAssumption, TypeOK, PcStates, Blocks,
            directory, list, choice, user, kit, ghosts
<1>1. CASE CountFileNum
  BY <1>1 DEF CountFileNum
<1>2. CASE ChangeDirectory
  BY <1>2 DEF ChangeDirectory
<1>3. CASE ScanFileName
  BY <1>3 DEF ScanFileName
<1>4. CASE ScanFails
  BY <1>4 DEF ScanFails
<1>5. CASE InitShareKit
  BY <1>5 DEF InitShareKit
<1>6. CASE StartShareService
  BY <1>6 DEF StartShareService
<1>7. CASE IsSelected
  <2>1. Head(keys) \in Keys /\ Tail(keys) \in Seq(Keys)
    BY <1>7 DEF IsSelected
  <2>2. Head(keys).num \in 0..ShowMaxNum
    BY <2>1 DEF Keys
  <2> QED
    BY <1>7, <2>1, <2>2 DEF IsSelected
<1>8. CASE IsNotSelected
  <2>1. keys' \in Seq(Keys)
    BY <1>8 DEF IsNotSelected
  <2> QED
    BY <1>8, <2>1 DEF IsNotSelected
<1>9. CASE GetAvailableDevice
  BY <1>9, ListsAreSequences DEF GetAvailableDevice, FreedTwice
<1>10. CASE GetAvailableDeviceFails
  BY <1>10 DEF GetAvailableDeviceFails, Freed, FreedTwice
<1>11. CASE ShowShareKitDeviceList
  <2>1. screen' \in Lists
    BY <1>11, ListsAreSequences DEF ShowShareKitDeviceList, Contents
  <2>2. ASSUME NEW i \in DOMAIN keys
        PROVE  [keys[i] EXCEPT !.stale = TRUE] \in Keys
    <3>1. keys[i] \in Keys
      OBVIOUS
    <3> QED
      BY <3>1 DEF Keys
  <2>3. keys' \in Seq(Keys)
    BY <1>11, <2>2 DEF ShowShareKitDeviceList
  <2> QED
    BY <1>11, <2>1, <2>3 DEF ShowShareKitDeviceList, ReadsFreed, ReadsUnset
<1>12. CASE GetSelectedDev
  <2>1. \A l \in Lists : selectNum \in 1..Len(l) => l[selectNum] \in Devices
    BY ListsAreSequences
  <2>2. dev' \in Devices \cup {NULL}
    BY <1>12, <2>1 DEF GetSelectedDev, Contents, ListHolds
  <2>3. (devList \in Blocks)' /\ misuse' \subseteq {"doubleFree", "readAfterFree",
                                                 "numberUnset", "namesOverrun"}
    BY <1>12 DEF GetSelectedDev, Freed, FreedTwice, ReadsFreed, ReadsUnset
  <2>4. pc' = "send" /\ UNCHANGED <<running, directory, devs, devNum, selectNum, meant,
                                   user, kit, failed, interrupted, late>>
    BY <1>12 DEF GetSelectedDev
  <2> QED
    BY <2>2, <2>3, <2>4
<1>13. CASE TransFile
  BY <1>13 DEF TransFile
<1>14. CASE WaitEnds
  BY <1>14 DEF WaitEnds
<1>15. CASE FreeFileList
  BY <1>15 DEF FreeFileList
<1>16. CASE StopShareService
  BY <1>16 DEF StopShareService
<1>17. CASE UninitShareKit
  BY <1>17 DEF UninitShareKit
<1>18. CASE SharekitStatusChangeCbFunc
  <2>1. running' \in BOOLEAN
    BY <1>18 DEF SharekitStatusChangeCbFunc, Exit
  <2> QED
    BY <1>18, <2>1 DEF SharekitStatusChangeCbFunc
<1>19. CASE Interrupt
  <2>1. running' \in BOOLEAN /\ interrupted' \in BOOLEAN
    BY <1>19 DEF Interrupt, Exit
  <2>2. UNCHANGED <<pc, directory, list, choice, user, kit, failed, late, misuse>>
    BY <1>19 DEF Interrupt
  <2> QED
    BY <2>1, <2>2
<1>20. CASE TypeKey
  <2>1. screen \in Seq(Devices) /\ DOMAIN screen = 1..Len(screen)
    BY ListsAreSequences
  <2>2. PICK n \in 0..ShowMaxNum :
           keys' = Append(keys, [num |-> n,
                                 want |-> IF n \in DOMAIN screen THEN screen[n] ELSE NULL,
                                 stale |-> FALSE])
    BY <1>20 DEF TypeKey
  <2>3. (IF n \in DOMAIN screen THEN screen[n] ELSE NULL) \in Devices \cup {NULL}
    BY <2>1
  <2>4. keys' \in Seq(Keys)
    BY <2>2, <2>3 DEF Keys
  <2>5. typed' \in 0..MaxKeys
    BY <1>20 DEF TypeKey
  <2> QED
    BY <1>20, <2>4, <2>5 DEF TypeKey
<1>21. CASE UNCHANGED vars
  BY <1>21 DEF vars
<1> QED
  BY <1>1, <1>2, <1>3, <1>4, <1>5, <1>6, <1>7, <1>8, <1>9, <1>10, <1>11, <1>12, <1>13, <1>14, <1>15, <1>16, <1>17, <1>18, <1>19, <1>20, <1>21 DEF Next, Main

\* The names and the transfer that uses them.
LEMMA NamesAreKept ==
    ASSUME TypeOK, NamesCounted, TransferHasNames, [Next]_vars
    PROVE  NamesCounted' /\ TransferHasNames'
<1>0. files \in Int /\ fileNum \in Int
  BY DEF TypeOK
<1> USE <1>0 DEF NamesCounted, TransferHasNames, Ended, FreedTwice, ReadsFreed, ReadsUnset,
                 directory, list, choice, user, kit, ghosts
<1>1. CASE CountFileNum
  BY <1>1 DEF CountFileNum
<1>2. CASE ChangeDirectory
  BY <1>2 DEF ChangeDirectory
<1>3. CASE ScanFileName
  BY <1>3 DEF ScanFileName
<1>4. CASE ScanFails
  BY <1>4 DEF ScanFails
<1>5. CASE InitShareKit
  BY <1>5 DEF InitShareKit
<1>6. CASE StartShareService
  BY <1>6 DEF StartShareService
<1>7. CASE IsSelected
  BY <1>7 DEF IsSelected
<1>8. CASE IsNotSelected
  BY <1>8 DEF IsNotSelected
<1>9. CASE GetAvailableDevice
  BY <1>9 DEF GetAvailableDevice
<1>10. CASE GetAvailableDeviceFails
  BY <1>10 DEF GetAvailableDeviceFails
<1>11. CASE ShowShareKitDeviceList
  BY <1>11 DEF ShowShareKitDeviceList
<1>12. CASE GetSelectedDev
  BY <1>12 DEF GetSelectedDev
<1>13. CASE TransFile
  BY <1>13 DEF TransFile
<1>14. CASE WaitEnds
  BY <1>14 DEF WaitEnds
<1>15. CASE FreeFileList
  BY <1>15 DEF FreeFileList
<1>16. CASE StopShareService
  BY <1>16 DEF StopShareService
<1>17. CASE UninitShareKit
  BY <1>17 DEF UninitShareKit
<1>18. CASE SharekitStatusChangeCbFunc
  BY <1>18 DEF SharekitStatusChangeCbFunc, Exit
<1>19. CASE Interrupt
  BY <1>19 DEF Interrupt, Exit
<1>20. CASE TypeKey
  BY <1>20 DEF TypeKey
<1>21. CASE UNCHANGED vars
  BY <1>21 DEF vars
<1> QED
  BY <1>1, <1>2, <1>3, <1>4, <1>5, <1>6, <1>7, <1>8, <1>9, <1>10, <1>11, <1>12, <1>13, <1>14, <1>15, <1>16, <1>17, <1>18, <1>19, <1>20, <1>21 DEF Next, Main

\* The list is there for as long as it is read.
LEMMA ListIsKept ==
    ASSUME TypeOK, ListHolds, ListIsLive, [Next]_vars
    PROVE  ListHolds' /\ ListIsLive'
<1> USE DevicesAssumption, ListsAreSequences
        DEF DevicesAssumption, TypeOK, ListHolds, ListIsLive, Ended, PcStates, Freed,
            FreedTwice, ReadsFreed, ReadsUnset, directory, list, choice, user, kit, ghosts
<1>1. CASE CountFileNum
  BY <1>1 DEF CountFileNum
<1>2. CASE ChangeDirectory
  BY <1>2 DEF ChangeDirectory
<1>3. CASE ScanFileName
  BY <1>3 DEF ScanFileName
<1>4. CASE ScanFails
  BY <1>4 DEF ScanFails
<1>5. CASE InitShareKit
  BY <1>5 DEF InitShareKit
<1>6. CASE StartShareService
  BY <1>6 DEF StartShareService
<1>7. CASE IsSelected
  BY <1>7 DEF IsSelected
<1>8. CASE IsNotSelected
  BY <1>8 DEF IsNotSelected
<1>9. CASE GetAvailableDevice
  BY <1>9 DEF GetAvailableDevice
<1>10. CASE GetAvailableDeviceFails
  BY <1>10 DEF GetAvailableDeviceFails
<1>11. CASE ShowShareKitDeviceList
  BY <1>11 DEF ShowShareKitDeviceList
<1>12. CASE GetSelectedDev
  BY <1>12 DEF GetSelectedDev
<1>13. CASE TransFile
  BY <1>13 DEF TransFile
<1>14. CASE WaitEnds
  BY <1>14 DEF WaitEnds
<1>15. CASE FreeFileList
  BY <1>15 DEF FreeFileList
<1>16. CASE StopShareService
  BY <1>16 DEF StopShareService
<1>17. CASE UninitShareKit
  BY <1>17 DEF UninitShareKit
<1>18. CASE SharekitStatusChangeCbFunc
  BY <1>18 DEF SharekitStatusChangeCbFunc, Exit
<1>19. CASE Interrupt
  BY <1>19 DEF Interrupt, Exit
<1>20. CASE TypeKey
  BY <1>20 DEF TypeKey
<1>21. CASE UNCHANGED vars
  BY <1>21 DEF vars
<1> QED
  BY <1>1, <1>2, <1>3, <1>4, <1>5, <1>6, <1>7, <1>8, <1>9, <1>10, <1>11, <1>12, <1>13, <1>14, <1>15, <1>16, <1>17, <1>18, <1>19, <1>20, <1>21 DEF Next, Main

\* What was typed selects what it meant.
LEMMA ChoiceIsKept ==
    ASSUME TypeOK, ListHolds, ScreenIsList, KeysMeanScreen, DevIsMeant, [Next]_vars
    PROVE  ScreenIsList' /\ KeysMeanScreen' /\ DevIsMeant'
<1>0. keys \in Seq(Keys) /\ screen \in Seq(Devices)
  BY ListsAreSequences DEF TypeOK
<1> USE DEF ScreenIsList, KeysMeanScreen, DevIsMeant, OnScreen, Ended, NoKey,
            directory, list, choice, user, kit, ghosts
<1>1. CASE CountFileNum
  BY <1>1 DEF CountFileNum
<1>2. CASE ChangeDirectory
  BY <1>2 DEF ChangeDirectory
<1>3. CASE ScanFileName
  BY <1>3 DEF ScanFileName
<1>4. CASE ScanFails
  BY <1>4 DEF ScanFails
<1>5. CASE InitShareKit
  BY <1>5 DEF InitShareKit
<1>6. CASE StartShareService
  BY <1>6 DEF StartShareService
<1>7. CASE IsSelected
  <2>1. /\ Head(keys) = keys[1] /\ 1 \in DOMAIN keys
        /\ \A i \in DOMAIN Tail(keys) : i + 1 \in DOMAIN keys /\ Tail(keys)[i] = keys[i + 1]
    BY <1>0, <1>7 DEF IsSelected
  <2>2. ScreenIsList'
    BY <1>7 DEF IsSelected
  <2>3. KeysMeanScreen'
    BY <1>7, <2>1 DEF IsSelected
  <2>4. DevIsMeant'
    BY <1>7 DEF IsSelected
  <2> QED
    BY <2>2, <2>3, <2>4
<1>8. CASE IsNotSelected
  <2>1. keys # <<>> => \A i \in DOMAIN Tail(keys) :
                          i + 1 \in DOMAIN keys /\ Tail(keys)[i] = keys[i + 1]
    BY <1>0
  <2>2. OnScreen(0) = NULL
    BY <1>0
  <2>3. ScreenIsList'
    BY <1>8 DEF IsNotSelected
  <2>4. KeysMeanScreen'
    <3>1. \A i \in DOMAIN keys' : ~keys'[i].stale => keys'[i].want = OnScreen(keys'[i].num)
      BY <1>8, <2>1 DEF IsNotSelected
    <3>2. UNCHANGED <<meant, selectNum, screen>> /\ pc = "key" /\ pc' \in {"get", "select"}
      BY <1>8 DEF IsNotSelected
    <3>3. meant = NoKey /\ selectNum = 0
      BY <3>2
    <3> QED
      BY <2>2, <3>1, <3>2, <3>3
  <2>5. DevIsMeant'
    BY <1>8 DEF IsNotSelected
  <2> QED
    BY <2>3, <2>4, <2>5
<1>9. CASE GetAvailableDevice
  BY <1>9 DEF GetAvailableDevice
<1>10. CASE GetAvailableDeviceFails
  BY <1>10 DEF GetAvailableDeviceFails
<1>11. CASE ShowShareKitDeviceList
  <2>1. ScreenIsList'
    <3>1. pc = "show" /\ UNCHANGED <<failed, devList, devs>>
      BY <1>11 DEF ShowShareKitDeviceList
    <3>2. ~failed => devList \in {"null", "live"}
      BY <3>1 DEF ListHolds, TypeOK, Blocks
    <3>3. devList = "live" => screen' = devs
      BY <1>11 DEF ShowShareKitDeviceList, Contents
    <3>4. devList = "null" => screen' = <<>>
      BY <1>11 DEF ShowShareKitDeviceList
    <3> QED
      BY <3>1, <3>2, <3>3, <3>4
  <2>2. KeysMeanScreen'
    <3>1. keys' = [i \in DOMAIN keys |-> [keys[i] EXCEPT !.stale = TRUE]]
      BY <1>11 DEF ShowShareKitDeviceList
    <3>2. ASSUME NEW i \in DOMAIN keys'
          PROVE  keys'[i].stale
      <4>1. i \in DOMAIN keys /\ keys'[i] = [keys[i] EXCEPT !.stale = TRUE]
        BY <3>1
      <4>2. keys[i] \in Keys
        BY <1>0, <4>1
      <4> QED
        BY <4>1, <4>2 DEF Keys
    <3>3. pc = "show" /\ pc' = "key" /\ UNCHANGED <<meant, selectNum>>
      BY <1>11 DEF ShowShareKitDeviceList
    <3> QED
      BY <3>2, <3>3
  <2>3. DevIsMeant'
    BY <1>11 DEF ShowShareKitDeviceList
  <2> QED
    BY <2>1, <2>2, <2>3
<1>12. CASE GetSelectedDev
  <2>1. /\ pc = "select" /\ pc' = "send"
        /\ UNCHANGED <<screen, keys, selectNum, meant, failed>>
    BY <1>12 DEF GetSelectedDev
  <2>2. DevIsMeant'
    <3> SUFFICES ASSUME ~failed, ~meant.stale
                 PROVE  dev' = meant.want
      BY <2>1
    <3>1. meant.want = OnScreen(selectNum) /\ devList \in {"null", "live"}
      BY <2>1 DEF ListHolds, TypeOK, Blocks
    <3>2. selectNum \in Nat
      BY BoundsAssumption DEF BoundsAssumption, TypeOK
    <3>3. CASE devList = "null"
      BY <1>12, <2>1, <3>1, <3>3 DEF GetSelectedDev
    <3>4. CASE devList = "live"
      <4>1. screen = devs /\ DOMAIN devs = 1..Len(devs) /\ Len(devs) \in Nat
        BY <2>1, <3>4, ListsAreSequences DEF TypeOK
      <4>2. dev' = IF selectNum \in 1..Len(devs) THEN devs[selectNum] ELSE NULL
        BY <1>12, <3>4 DEF GetSelectedDev, Contents, ListHolds
      <4> QED
        BY <3>1, <3>2, <4>1, <4>2
    <3> QED
      BY <3>1, <3>3, <3>4
  <2> QED
    BY <2>1, <2>2
<1>13. CASE TransFile
  BY <1>13 DEF TransFile
<1>14. CASE WaitEnds
  BY <1>14 DEF WaitEnds
<1>15. CASE FreeFileList
  BY <1>15 DEF FreeFileList
<1>16. CASE StopShareService
  BY <1>16 DEF StopShareService
<1>17. CASE UninitShareKit
  BY <1>17 DEF UninitShareKit
<1>18. CASE SharekitStatusChangeCbFunc
  BY <1>18 DEF SharekitStatusChangeCbFunc, Exit
<1>19. CASE Interrupt
  BY <1>19 DEF Interrupt, Exit
<1>20. CASE TypeKey
  BY <1>20 DEF TypeKey
<1>21. CASE UNCHANGED vars
  BY <1>21 DEF vars
<1> QED
  BY <1>1, <1>2, <1>3, <1>4, <1>5, <1>6, <1>7, <1>8, <1>9, <1>10, <1>11, <1>12, <1>13, <1>14, <1>15, <1>16, <1>17, <1>18, <1>19, <1>20, <1>21 DEF Next, Main

\* IInv holds of every behaviour of the transmitter.
THEOREM Invariance == Spec => []IInv
<1>1. Init => IInv
  <2> SUFFICES ASSUME Init PROVE IInv
    OBVIOUS
  <2> USE DEF Init
  <2>0. NoKey \in Keys
    BY BoundsAssumption DEF BoundsAssumption, Keys, NoKey
  <2>1. TypeOK
    <3>1. pc \in PcStates /\ uriList \in Blocks /\ devList \in Blocks
      BY DEF PcStates, Blocks
    <3>2. devs \in Lists /\ screen \in Lists /\ keys \in Seq(Keys) /\ misuse = {}
      BY ListsAreSequences
    <3>3. /\ files \in 0..MaxFiles /\ fileNum \in 0..MaxFiles /\ names \in 0..MaxFiles
          /\ selectNum \in 0..ShowMaxNum /\ typed \in 0..MaxKeys
      BY BoundsAssumption DEF BoundsAssumption
    <3> QED
      BY <2>0, <3>1, <3>2, <3>3 DEF TypeOK
  <2>2. NamesCounted /\ TransferHasNames
    BY DEF NamesCounted, TransferHasNames
  <2>3. ListHolds /\ ListIsLive /\ ScreenIsList
    BY DEF ListHolds, ListIsLive, ScreenIsList
  <2>4. KeysMeanScreen /\ DevIsMeant
    BY DEF KeysMeanScreen, DevIsMeant, Ended
  <2> QED
    BY <2>1, <2>2, <2>3, <2>4 DEF IInv
<1>2. IInv /\ [Next]_vars => IInv'
  BY TypesAreKept, NamesAreKept, ListIsKept, ChoiceIsKept DEF IInv
<1> QED
  BY <1>1, <1>2, PTL DEF Spec

\* The variables keep their types.
THEOREM Typing == Spec => []TypeOK
<1>1. IInv => TypeOK
  BY DEF IInv
<1> QED
  BY <1>1, Invariance, PTL

\* A number selects what stood beside it on the screen.
THEOREM ScreenSelects == Spec => []SelectionFromScreen
<1>1. IInv => SelectionFromScreen
  BY DEF IInv, TransferHasNames, DevIsMeant, SelectionFromScreen
<1> QED
  BY <1>1, Invariance, PTL

\* devList is used while it lasts.
THEOREM LiveList == Spec => []ListIsLive
<1>1. IInv => ListIsLive
  BY DEF IInv
<1> QED
  BY <1>1, Invariance, PTL

\* A transfer is given as many names as it is told.
THEOREM WholeNames == Spec => []NamesAreWhole
<1>1. IInv => NamesAreWhole
  BY DEF IInv, NamesCounted, TransferHasNames, NamesAreWhole
<1> QED
  BY <1>1, Invariance, PTL

\* The names outlive the transfer they were given to.
THEOREM LastingNames == Spec => []NamesOutliveTransfer
<1>1. IInv => NamesOutliveTransfer
  BY DEF IInv, NamesCounted, TransferHasNames, NamesOutliveTransfer, TypeOK, PcStates
<1> QED
  BY <1>1, Invariance, PTL

-----------------------------------------------------------------------------
(***************************************************************************)
(* What EndsOnceTold rests on, beside the scheduler.                       *)
(***************************************************************************)

\* The share kit runs only between its initialisation and the end of main.
KitIsOff == pc \in {"count", "scan", "init", "exited"} => service = "off"

\* The calls main has still to make, at most, when it goes round its loop of
\* lists no more.
CallsLeft == [count |-> 13, scan |-> 12, init |-> 11, start |-> 10, get |-> 9,
              show |-> 8, key |-> 7, select |-> 6, send |-> 5, wait |-> 4,
              free |-> 3, stop |-> 2, uninit |-> 1, exited |-> 0]

\* Once Exit was called that is for good, and every step of main brings it
\* nearer to its end: the loop of lists (lines 123-132) does not go round
\* again, whatever keys wait in the input.
EndComesNearer ==
    [][~running => /\ ~running'
                   /\ CallsLeft[pc'] <= CallsLeft[pc]
                   /\ Main => CallsLeft[pc'] < CallsLeft[pc]]_vars

LEMMA StepsOfTheEnd ==
    ASSUME TypeOK, ListHolds, KitIsOff, [Next]_vars
    PROVE  /\ KitIsOff'
           /\ ~running => /\ ~running'
                          /\ CallsLeft[pc'] <= CallsLeft[pc]
                          /\ Main => CallsLeft[pc'] < CallsLeft[pc]
<1> DEFINE Nearer == ~running => ~running' /\ CallsLeft[pc'] < CallsLeft[pc]
<1> USE DEF TypeOK, PcStates, KitIsOff, CallsLeft, directory, list, choice, user, kit, ghosts
<1>1. ASSUME Main PROVE KitIsOff' /\ Nearer
  <2>1. CASE CountFileNum
    BY <2>1 DEF CountFileNum
  <2>2. CASE ScanFileName \/ ScanFails
    BY <2>2 DEF ScanFileName, ScanFails
  <2>3. CASE InitShareKit \/ StartShareService
    BY <2>3 DEF InitShareKit, StartShareService
  <2>4. CASE IsSelected
    BY <2>4 DEF IsSelected
  <2>5. CASE IsNotSelected
    BY <2>5 DEF IsNotSelected
  <2>6. CASE GetAvailableDevice \/ GetAvailableDeviceFails
    BY <2>6 DEF GetAvailableDevice, GetAvailableDeviceFails
  <2>7. CASE ShowShareKitDeviceList
    BY <2>7 DEF ShowShareKitDeviceList
  <2>8. CASE GetSelectedDev
    BY <2>8 DEF GetSelectedDev
  <2>9. CASE TransFile \/ WaitEnds \/ FreeFileList
    BY <2>9 DEF TransFile, WaitEnds, FreeFileList
  <2>10. CASE StopShareService \/ UninitShareKit
    BY <2>10 DEF StopShareService, UninitShareKit
  <2> QED
    BY <1>1, <2>1, <2>2, <2>3, <2>4, <2>5, <2>6, <2>7, <2>8, <2>9, <2>10 DEF Main
<1>2. CASE \/ ChangeDirectory \/ SharekitStatusChangeCbFunc \/ Interrupt \/ TypeKey
           \/ UNCHANGED vars
  <2>1. pc' = pc /\ service' = service /\ (~running => ~running')
    BY <1>2 DEF ChangeDirectory, SharekitStatusChangeCbFunc, Interrupt, TypeKey, Exit, vars
  <2>2. CallsLeft[pc'] <= CallsLeft[pc]
    BY <2>1
  <2>3. KitIsOff'
    BY <2>1
  <2>4. Main /\ ~running => CallsLeft[pc'] < CallsLeft[pc]
    BY <1>1
  <2> HIDE DEF CallsLeft
  <2> QED
    BY <2>1, <2>2, <2>3, <2>4
<1>3. CASE Main
  <2> HIDE DEF TypeOK
  <2>1. pc \in PcStates /\ pc' \in PcStates
    BY TypesAreKept DEF TypeOK
  <2>2. CallsLeft[pc] \in Nat /\ CallsLeft[pc'] \in Nat
    BY <2>1
  <2> HIDE DEF CallsLeft
  <2> QED
    BY <1>1, <1>3, <2>2
<1> QED
  BY <1>2, <1>3 DEF Next

\* Exit is final, and main comes down to its end with the share kit off.
THEOREM EndsInOrder == Spec => []KitIsOff /\ EndComesNearer
<1>1. Init => KitIsOff
  BY DEF Init, KitIsOff
<1>2. IInv /\ KitIsOff /\ [Next]_vars => KitIsOff'
  BY StepsOfTheEnd DEF IInv
<1>3. IInv /\ KitIsOff /\ [Next]_vars
        => [~running => /\ ~running'
                        /\ CallsLeft[pc'] <= CallsLeft[pc]
                        /\ Main => CallsLeft[pc'] < CallsLeft[pc]]_vars
  BY StepsOfTheEnd DEF IInv
<1> QED
  BY <1>1, <1>2, <1>3, Invariance, PTL DEF Spec, EndComesNearer
=============================================================================
