# ShareEngine in TLA+

ShareEngine is a set of file-sharing clients around a closed library. Two Linux programs
(`sharekitdtx`, `sharekitdrx`) link a *share kit* and hand it a BLE *driver* each
(`driver_ble_tx.c`, `driver_ble_rx.c`); an Android demo, an EMUI demo and a Windows client talk to a
share service on their platform. The library and the services have no source here. What the
repository does have is the code around them: callbacks on foreign threads, global flags and
pointers without locks, calls that fail half way. That code is modelled here, checked by TLC on
small instances and, but for liveness, proved by TLAPS for all of them.

`Linux/`, `Android-cn/` and `EMUI-cn/` hold the same code as `Linux-en/`, `Android-en/` and
`EMUI-en/` with other comments and texts. The modules name the English files.

## Inventory

| Component | State it keeps | Operations | Interacts with |
|---|---|---|---|
| BLE scanner (`driver_ble_tx.c` 195-238, 701-850; same in rx) | `g_scan_running`, the controller's scan | BleStartScan, BleStopScan, the detached reader thread | SDK thread and reader threads share the flag; reports go out through `ScanCallback` |
| BLE advertiser (tx 117-193, 595-699; same in rx) | the controller's advertising, HCI descriptors | BleStartAdv, BleSetAdvData, BleStopAdv | the controller, by commands that may fail or whose answer may be lost; a peer that connects stops the advertising |
| GATT client (tx 240-584, 850-880) | `g_nearbyCli`, the static `con`, BlueZ's quit flag | BleConnect, BleDisconnect, BleSendData, the connect thread, BlueZ callbacks | SDK thread, connect threads and callbacks share the globals; events go out through `ChannelStateChange`, data through `ReceiveData` |
| GATT server (rx 60-330, 730-760) | `g_server`, BlueZ's quit flag | BleDriverInit, BleDriverDeinit, BleNotifyData, the server thread, callbacks | as the client |
| Driver interface (`driver_adapt.h`) | what the SDK has heard of a connection | the callback table | the promise both drivers make to the SDK |
| Linux transmitter (`sharekitdtx.c`) | the names in the directory, `devList`, `g_running` | main, SelectDev, the status callback, SIGINT | keyboard, directory, share kit |
| Linux receiver (`sharekitdrx.c`) | `g_running` | main, RequestFileTrans, FileTransferResult | share kit |
| Windows client (`ShareKitClient.cpp`, `MyShareListener.cpp`) | `g_sharedevice`, `isDeviceFound`, `isSendFinish` | main's menu, sendFile, two listeners, the signal handler | three kinds of thread share the globals |
| Android demo (`ShareKitDemo.java`) | `deviceMap` under `lock`, the text of two views, a spinner | every button, four callbacks, runnables | binder threads, the UI thread |
| EMUI demo | none that outlives a click | one button, an intent | another activity |
| Report parser (rx 682-695; same in tx) | none | the loop over the reports of one event | the scanner |
| HCI device (rx 344-730) | the process's descriptors, one controller | both halves above | advertising and scanning share the device and its descriptors |
| The link between the drivers | up or down, data under way | dial, accept, writes, notifications, loss | GATT client and server, one SDK at each end |

What is hard about each, and what makes it correct:

* **Scanner.** The test of the flag (828) and the write (831) are two steps; a stop trusts one
  second of sleep; `read()` has no timeout; five ways out of the reader leave the flag at 1. It is
  correct if at most one thread reads, a reader is fed, little is passed on after a stop, and the
  flag gets stuck through an error only.
* **Advertiser.** A call is up to three commands, each of which may fail having been carried out or
  not, and its error returns do not close the device. It is correct if a 0 means that the controller
  does what was asked, the two halves of the data belong together, and a call fails only when
  something failed.
* **GATT client and server.** The main loop's quit flag is global and reset by `mainloop_init`;
  `g_nearbyCli` and `g_server` outlive what they point to; connect and accept take as long as they
  like; a second connection may start on top of the first. They are correct if events of a
  connection come in an order the SDK can follow, the end of a connection is told, the object used
  is one's own and live, and a disconnect or deinit takes effect.
* **Transmitter.** Keys wait in the input while lists are printed; `devList` is freed at the head of
  each round; a status or SIGINT can come anywhere. It is correct if the device chosen is the one on
  the screen, memory is used while it lasts, the names outlive the transfer, and main ends once told
  to.
* **Receiver.** A request is confirmed in the callback that hears it, and the result of any transfer
  ends the program. It is correct if a confirmed transfer is cut for a named reason only and a
  finished one leads to an orderly end.
* **HCI device.** A reader holds a descriptor for as long as it listens, a failed advertising call
  for ever, and every call needs one. It is correct if descriptors run out only where calls failed,
  and a scan is not left on with nobody to read it unless something failed.
* **Link.** Each end hears of the connection from its own loop, at its own time, and may end it on
  its own. It is correct if the two SDKs agree on whether there is a connection, what is sent while
  it lasts arrives, and its end is told on both sides.
* **Report parser.** It is correct if each result it passes on is a report of the event.
* **Windows client.** A device is copied member by member on one thread and read on another;
  `isSendFinish` belongs to no send; a signal handler unregisters the client at any point.
* **Android demo.** Callbacks are served by a pool and may overtake each other; the spinner is
  filled from the map without the lock; the history is read on one thread and written on another; a
  click's own runnable overtakes those already posted.

The hazards, each at its line, are in `PROJECT.json`.

## Modules

Each component has a module; `MC<module>` instantiates it for TLC, `<module>Proofs` proves about it
(`HciDeviceProofs` also about `BleScan` and `BleAdvertise`). Operators have the names of the
functions they model; a function that another thread can interrupt is split at its accesses to what
is shared.

* `Channel` — the abstract specification: which events of a connection the SDK may hear, in what
  order. `EVENT_CONNECT` once, nothing after `EVENT_DISCONNECT`, data between the outcome and the
  end. The promise is void once connections overlap (`solo` is false).
* `BleScan` — the SDK's calls are one action, or two around the sleep of `stop_get_result`; a reader
  has one action for each access to the flag, each `read()` and each report.
* `BleAdvertise` — one action per HCI command; `Open`, `Fail`, `CloseAndFail` and `Return` are the
  ways into and out of a call. BleDriverInit changes nothing here: see below. `on`, `setting`,
  `adv`, `rsp` are the controller's.
* `GattClient`, `GattServer` — one action per step of the thread and per callback. Both refine
  `Channel` through `INSTANCE Channel WITH`: `phase`, `data` and `solo` have its names.
* `Transmitter` — one action per call of main; `Lists` is what GetAvailableDevice may return, a key
  remembers what stood on the screen when it was typed, and a block of memory is null, live or
  freed.
* `HciDevice` — extends `BleScan` and `BleAdvertise`, whose own Init, Next and so on therefore carry
  the half's name (`ScanInit`, `AdvInit`): the receiver's driver on its device. Its actions have the
  names of the fields of `g_fcAdaptBleOps`. A step of one half leaves the other's variables alone,
  the SDK is in one call at a time, and `hci_open_dev` succeeds only with a descriptor to spare of
  the one table. `BleDriverInit` is `GattServer`'s: all it changes is the thread it spawns.
* `BleLink` — composes `GattClient` and `GattServer`. Air, kernel and BlueZ are the glue: a dial
  succeeds on a thread that listens, callbacks need the other end, data under way is a pair of
  counters per direction, a link breaks when the radio, an error exit or `client_destroy` breaks it,
  and each loop finds out when it gets round to it.
* `Receiver` — main by its calls; a request is two steps, heard and confirmed, so that main may stop
  the service in between.
* `AdvReports` — the loop over the reports of an event as it walks the bytes. The bytes are modelled
  here because the question is where a report begins.
* `WindowsClient` — main by its waits, the listener by the three steps of a find, one handler thread
  for each signal. `g_sharedevice` is the set of devices whose members are in it.
* `AndroidDemo` — the UI thread takes runnables from a queue and clicks in between; a binder thread
  reads and posts the history, changes the map and posts the list, in the code's order. A set of
  call numbers stands for the text of the history.

History variables are listed apart in each module, read by no guard, and serve the properties:
`late`, `died`, `settled`, `lastStart` (BleScan); `result`, `told`, `whole`, `smooth`, `failures`
(BleAdvertise); `asked`, `dialed`, `phase`, `data`, `solo`, `hungUp`, `misuse` (GattClient);
`phase`, `data`, `solo`, `deinited`, `misuse` (GattServer); `meant`, `changed`, `failed`,
`interrupted`, `late`, `misuse` (Transmitter); `announced`, `sentTo` (WindowsClient); `dry`,
`spoilt` (HciDevice); `early`, `missed` (BleLink); `causes` (Receiver); `adrift`, `overtaken`,
`crossed` (AndroidDemo). `want` and `stale` of a key in the Transmitter's input are of the same
kind.

### What is assumed of code that is not here

* The SDK makes one driver call at a time. It may connect while connected, or init twice.
* BlueZ: `mainloop_init` resets the quit flag, callbacks run inside a main loop, a link stays up
  until the peer breaks it or the driver lets go of it.
* BlueZ: `mainloop_run` returns once quit is set, also by another thread. Its `epoll_wait` may in
  fact not notice a `mainloop_quit` of another thread (BleDisconnect, BleDriverDeinit) before its
  next event. So what is eventual in `LoopEndIsTold`, `ConnectIsClosed` and `BothHearTheEnd` is so
  for such a quit only if an event comes, that of the link being lost at the latest.
* BlueZ: no notification reaches `notify_cb` before `register_notify_cb` was called. The guard of
  `notify_cb` is this assumption; `ImplementsChannel` of the client and `OnlyEarlyNotesAreMissed`
  rest on it.
* Radio and kernel (`BleLink`): data of a link that is up arrive in order and are not lost; the link
  may break at any time; a closed descriptor ends the link for both; a `connect()` answered before
  `accept()` is held by the listening socket.
* Controller: it refuses parameters while it advertises (which is what the disable at line 134 is
  for), and stops advertising when a peer connects. A command that failed may have been carried out.
* Share kit: a BLE or WIFI status says that the transfer is over or cannot go on; a
  GetAvailableDevice that fails leaves its out-parameters alone.
* Share service (Android): it announces devices while it holds the callback; binder calls run
  concurrently; the looper is first-in first-out, and `runOnUiThread` runs at once on the UI thread.
  A HashMap that changes while it is iterated over throws, or shows some of what was in it.
* Windows: at most one DISCONNECTED for a send, the last of its statuses; the C runtime disarms a
  signal as it delivers it, and the next of its kind ends the process.

### Fairness

Weak fairness of each thread's own steps, since the scheduler runs what can run and the calls
return: `ThreadStep` of the connect threads (`connect()` has a timeout in the kernel), `RunStep` of
the server threads without `accept` (with it in `BleLink`, once a peer has dialled; there also the
loops' getting to data and to a broken link), the scanner's steps without `read()`, `UiStep` and the
binder steps of the demo, `Main` of the transmitter and of the receiver, `SendFile` and `Listener`
of the Windows client. Nothing is assumed of a peer, a user, the SDK, a signal, a status, or a
`read()`.

## Runs

| Run | Instance | What it shows |
|---|---|---|
| `scan` | 3 reader threads, 2 reports per event | At most one reader while the driver's timing holds (`AtMostOneReader`), a reader fed (`ReaderIsFed`), at most one event's reports passed on after a stop (`LateCallBound`), the flag stuck only by an error (`StuckFlagNeedsDeadReader`), a spawned scan listens (`SpawnedScanListens`) |
| `advertise` | 2 settings, 2 payloads, 2 descriptors | A 0 is true of the controller (`CallTakesEffect`); a call whose commands go well fails only once failed calls have kept every descriptor (`SmoothCallSucceeds`) |
| `hci` | 2 reader threads, 3 descriptors | No open finds the table used up before all but one descriptor may have been lost by failed advertising calls (`RunsDryByFailures`); a scan nobody reads has a failure behind it (`ScanHasReader`) |
| `client` | 2 connect threads, 2 addresses, up to the first overlap | The client implements `Channel`, dials what it was asked (`DialsAskedAddress`), uses its own live client, BleSendData a freed one only after a connection has ended (`NoMisuseAlone`), tells the end of a loop (`LoopEndIsTold`) |
| `client_hangup` | 1 thread, 1 address | *violation*: a BleDisconnect before `mainloop_init` is forgotten |
| `server` | 2 server threads | The server implements `Channel`, destroys its own live server, closes what it told (`ConnectIsClosed`) |
| `link` | 1 client, 1 server thread, 1 message each way, up to an overlap | The SDKs agree on a connection, but for a deinit of the receiver (`EndsAgree`); a notification is missed only if it was sent before the client was told CONNECT (`OnlyEarlyNotesAreMissed`); a write arrives unless the link breaks or an SDK ends it (`WritesArrive`); the end is told on both sides (`BothHearTheEnd`) |
| `transmitter` | 2 devices, numbers to 3, 2 files, 2 keys | The transfer goes to the device on the screen (`SelectionFromScreen`), `devList` and the names are used while they last and a `devNum` never set selects nothing (`ListIsLive`, `NamesOutliveTransfer`), as many names are given as were counted (`NamesAreWhole`), main ends once told (`EndsOnceTold`) |
| `receiver` | 3 transfers | A confirmed transfer is cut only by a status, a signal or the result of another (`TransferIsSeenThrough`); a finished one ends the program in order (`FinishEndsProgram`) |
| `windows` | 2 devices, SIGINT and SIGBREAK, 3 sends | A send has a whole device (`SendsWholeDevice`), waits for its own end (`FinishIsOfThisSend`) and gets it (`DisconnectEndsSend`) |
| `android` | 2 devices of one name, 2 binder threads, 2 clicks, 2 callbacks | The map follows the service (`MapFollowsService`), the screen settles to the map (`BoardSettles`, `SpinnerCatchesUp`), the history is complete unless texts crossed (`HistoryIsComplete`) |
| `adv_reports` | 2 reports, 1 byte of data | *violation*: the second report of an event is read a byte late |

Several hazards are the stated exception of the property that is about them. The models reach them,
and the property says that what it promises fails for that reason only; it does not report the
hazard itself. `settled` excepts the races of the scanner's flag (H1-H3 of the list in
`PROJECT.json`), `lastStart` a second start that fails (H5), `solo` connections that overlap
(H9-H11, H17), `deinited` the link a deinit leaves up (H15), `crossed` two texts put together at
once (H22), `overtaken` and `adrift` callbacks out of order and devices cleared from the map (H23,
H24), `stale` and `late` a key typed ahead (H25), `failed` a GetAvailableDevice that failed (H26),
`changed` a directory that changes between the two looks (H27). The reader that leaves the flag at 1
(H4) and the result that cuts another transfer (H39) are causes that a property names. Each such
hazard has a note that says so.

Why the bounds are enough. Three readers are one that a stop did not reach, one of the next start
and one on top. Two connections, servers or callbacks are what it takes to overlap or follow each
other; the pairs of values (addresses, devices, payloads) are what it takes to confuse them. Two
descriptors let one be lost with one left. A number of 3 on a list of 2 is one beyond it, 2 keys are
one typed ahead of another, 3 sends are one to leave its flag to the next and one more. In `hci` two
readers are one and one on top, three descriptors are a reader's, a lost one and one to spare, or
two lost; the values of parameters and data are `advertise`'s business. In `link` one connection
goes from its dial to its end; with two messages each way, or a second server thread, the same
properties hold (332,000 and 623,000 states) and no other case appears. Three transfers are one that
ends, one that it cuts and one that is asked for too late. The client's run follows a behaviour up
to and including the BleConnect that makes connections overlap (`UntilOverlap`, a state constraint):
its properties say nothing of what comes after, except for the types, and those are proved for every
behaviour; the link's run does likewise. Sequences of connections are `client`'s and `server`'s. The
theorems lift the bounds for the safety properties of every passing run.

`CHECK_DEADLOCK FALSE` is set for `transmitter`, `receiver`, `windows`, `android` and `adv_reports`
only: their processes end, or die of an exception, and the loop over one event is done.

Each property of a passing run has a mutant in its module, marked as such and used by no action: a
change of one definition as a slip in that code would make it, which breaks the property.

### Findings

1. `client_hangup`: BleDisconnect is `mainloop_quit`, which the thread's `mainloop_init` (508)
   resets; it returned 0 and the connection comes up.
2. `adv_reports`: the next report is taken at data + length + 2 (rx 694, tx 812), though RSSI, the
   last byte of a report, is read at data + length (rx 692): of an event with several reports, all
   but the first are passed on shifted.

What else the models show of the code: the `g_dev_id` that BleDriverInit assigns (tx 77, rx 300) is
a local variable that hides the global "hciX dev id" (tx 56), so every call opens device 0,
whichever was found; `g_nearbyCli` is never reset, so BleSendData (tx 853) passes its test and uses
the freed client once a connection is over (`NoMisuseAlone` excepts just this); server_destroy drops
neither the `bt_att` nor the descriptor, so a BleDriverDeinit leaves the link up and its client
believes in it (`EndsAgree` excepts just this); the receiver is told CONNECT before the client can
hear it, and what it notifies at once is lost; the Windows signal handler is armed before
`SynergySerObj` is built, which a comment (`ShareKitClient.cpp` 134) wants alive whenever the client
is unregistered; a reader that leaves by an error leaves `g_scan_running` at 1, and starts do
nothing until the next stop (`StuckFlagNeedsDeadReader` says this is the only way); discovery
without the service it looks for tells the SDK nothing; the server serves one peer and returns; a
number beyond the list (`sharekitdtx.c` 102) ends the selection without a device and main waits for
ever for a transfer it did not begin; `devNum` has no initialiser (117) and is passed on unset (132)
when a key or an Exit ends the selection in its first round, harmlessly, for the list is NULL then
(`ListIsLive`); the receiver confirms every request without the y/n it prints (`sharekitdrx.c` 51),
perhaps after it has stopped, and the result of one transfer cuts the others (57); a transfer may
begin after Exit was called; on the Android screen a list put together before a clear is shown after
it, under quantity 0 (`BoardSettles` excepts the empty map for this); a send to a Bluetooth name
goes to every device of that name (607); `isDeviceFound` of the Windows client is never reset, so
later sends do not wait for a device.

## Theorems

Every safety property of every passing run is proved for all values of the constants, from the named
assumptions on constants alone (finite sets of devices, bounds that are naturals, NULL outside the
sets it joins), and so are the refinements of `Channel`. Each proof module defines an inductive
`IInv`, proves `Init => IInv` and `IInv /\ [Next]_vars => IInv'` with one step per action, and draws
the properties from it. What had to be added to the properties to make them inductive:

* `HciDeviceProofs`, the scanner: `DeliverHasReport`; `LateBudget` (what a thread has passed on late
  and has left fits one event); `OneDecides` (one thread at most has yet to write the flag, and none
  beside a reader); `ThreadIsFed`. The advertiser: `StartProgress`, `DataProgress` (what is set by
  how far the call has come), `Descriptors` (no more lost than calls failed). Both are proved of the
  half alone (`ScanInvariance`, `AdvInvariance`).
* `HciDeviceProofs`, the device: each step of the driver is by definition a step of either half or
  leaves it alone (`StepOfScan`, `StepOfAdv`), so the invariants of the halves carry over, and only
  what joins the halves is left: `OneHolder` (one reader holds a descriptor at most) bounds the
  table for `RunsDryByFailures`, `ReaderLeaves` and `CallKeepsReader` show `ScanHasReader`.
* `GattClientProofs`: `OneThread`, `OwnClient` (live exactly while its thread is in the loop or
  about to destroy it, with g_nearbyCli pointing to it), `ConHolds`, `ConSet`, `Hears` (the phase by
  where the thread is). `KeepsPromise` is the refinement: each step is one of `Channel` or stutters.
  `SendFinds`: what BleSendData finds behind the pointer is a client that was made, so if it is not
  live its connection has ended.
* `GattServerProofs`: `OneThread`, `OwnServer`, `Hears`; `KeepsPromise` likewise.
* `BleLinkProofs`: each step of the link is by definition a step of either driver or leaves it alone
  (`StepOfClient`, `StepOfServer`). So the invariants of both drivers, and their promises to the
  SDKs (`BothKeepTheirPromises`), hold at the two ends, and what is left is what joins them.
  `PeerWasTold`: discovery is answered by a server in its loop, and that has told CONNECT
  (`DiscoveryNeedsPeer`, `ServingWasTold`). `ServerEnd`: a server's end is due to a deinit or to a
  link that is gone. The two give `EndsAgree`. `NotesInOrder`: until a client has its handler of
  notifications every notification is an early one, and one that is taken up without a handler was
  among those; it gives `OnlyEarlyNotesAreMissed`. `ClientOfProofs` and `ServerOfProofs` say that
  the instances of the proof modules mean the same as those of `BleLink`.
* `TransmitterProofs`: `NamesCounted`, `TransferHasNames`, `ListHolds` (devNum is the length of the
  list, and unset only while there is none), `ScreenIsList` (the screen shows devList unless another
  is about to be printed), `KeysMeanScreen`, `DevIsMeant`.
* `ReceiverProofs`: `ExitsHaveCauses`, `ServiceIsAwaited` (the service is stopped after the wait
  only, and the wait ends for a cause), `AskedInTheWait` (once a peer has asked, main waits or a
  cause has ended the wait). A transfer is cut or late in a step that finds a cause; if that is a
  result only, another transfer has finished.
* `WindowsClientProofs`: `DeviceIsWritten` (a flag that is set has a whole device behind it),
  `SendIsOfAnnounced`, `SendsLeft`, `FlagIsOfSend`.
* `AndroidDemoProofs`: `Numbered`, `NewestIsTrue` (of the callbacks about a device that have not
  changed the map, the newest tells what the service sees), `ScreenOrRefresh` and `ListOrRefresh`
  (the screen is right or a refresh comes), `OneTextUnderWay`.

`AndroidDemoProofs` also proves what no run checks: a send goes through devices that stay in the map
(`ListedTargets`).

Only model-checked: the liveness properties, since the proof system does not reason about fairness
of actions or about ENABLED. What they rest on beside the scheduler is proved for most of them, that
is, that what a thread waits for is not taken away before it has seen it:

| Liveness, checked | Safety under it, proved |
|---|---|
| `LoopEndIsTold`, `ConnectIsClosed` | `EndIsKept` of either driver: a lost link has the quit request standing, and a request stands until DISCONNECT is told; no `mainloop_init` resets it while connections do not overlap |
| `BothHearTheEnd` | `EndReachesLink`: a client that is over has let go of the link, and a link that has ended does not come back; `EndsAreKept`: the above at both ends |
| `EndsOnceTold` | `EndsInOrder`: Exit is final, and every step of main then lessens `CallsLeft`; at the end the kit is off |
| `FinishEndsProgram` | `FinishIsKept`: a finished transfer has ended the wait, and main, which has no other loop, returns with the kit off |
| `DisconnectEndsSend` | `TellIsKept`: a DISCONNECTED that was told stands until main looks |
| `SpawnedScanListens` | `StuckFlag`: a thread that finds the flag at 1 leaves it to a reader that is alive, or one has died |
| `SpinnerCatchesUp` | `ListOrRefresh`, a part of the demo's invariant |
| `WritesArrive` | none |

What `AdvReports` computes stays with TLC as well: its layout of an event is a fold over the
reports, and it has a counterexample, no theorem. No module uses RECURSIVE operators.

## Not modelled

* The share kit, the share service, BlueZ and the radio: no source. Assumptions above.
* The EMUI demo: one thread, an intent per click, no state.
* The Chinese copies: the Linux drivers and programs are the same C code, the demos differ in texts.
* Contents of reports (but for where they begin), names, files and messages, permissions, layout and
  logging.
* BleSetParam, BleGetParam: they change nothing. BleDriverInit of the transmitter: what it finds is
  kept in a local variable.
* A second process that uses the same adapter, and memory that runs out.

## Plan

Done: the drivers first, for they carry the concurrency the rest depends on (`BleScan`, `Channel`,
`GattClient`, `GattServer`, `BleAdvertise`), then the applications (`Transmitter`, `WindowsClient`,
`AndroidDemo`, `Receiver`), the compositions (`HciDevice`, `BleLink`) and the report parser
(`AdvReports`).

Left: `ShareSession`, that is, `Transmitter` and `Receiver` with one share kit between them. It
needs an assumption on what the kit tells the two sides of one transfer; no document of the
repository says it.
