# A verification development for the Femto Mega streamer

This directory holds TLA+ models of the software in the repository, the TLC
configurations that check them on small instances, and proofs that TLAPS checks.
`PROJECT.json` lists the runs, the theorems, the source lines of every
definition, the hazards and the findings.

Run `tlc -config X.cfg M` for a pair of module and configuration of the table in
"Runs", and `tlapm M.tla` for a module named `*Proofs`.

## The system

The repository drives Orbbec Femto Mega cameras. Its own programs are small; most
of its files are the vendor's SDK headers, configuration and examples.

| Component | Source | State it keeps | Operations | Who it talks to |
|---|---|---|---|---|
| Signaling server | `webrtc_streamer/src/signaling_server.cpp` | map from WebSocket to role, one mutex | onClient, onMessage, onClosed, onError | streamer and pages, over WebSockets |
| Streamer, signaling half | `webrtc_streamer/src/main.cpp` 21-171 | one peer connection (local and remote description, gathering, signaling state), one WebSocket | constructor, ws onOpen / onMessage, gathering callback | signaling server |
| Streamer, streaming half | `main.cpp` 173-280 | `sbsFrame`, `compConfig`, video track, device | `run()`, `handleControlMessage` | camera, compositor, encoder, page |
| Compositor, encoder | `sbs_compositor.hpp`, `h264_encoder.hpp` | size of the encoder | `compose`, `encode` | called by `run()` |
| Web page, signaling half | `webrtc_streamer/web/index.html` 112-170 | timer, `offerReceived`, peer connection | ws.onopen, interval, ws.onmessage (async), gathering callback | signaling server |
| Web page, viewing half | `index.html` 25-103, 179-279 | view select, shader mode, data channel | controls, ontrack, ondatachannel | streamer, over a data channel and a video track |
| Camera verification tool | `verification_tool/verify_camera.cpp` | options, counters, verdict | argument loop, device loop, `verifyDevice` | SDK, the shell (exit code) |
| Local viewers | `view_camera.cpp`, `view_sbs.cpp` | one loop with its windows | keys, console, windows, framesets | SDK, OpenCV, the user |
| ROS 2 bridge | `ros2_bridge/src/femto_mega_node.cpp` | pipeline, cached camera infos, publishers | constructor, `process_frames` (timer) | SDK, ROS topics, TF |
| Frame pairing example | `OrbbecSDK/examples/.../3.advanced.multi_devices_sync` | a queue of 16 frames per sensor, mutex and condition variable | `processFrame` (SDK thread), `getFramePairs` | SDK, viewer window |
| Viewer window of the examples | `OrbbecSDK/examples/src/utils/utils_opencv.cpp` | frame groups, mats, worker thread | push, run, close, reset | examples |
| Firmware update examples | `2.device.firmware_update`, `2.device.multi_devices_firmware_update` | target device, device after the reboot; result flags, lists | two-stage update; update of all | SDK |
| Playback example | `2.device.playback` | playback status, `exited`, replay thread | status callback, replay, stop | SDK, viewer window |
| Hot plug in common_usages | `3.advanced.common_usages` | device and pipeline, one mutex | device changed callback, open, let go | SDK |
| Other examples, SDK headers, cJSON, build files | | | | |

What is hard in it:

* **Threads of libdatachannel.** The callbacks of the server run concurrently
  with each other; those of the streamer run concurrently with its constructor
  and with `run()`, which shares `compConfig` and the video track with them
  without a lock.
* **Messages without acknowledgement.** An offer may be pushed before anyone
  listens, requested again and again, answered twice, and every text reaches
  every other connection, also the wrong one.
* **Awaits.** The page's message handler lets other handlers run at three places.
* **Partial failure.** Sends that throw, cameras that fail at any step, frames
  that are damaged or missing.
* **Condition variables.** The window, the playback and the frame queues each wait
  in their own way, and not all of them notify under the mutex of the wait.
* **Hot plug.** Cameras come and go while one thread opens and another lets go.
* **Time.** Waits of fixed length inside a loop with a deadline.

What makes each component correct is stated by the properties below; the list of
hazards in `PROJECT.json` says which property watches which line.

## Modules

| Module | What it models |
|---|---|
| `BroadcastHub` | What the server promises: texts of one client in order, each to all the other open clients in one step. No map, mutex or callback. |
| `SignalingServer` | The server: one action per locked scope, with the library's connections around it. |
| `SignalingServerProofs` | Theorems about `SignalingServer`. |
| `SignalingTexts` | The texts: a request, an offer, an answer. |
| `StreamerPeer` | The signaling half of the streamer. |
| `BrowserPage` | The signaling half of every page. |
| `Session` | Streamer and pages over the hub. |
| `SessionOverServer` | Streamer and pages over `SignalingServer`. |
| `SessionProofs` | Theorems about `Session` (with `StreamerPeer` and `BrowserPage`) and `SessionOverServer`. |
| `StreamLoop` | `run()`, compositor, encoder and `handleControlMessage`. |
| `VideoView` | `StreamLoop` with the viewing half of the page and the data channel. |
| `VideoViewProofs` | Theorems about `VideoView` and `StreamLoop`. |
| `VerifyCamera` | The verification tool. |
| `VerifyCameraProofs` | Theorems about `VerifyCamera`. |
| `PipelineHolder` | The bounded frame queues of the multi-device example. |
| `FramePairing` | `getFramePairs` over these queues. |
| `MultiDeviceSync` | `testMultiDeviceSync`: start, view loop, stop; with `FramePairing`. |
| `MultiDeviceSyncProofs` | Theorems about the three. |
| `CVWindow` | The viewer window under its simplest program. |
| `DeviceFirmwareUpdate`, `MultiFirmwareUpdate` | The two firmware updates. |
| `FirmwareUpdateProofs` | Theorems about them. |
| `DevicePlayback` | The playback example. |
| `FemtoMegaNode`, `FemtoMegaNodeProofs` | The ROS 2 node, and theorems about it. |
| `CommonUsages` | Hot plug in common_usages. |
| `LocalViewers` | `view_camera` and `view_sbs`. |
| `ProgramsProofs` | Theorems about `CVWindow`, `DevicePlayback`, `CommonUsages`, `LocalViewers`, and about all programs of `MCPrograms` together. |
| `MC*` | Instances for TLC. `MCPrograms` holds the independent programs side by side. |

Some definitions are called "wrong variant of" another. No action uses them.
Each is the neighbouring definition with a plausible mistake in it; putting it in
the place of the right one must make a run fail, which shows that the property
watches the code and not only the model.

### SignalingServer

`clients` is the map (line 16), "absent" for a connection that is no key. A
`lock_guard` scope is atomic, so `onMessage` is `Identify` (lines 31-45) and
`Relay` (47-63), with `task` in between; `onClient` is `OnClient` (24-29) and
`AttachCallbacks` (31-75). `operator[]` makes an entry where there is none:
`RoleOf` and `Identify` keep that, so the model has the entries of dead
connections that the code leaves behind. `Drop` is the end of a connection;
the calls of `onClosed` and `onError` that it causes are in `events` and happen
at any later time, before or after texts that are still queued.

Assumed of libdatachannel, and modelled from how the code uses it: `onMessage` of
one connection does not overlap with itself; it may overlap with everything else;
texts received before the callback is set are kept and delivered after it; a
callback that is set after the event is not called for it; `send` on a connection
that is not open throws.

### StreamerPeer, BrowserPage, Session

The streamer's constructor is before line 153, before line 155 or done (`ctor`),
because callbacks may run in between. `localDesc` may hold from the start: the
library may negotiate by itself when the data channel and the track are added.
`GatheringComplete` pushes the offer only if the callback is set. `OnRequest`
sends the description of the moment, complete or not. `OnDescription` takes any
description for an answer.

A page keeps the browser's chain of peer connection operations as a queue:
`OnMessage` is the handler up to its first await, and `SetRemote`,
`CreateAnswer`, `SetLocal` are the awaited operations, each of which enqueues the
next one of its handler. So the handlers of several offers interleave at the
awaits as they do in a browser. A page may refuse a description that is no offer
(`RefuseRemote`) or accept it.

`Session` replaces the server by `BroadcastHub`, which keeps its runs small.
`SessionOverServer` has the server itself: the actions of `SignalingServer` for its
callbacks and connections, those of `Session` for the streamer and the pages.
`SessionProofs!ImplementsSession` proves that it implements `Session`.

Texts carry their author, whom they answer, and whether all candidates are in
them. The code reads none of this; only properties do.

### StreamLoop, VideoView

`pc` is where `run()` stands. `compose` is up to four actions, one for each time
it reads the shared mode: `Compose` and `ComposeRest` choose the layout (lines 66
and 68), `Overlay` and `OverlayRest` the caption (77 and 78). `switched` remembers
that the mode has changed since the first of them. An image is its layout, whether its caption fits it, whether it shows the frameset
of this turn, its width in colour images and how much of the width is filled.
`Send` fails when the track has closed since `CheckTrack`. `SetDevice` stands for
the laser, exposure and gain messages, which dereference a null device in dummy
mode. An exception of `waitForFrameset` (`CameraFails`), of `compose` or of `send`
ends the process; `failure` says which. `VideoView` adds the page: the select, the
shader's mode, the data channel. `Handle` is `handleControlMessage`, one message at
a time. `ViewTakesEffect` follows one request of the page all the way: if the user
leaves it at that view, what is sent is in the end always laid out that way, whatever
older requests were on their way and whatever `compose` was doing.

### VerifyCamera

One thread; the environment chooses the command line, the number of cameras,
which frames arrive and where the SDK throws. Time is counted in frame periods; a
`waitForFrameset` that gives up takes `Wait` of them. A frameset always is one of the
device under test: the pipeline of the device before is gone by then.

### PipelineHolder, FramePairing, MultiDeviceSync

A frame is its camera and its timestamp. The timestamps of one stream grow: that is
assumed of the SDK, also when it adjusts the cameras' clocks (line 252 enables the clock
synchronisation, key S repeats it), and the order and closeness of the frames
rest on it. `ProcessFrame` is the SDK's callback with
its critical section (pop of a full queue, push). Every look of the main thread at
a queue takes the lock anew, so each is an action: `HolderReady` and
`HolderNotReady` (`isFrameReady` of one holder), `SortFrameMap`, `TakeReference`,
`CompareFront` and `TakeFrame`, and the SDK's threads run in between. The comparator
of the sort reads the fronts again and again; a holder whose queue is full may
therefore end up anywhere, the others are in order, since a queue that is not full
keeps its front. `TimeOut` is the limit of 200 ms, which the code looks at only
between two rounds. Timestamps are unsigned: `DiffTsp` wraps at `Two64`.

`MultiDeviceSync` is the thread around it: a depth and a color holder per camera,
`startStream` in two steps because the callback may run before `startStream_` is
set, or not at all when the SDK throws; the view loop; ESC, which closes the window
in the key callback; the stop; `MainThrows`, an exception of the SDK, which ends the
program. `dropped` remembers which queues dropped frames
during this turn of pairing.

### CVWindow

`worker` is where `processFrames` is; `"locked"` is between its test of `closed_` and
its sleep. `close()` is `CloseBegin` (closed and notified), `CloseJoin` and
`CloseClear`, `run()` is `RunEsc` or `RunNoEsc`, and the program of `quick_start`
drives them; `WaitThrows` is an exception of its `waitForFrameset`, which leaves through
the window's destructor. A group without frames is a group all the same: a null
frameset, pushed after a wait in vain, makes one. What is drawn is abstracted to
which frame of which group has a mat; `DrawThrows` is an exception of `visualize`, which
nothing on the thread catches. In `arrangeFrames` the search for the grid (lines 292 to
302) is a loop of the model, with a step for each of its two tests (`AddColumn`,
`AddRow`); a single mat and the other layouts have no control of their own and are the
one step `ArrangeOther`.
`missed` remembers that the notification of `close()` came while the worker was at
`"locked"`.

### DeviceFirmwareUpdate, MultiFirmwareUpdate

A handle is a serial number and the connection it was opened on; calls through a
handle of an ended connection throw. `DeviceAdded` is the callback on the SDK's
thread, at any later time than the arrival it tells of, also while the first update
goes on. The rounds of 5 s are `WaitEnds`, `LookForDevice`, `KeyYes`, `KeyOther`,
`KeyQuit`. What the callback of the update prints is left out. In
`MultiFirmwareUpdate`, `UpdateStatus` is the SDK's callback with any
sequence of statuses, `SortDevice` the choice of a list, `Summarize` the summary, which
asks devices for their names and may fail.

### DevicePlayback

The wait of the replay thread is two steps, the test of its predicate and the
sleep; the status callback and main notify without the mutex. `missedBy`
remembers whose notification fell between the two. `pipe->start` and `pipe->stop` may
throw. On the replay thread nothing catches that, and in main (line 92) the handler
cannot be reached, since the thread is still joinable: either way the process ends.

### FemtoMegaNode

One action per block of the constructor, with the outcomes that its try blocks
leave behind; `ProcessFramesOf` is a turn of the timer with any frames and any of
them damaged. `raised` remembers which calls have thrown.

### CommonUsages

Opening is two steps under `deviceMutex` (`opener` is its owner), because letting go
does not take the mutex: `DropDevice` and `DropPipeline` are two steps that may fall
between them. `AwaitDevice` and `UseDevice` are main's test and first use of the
device, without the lock. At the end main stops the pipeline it finds, unregisters the
callback and resets pipeline and device, each a step of `EndUsages`, while the
callback may be anywhere. `StreamFails` and `CallbackThrows` are the exceptions of the
SDK; one in the callback may end the program or only the callback, which depends on
the SDK. The commands of the console are left out: they set properties of the device,
and those for gain (lines 747 to 849) test and use it without the lock, as main does.
`mishaps` remembers two events that the property excepts. At least one
connection of a camera must be possible (`MaxPlugsAssumption`): main starts with
cameras that are connected.

### LocalViewers

One loop with the five places where it looks at something. A click on the close
button takes effect in `waitKey`; `imshow` makes a window that is not there. The keys
pressed in the windows are a queue, of which `waitKey` takes one a turn, as `read` does of the
characters on the console.

### MCPrograms

The seven programs above are independent of each other: no two share state. The
module puts them side by side and lets exactly one start, so one run checks each
alone; their next-state relations and their properties are those of their modules.

## Runs

| Run | Module, configuration | Shows |
|---|---|---|
| server | `MCSignalingServer` | three connections, two texts: types, `LiveClientsRegistered`, `RoleSticks`, refinement of the hub (`IsBroadcastHub`) and its liveness (`NothingStuck`) |
| session_one | `MCSession`, `MCSessionOne.cfg` | one page: it gets an offer and stops asking, the streamer gets an answer, no offer stays unanswered |
| session_server | `MCSessionOverServer` | two pages over the detailed server, the streamer's connection may end: types, the streamer only applies answers to its own offer |
| session_foreign | `MCSession`, `MCSessionForeignAnswer.cfg` | finding: a page applies another page's answer as an offer |
| session_candidates | `MCSession`, `MCSessionCandidates.cfg` | finding: neither side may ever get all the candidates of the other |
| video | `VideoView`, `MCVideoView.cfg` | no stale image, caption, page and compositor agree, images keep being sent, the view picked last takes effect |
| video_track | `VideoView`, `MCVideoViewTrack.cfg` | finding: `run()` sends on a track that has closed |
| video_color | `VideoView`, `MCVideoViewColor.cfg` | finding: a colour frame is half black |
| verify | `MCVerifyCamera`, `MCVerifyCamera.cfg` | exit code, bounded time, termination |
| multi_sync | `MCMultiDeviceSync` | queues, no null front, pairs of one camera and close in time, what is shown never goes back, pairing comes back |
| programs | `MCPrograms` | each of the programs side by side: window with its grid, two firmware updates, playback, ROS node, hot plug, viewers |
| verify_arguments | `MCVerifyCamera`, `MCVerifyArguments.cfg` | finding: a malformed number aborts the tool |

Deadlock is not checked in any run: a finished exchange, a dead process or the
end of the tool are states where the system really stops, and the bounds below
stop it too.

### Bounds

* server: three connections and two texts in all (`MaxSends`). Two connections
  can interleave in every pair of scopes; the third is the bystander that a relay
  must reach. The theorems do not have the bound.
* session: a page asks only while fewer than `MaxInFlight` texts travel, because
  its timer takes two seconds and a relay milliseconds; a page handles
  `MaxTexts` descriptions. With one page 3 and 8: late and early answers, several
  requests and their offers are all in. With two pages over the server 1 and 1: both
  pages may answer the offer, or one the offer and the other that answer, and each
  answers again with its candidates, so that the streamer has up to four answers to
  choose from; more texts multiply the positions of the callbacks. The theorems do
  not have the bound. `Droppable` are the connections that may end.
* video: two control messages on their way: an older request is still to be handled when
  the last one is made.
* verify: two cameras, a timeout of three frame periods, command lines of up to
  four words.
* multi_sync: one camera with five frame times or two with two; queues of two
  frames. A queue fills up, drops, and is read between two drops; a frame of one
  camera is too far from the other's; the theorems do not have the bound.
* programs: two groups of two frame types in the window, which is enough for grids
  of one to four; a camera that connects at most three times (before, after the
  first reboot, and once more); two devices in the multiple update, so that flags
  could be those of the device before; two cameras, three connections of each and
  two pending callbacks for the hot plug; two characters waiting on the console and two
  keys in the windows.

### Fairness

* server: the library runs every callback that is due, and the mutex is free
  again and again because each scope is short and takes no other lock. Nothing
  makes a client send, read or leave.
* session: threads, timers and transports do not stop. The liveness properties
  hold under `AllStayOpen` because neither side connects again after a
  WebSocket ended.
* video: `run()` goes on, a working camera delivers complete framesets again and
  again (strong fairness, since incomplete ones may come in between), and the
  data channel delivers. Nothing makes the user act or the connection end.
* verify: one thread that the system runs, and `waitForFrameset` returns.
* multi_sync: the main thread is scheduled. While it waits for frames it tests the
  clock again and again, so the limit of 200 ms is strongly fair.
* programs: the threads of the window, the playback and the viewers are scheduled,
  and the SDK reports a change of the playback status. Nothing need throw. A sleeping thread need not
  wake up by itself, and nothing makes the user act.

## Proofs

Every invariant and every action property of the passing runs is a theorem. The run
shows it on a small instance; the theorem holds for all values of the constants,
among them the bounds of the runs.

`SignalingServerProofs` proves for every set of connections and texts:

* `TypeCorrect`, `LiveClientsStayRegistered`, `RolesStick`;
* `ImplementsHub`: the server implements `BroadcastHub`.

The argument: `LiveClientsRegistered` is not inductive, because a pending
`onClosed` could erase the entry of a live connection. The invariant `IInv` adds
that calls are pending only for connections that have ended, and what `task` says
about the queue. The refinement needs it in one place: `Relay` reaches exactly the
open clients, because all of them are keys of the map, and the dead keys are not
open.

`SessionProofs` proves, for any number of pages, any connections that may end, and any
number of texts on their way:

* `TypeCorrect`;
* `NoOfferStaysOpen`: a page with nothing queued has no offer left to answer;
* `AppliedIsAlwaysOurs`: what the streamer applies answers its own offer;
* `AppliedForGood`: what it has applied is never replaced, although more answers come.

The first two need what each end knows by itself (`EndsInv`). While a page's peer
connection has a remote offer there is, somewhere in its queue, the operation that
answers it: a `createAnswer`, or a `setLocal` for the description created last. Of
handlers that overlap, the one that creates its answer last succeeds, the others may
fail. The streamer's offer is open until it applies a description, and it makes one
offer only.

`AppliedAnswerIsOurs` is about all peers at once. A page answers any description,
answers of other pages included, so answers to pages do exist; that none of them is
applied is a matter of order. `ExchangeInv` says why. Who knows an answer of another
page has it from a relay, and that relay took it to the streamer in the same step: so
either a description has reached the streamer (or its connection has ended), or every
page so far knows only the streamer's offers (`Reached`, `KnowsOnlyOffers`). The first
description in the streamer's queue therefore answers the streamer (`OursFirst`), and
it is the one applied. `QuietBefore` covers the time before the streamer is a member,
when a relay does not reach it: then there is no description at all. The argument
stands on the delivery to all members in one step: without the server's mutex around
the whole relay it would be lost.

The rest is about the server as it is written:

* `ImplementsSession`: `SessionOverServer` implements `Session`;
* `OverTypes`, and `AppliedIsOursOverServer`, which follows from it.

`ImplementsHub` says what the server promises clients that send and read whenever they
can, one text at a time. The streamer takes a request and sends its offer in one step,
which no single step of such a client is, so the composition is proved by itself. Its
invariant `OverInv` is `SessionInv` together with what the server knows
(`ServerInv`: every live connection is in the map, callbacks are pending only for
connections that have ended, an onMessage between its scopes still holds its text).
The two are proved together: the server's part is what makes a relay a step of
`Session`, and the session's part is what shows that the streamer and the pages leave
the server's part alone (`PeersKeepTexts`).

`VideoViewProofs` proves, for any interleaving of `run()` with
`handleControlMessage`, the track and the page, and for any number of control
messages on their way:

* `TypeCorrect`; `OnlyTheCurrentImageIsSent`;
* `PageAndCompositorAgree`; `CaptionAlwaysNamesLayout`.

`LoopInv` says what `sbsFrame` is at each place of the loop: after the image was
aged, one that is empty or old reaches the encoder's part of the loop only when the
format is one that the compositor does not know, and then it is empty, since no
image has ever been made. It also ties layout and mode together as long as
`switched` is false. `ViewInv` looks at the channel: either the last mode asked for
in it is the shader's, or there is none in it and the compositor already is in the
shader's mode. `AppendModes` and `TailModes` are the two facts about sequences that
it needs.

`VerifyCameraProofs` proves, for all parameters and command lines: `TypeCorrect`;
`TimeIsAlwaysBounded` (timeout and one wait); `ExitAlwaysSumsUp`. The last needs
`VerdictInv`: the selected devices before `dev` have a verdict, no other has one,
and `allOk` is the conjunction of the verdicts.

`MultiDeviceSyncProofs` proves, for any number of cameras, any length of the queues
and any timestamps: `Types`, `QueuesTheorem`, `NoNullFrontTheorem`, `OnePairTheorem`,
`PairsAreCloseTheorem`, `ViewTheorem`. `NoNullFront` is not inductive: that a queue
stays non-empty needs that `order` is a permutation of `holderList`, that the holders already found
ready still have frames, and that only this thread takes any. The second invariant
says what is in `taken` at each place: the slots of the holders before `k` hold a
frame of their own camera, at least as new as the reference. `OnePairPerDevice` also
needs that different cameras have different indices, which `StartIndex` gives.
`ViewNeverGoesBack` compares two turns of the view loop. `ViewInv` keeps, for each
sensor, three things in order at all times: what the window shows, what is taken in
this turn, and what is queued. Each is older than the next, and the last frame
delivered is no older than any. A frame that is pushed, dropped from a full queue, or
given up after 200 ms leaves that order as it is.

`FirmwareUpdateProofs` proves, for any number of cameras and reconnections,
`UpdateTypes` and `SecondUpdateTheorem`, and, for any number of devices,
`ListedTheorem`. The first needs that no handle of the own camera that the callback
may still bring is of the first connection; the second what the flags say about
the statuses seen so far.

`ProgramsProofs` proves

* `GridTheorem`: the grid that the loop of `arrangeFrames` ends with has room for every
  image, and with one row or one column less it would not, for any number of images.
  At its first test the grid is still the square of the start, or it fits; at the
  second it has a column more than a grid that was too small (`GridInv`);
* `ClearedTheorem` and `NothingPlaysTheorem`, for any groups of frames, and with the
  replay thread and main starting and stopping the same pipeline;
* `OpenDeviceTheorem`, for any cameras, connections and callbacks to come;
* `ProgramsTypes` and `ProgramsAreSafe`, about `MCPrograms`.

`OpenDeviceIsConnected` speaks only of moments when everything is settled, so what
leads there has to be stated for all others (`UsagesInv`). An open device that is no
longer connected has a callback to come that tells of its removal (`LeavesInv`); of the
threads that open and let go, each finds what it expects, except between the two
resets (`OpeningInv`). That a connected camera is open in the end needs that somebody
will open it: main, from its list, or a callback to come that tells of its arrival
(`ComesInv`). A camera may leave and come again while its first arrival is still in
the list of callbacks; `ChainInv` says that what has left before it came again will be
told to have come.

`EachProgram` proves that the programs side by side implement the specification of
each program: a step of the composition is a step of one and changes nothing of the
others. So what is proved of a program alone holds in the run of all.

`FemtoMegaNodeProofs` proves `PublishedTheorem`.

The assumptions are those the modules state about their constants
(`ParametersAssumption` and the like) and what is said above of the libraries. Those
about model values say only that a value that stands for "none" is no member of the
set it is added to (`NoneAssumption`, `PeerAssumption`, `CamerasAssumption`).

Only model-checked: every liveness property (`NothingStuck`, `EveryPageGetsAnOffer`,
`StreamerGetsAnswer`, `KeepsSending`, `ViewTakesEffect`, `Terminates`, `PairingComesBack`,
`DrawsAgainAndAgain`, `CloseEnds`, `PlaybackEnds`, `PlaysAgainAndAgain`, `QuitIsHeard`),
because the prover knows neither fairness nor ENABLED.

## Findings

`PROJECT.json` quotes the lines. In short: pages apply each other's answers; the
push of the complete offer can be lost and early offers then leave both sides
without candidates; a track that closes ends the streamer; the colour and depth
views are half black; a malformed option aborts the verification tool.

No document contradicts the following defects of the examples, so no run refutes a
claim about them; the properties except exactly these cases, and a history variable
names them:

* `utils_opencv.cpp` line 233: the worker waits without a predicate, and `close()`
  notifies under another mutex. A notification between the test of `closed_` and the
  wait is lost and `close()` joins for ever (`CloseEnds`, `missed`).
* `device_playback.cpp` lines 42 to 45 and 93 to 94: what the replay thread waits for
  changes without its mutex. A lost notification of the SDK ends the replays, one of
  main's ends nothing: `join` waits for ever (`PlaysAgainAndAgain`, `PlaybackEnds`,
  `missedBy`).
* `common_usages.cpp` lines 186 and 187: device and pipeline are reset without the
  lock. Main may open a camera between the two and lose its pipeline, or start a
  stream on a null one; lines 93 to 98 test and use the device without the lock
  (`OpenDeviceIsConnected`, `"between"`, the place `"crashed"`).
* `common_usages.cpp` lines 121 to 131: main stops and resets without the lock while the
  callback may open a camera; either may use a pipeline that the other has reset.
* `index.html` line 48: a view that is picked while only shader or channel is there
  separates the two (`ViewsAgree`, `halfChange`).
* `sbs_compositor.hpp` lines 66 to 78: layout and caption may come from two modes
  (`CaptionNamesLayout`, `switched`).
* `main.cpp` lines 178 and 242, `sbs_compositor.hpp` line 62: a null device in dummy mode,
  a camera that fails and a damaged frame end the process (`KeepsSending` and
  `ViewTakesEffect`, `failure`).
* `femto_mega_node.cpp` line 123: a calibration that fails leaves messages in frames
  without a transform (`PublishedFramesAreKnown`, `raised`).
* `PipelineHolder.cpp` line 52: a frame that is dropped after it was compared is replaced
  by the next one (`PairsAreClose`, `dropped`).
* `PipelineHolder.cpp` line 65: with a stream that failed to start the pairing
  waits for ever, and the window is dead (`PairingComesBack`, `WaitsForAFailedStream`).

## Not modelled

* The SDK, libdatachannel, FFmpeg, OpenCV, Three.js, ROS and the browser themselves
  (they appear as assumptions); image contents, colormap, printed text, the fields of
  messages.
* `stop()` of the streamer and `reset()` of the window, which nothing calls; the end of the
  server's `main()`.
* A second thread that closes the window (`common_usages.cpp` line 107,
  `laser_interleave.cpp` line 167): `CVWindow` has one.
* The configuration of the multi-device example and its keys S and T, and the input
  commands of common_usages: sequences of single SDK calls.
* The other examples, one SDK call each; the headers of the SDK (declarations and
  thin wrappers around a library that is not in the repository), cJSON, build files.

The last group is most of the repository's lines (headers, cJSON and the remaining
examples). There is next to no control in it to model, so the share of all lines
that the models stand for stays small; it is large for the programs that are the
repository's own.

## Plan

1. Done: server, hub and refinement; session; streaming loop and view;
   verification tool; multi-device example; the programs of `MCPrograms`; theorems
   for every invariant and action property of the runs.
2. Next, theorems beyond the properties of the runs: that any two peers see the texts
   they both get in the same order; abstract specifications of the window and of the
   hot plug, with their refinements.
