---------------------------- MODULE CommonUsages ----------------------------
(***************************************************************************)
(* 3.advanced.common_usages: one camera is open at a time, opened by main  *)
(* from a query or by the device changed callback when it arrives, and let *)
(* go by the same callback when it leaves.  Opening holds deviceMutex;     *)
(* letting go resets device and pipeline without it, and so does main when *)
(* the window is closed.  Left out are the commands of the console, which  *)
(* test and use device without the lock too, and the frames.               *)
(***************************************************************************)
EXTENDS Integers, Sequences, FiniteSets

CONSTANTS
    Cameras,       \* the cameras
    MaxPlugs,      \* bound: connections of one camera
    MaxChanges     \* bound: callbacks to come

ASSUME CamerasAssumption == "none" \notin Cameras /\ IsFiniteSet(Cameras)
ASSUME MaxPlugsAssumption == MaxPlugs \in Nat \ {0}
ASSUME MaxChangesAssumption == MaxChanges \in Nat

NoCamera == [cam |-> "none", plug |-> 0]
Plugged == [cam : Cameras, plug : 1..MaxPlugs]

VARIABLES
    cPc,       \* where main is
    cUsed,     \* the cameras of this run
    plug,      \* the connection of each camera, 0 when it is not connected
    plugs,     \* the number of connections it has had
    changes,   \* the callbacks to come: [removed, added]
    found,     \* devices, the list main has queried
    device,    \* device
    pipeline,  \* the device of pipeline
    opener,    \* the thread between opening and starting: "main", "sdk" or ""
    callback,  \* where the SDK's callback is
    mishaps    \* "failed": opening failed in a callback; "between": main opened
               \* between the callback's two resets (a history variable)

usagesVars == <<cPc, cUsed, plug, plugs, changes, found, device, pipeline, opener,
                callback, mishaps>>

UsagesTypeOK ==
    /\ cPc \in {"idle", "query", "open", "starting", "await", "use", "run", "stop", "stopping",
                "unregister", "reset pipeline", "reset device", "end", "failed", "crashed"}
    /\ cUsed \in SUBSET Cameras
    /\ plug \in [Cameras -> 0..MaxPlugs] /\ plugs \in [Cameras -> 0..MaxPlugs]
    /\ \A n \in DOMAIN changes : changes[n] \in [removed : SUBSET Plugged, added : SUBSET Plugged]
    /\ found \in SUBSET Plugged
    /\ {device, pipeline} \subseteq Plugged \cup {NoCamera}
    /\ opener \in {"", "main", "sdk"}
    /\ callback \in {"no", "removed", "drop device", "drop pipeline", "added", "starting"}
    /\ mishaps \in SUBSET {"failed", "between"}

UsagesInit ==
    /\ cPc = "idle" /\ cUsed = {}
    /\ plug = [c \in Cameras |-> 0] /\ plugs = plug
    /\ changes = <<>> /\ found = {}
    /\ device = NoCamera /\ pipeline = NoCamera
    /\ opener = "" /\ callback = "no"
    /\ mishaps = {}

PluggedIn(c) == [cam |-> c, plug |-> plug[c]]
Present == {PluggedIn(c) : c \in {x \in Cameras : plug[x] # 0}}
Running == cPc \notin {"idle", "end", "failed", "crashed"}
sdk == <<plug, plugs, changes>>
mainPlace == <<cPc, found>>

-----------------------------------------------------------------------------
(* The cameras: the SDK reports what left and what came, in order. *)

Replug(c, to) ==
    /\ plug' = [plug EXCEPT ![c] = to]
    /\ plugs' = [plugs EXCEPT ![c] = IF to = 0 THEN @ ELSE to]
    /\ changes' = Append(changes,
         [removed |-> {PluggedIn(c)} \ {[cam |-> c, plug |-> 0]},
          added |-> {PluggedIn(c)'} \ {[cam |-> c, plug |-> 0]}])
    /\ UNCHANGED <<cUsed, mainPlace, device, pipeline, opener, callback, mishaps>>

\* A camera is unplugged, connected, or both before the SDK looks again.
Unplugged(c) ==
    Running /\ Len(changes) < MaxChanges /\ plug[c] # 0 /\ Replug(c, 0)

PluggedAgain(c) ==
    /\ Running /\ Len(changes) < MaxChanges
    /\ c \in cUsed /\ plugs[c] < MaxPlugs
    /\ Replug(c, plugs[c] + 1)

-----------------------------------------------------------------------------
(* Opening and letting go *)

\* handleDeviceConnected, under deviceMutex: the first of the list is opened if
\* none is.  getDevice throws when it is gone.
OpenDevice(t, list) ==
    /\ opener = ""
    /\ device = NoCamera
    /\ \E h \in list \cap Present : device' = h /\ pipeline' = h
    /\ opener' = t

\* startStream, still under deviceMutex, unless pipeline was reset meanwhile.
StartStreamOf(t) ==
    /\ opener = t /\ pipeline # NoCamera
    /\ device' = pipeline
    /\ opener' = ""
    /\ UNCHANGED pipeline

\* It dereferences pipeline: without one the program crashes.
StartWithout(t) ==
    /\ Running /\ opener = t /\ pipeline = NoCamera
    /\ cPc' = "crashed"
    /\ UNCHANGED <<cUsed, sdk, found, device, pipeline, opener, callback, mishaps>>

\* The camera does not give its profiles, and startStream exits, or its streams
\* do not start, and the exception leaves main or the SDK's thread.
StreamFails(t) ==
    /\ Running /\ opener = t /\ pipeline # NoCamera
    /\ cPc' = "failed"
    /\ UNCHANGED <<cUsed, sdk, found, device, pipeline, opener, callback, mishaps>>

\* main

StartUsages ==
    /\ cPc = "idle"
    /\ cUsed' \in (SUBSET Cameras) \ {{}}
    /\ \E S \in SUBSET cUsed' : plug' = [c \in Cameras |-> IF c \in S THEN 1 ELSE 0]
    /\ plugs' = plug'
    /\ cPc' = "query"
    /\ UNCHANGED <<changes, found, device, pipeline, opener, callback, mishaps>>

QueryDevices ==
    /\ cPc = "query"
    /\ found' = Present
    /\ cPc' = IF Present = {} THEN "await" ELSE "open"
    /\ UNCHANGED <<cUsed, sdk, device, pipeline, opener, callback, mishaps>>

MainOpens ==
    /\ cPc = "open"
    /\ \/ /\ OpenDevice("main", found)
          /\ cPc' = "starting"
          /\ mishaps' = mishaps \cup {x \in {"between"} : callback = "drop pipeline"}
       \/ /\ opener = "" /\ device # NoCamera
          /\ cPc' = "await"
          /\ UNCHANGED <<device, pipeline, opener, mishaps>>
       \/ \* getDevice throws
          /\ opener = "" /\ device = NoCamera /\ ~(found \subseteq Present)
          /\ cPc' = "failed"
          /\ UNCHANGED <<device, pipeline, opener, mishaps>>
    /\ found' = {}
    /\ UNCHANGED <<cUsed, sdk, callback>>

MainStarts ==
    /\ cPc = "starting"
    /\ StartStreamOf("main")
    /\ cPc' = "await"
    /\ UNCHANGED <<cUsed, sdk, found, callback, mishaps>>

\* Main goes from one place to one of the next, and touches nothing.
MainGoesOn(from, to) ==
    /\ cPc = from /\ cPc' \in to
    /\ UNCHANGED <<cUsed, sdk, found, device, pipeline, opener, callback, mishaps>>

\* while(!device), then the first use of it, which may throw; both without
\* the lock.
AwaitDevice == device # NoCamera /\ MainGoesOn("await", {"use"})
UseDevice == MainGoesOn("use", IF device = NoCamera THEN {"crashed"} ELSE {"run", "failed"})

\* The window is closed: main stops the stream it finds and tears everything
\* down, all of it without the lock, while the callback may still be running.
CloseUsages == MainGoesOn("run", {"stop"})
TestPipeline == MainGoesOn("stop", IF pipeline = NoCamera THEN {"unregister"} ELSE {"stopping"})

\* pipeline->stop() may throw.
StopPipeline ==
    MainGoesOn("stopping", IF pipeline = NoCamera THEN {"crashed"} ELSE {"unregister", "failed"})

UnregisterCallback == MainGoesOn("unregister", {"reset pipeline"})

ResetPipeline ==
    /\ cPc = "reset pipeline" /\ cPc' = "reset device"
    /\ pipeline' = NoCamera
    /\ UNCHANGED <<cUsed, sdk, found, device, opener, callback, mishaps>>

ResetDevice ==
    /\ cPc = "reset device" /\ cPc' = "end"
    /\ device' = NoCamera
    /\ UNCHANGED <<cUsed, sdk, found, pipeline, opener, callback, mishaps>>

EndUsages ==
    CloseUsages \/ TestPipeline \/ StopPipeline \/ UnregisterCallback \/ ResetPipeline
        \/ ResetDevice

UsagesMain ==
    QueryDevices \/ MainOpens \/ MainStarts \/ StartWithout("main") \/ StreamFails("main")
        \/ AwaitDevice \/ UseDevice \/ EndUsages

\* The SDK's callback: handleDeviceDisconnected, then handleDeviceConnected.

Change == Head(changes)
Registered == Running /\ cPc \notin {"reset pipeline", "reset device"}

\* Wrong variant of BeginCallback: what came before what left.
BeginWithAdded ==
    /\ Registered /\ callback = "no" /\ changes # <<>>
    /\ callback' = IF Change.added # {} THEN "added" ELSE "removed"
    /\ UNCHANGED <<cUsed, sdk, mainPlace, device, pipeline, opener, mishaps>>

BeginCallback ==
    /\ Registered /\ callback = "no" /\ changes # <<>>
    /\ callback' = "removed"
    /\ UNCHANGED <<cUsed, sdk, mainPlace, device, pipeline, opener, mishaps>>

\* The serial number of the open device, under the lock, and whether it left.
ReadCurrentSn ==
    /\ Running /\ callback = "removed" /\ opener = ""
    /\ callback' = IF device.cam \in {h.cam : h \in Change.removed}
                     THEN "drop device" ELSE "added"
    /\ UNCHANGED <<cUsed, sdk, mainPlace, device, pipeline, opener, mishaps>>

\* device.reset() and pipeline.reset(), without the lock.
DropDevice ==
    /\ Running /\ callback = "drop device"
    /\ device' = NoCamera
    /\ callback' = "drop pipeline"
    /\ UNCHANGED <<cUsed, sdk, mainPlace, pipeline, opener, mishaps>>

DropPipeline ==
    /\ Running /\ callback = "drop pipeline"
    /\ pipeline' = NoCamera
    /\ callback' = "added"
    /\ UNCHANGED <<cUsed, sdk, mainPlace, device, opener, mishaps>>

CallbackOpens ==
    /\ Running /\ callback = "added"
    /\ \/ /\ OpenDevice("sdk", Change.added)
          /\ callback' = "starting"
          /\ UNCHANGED <<changes, mishaps>>
       \/ \* nothing came, a device is open, or getDevice throws and the SDK catches it
          /\ \/ Change.added = {}
             \/ opener = "" /\ device # NoCamera
             \/ opener = "" /\ ~(Change.added \subseteq Present)
          /\ mishaps' = mishaps \cup
               {x \in {"failed"} : Change.added # {} /\ device = NoCamera}
          /\ callback' = "no" /\ changes' = Tail(changes)
          /\ UNCHANGED <<device, pipeline, opener>>
    /\ UNCHANGED <<cUsed, plug, plugs, mainPlace>>

\* getDevice throws and the exception ends the SDK's thread, and the program.
CallbackThrows ==
    /\ Running /\ callback = "added"
    /\ opener = "" /\ device = NoCamera /\ ~(Change.added \subseteq Present)
    /\ cPc' = "failed"
    /\ UNCHANGED <<cUsed, sdk, found, device, pipeline, opener, callback, mishaps>>

CallbackStarts ==
    /\ Running /\ callback = "starting"
    /\ StartStreamOf("sdk")
    /\ callback' = "no" /\ changes' = Tail(changes)
    /\ UNCHANGED <<cUsed, plug, plugs, mainPlace, mishaps>>

UsagesCallback ==
    BeginCallback \/ ReadCurrentSn \/ DropDevice \/ DropPipeline \/ CallbackOpens
        \/ CallbackStarts \/ CallbackThrows \/ StartWithout("sdk") \/ StreamFails("sdk")

UsagesNext ==
    \/ StartUsages \/ UsagesMain \/ UsagesCallback
    \/ \E c \in Cameras : Unplugged(c) \/ PluggedAgain(c)

UsagesSpec == UsagesInit /\ [][UsagesNext]_usagesVars

-----------------------------------------------------------------------------
(* Properties *)

Settled == cPc = "run" /\ changes = <<>> /\ callback = "no" /\ opener = ""

\* Once the callbacks are through, the open camera is one that is connected,
\* by the connection it was opened on, and the pipeline is its own, unless main
\* opened it between the two resets of lines 186 and 187, which no lock protects.  A
\* single camera is open whenever it is connected, unless that failed.
OpenDeviceIsConnected ==
    Settled =>
        /\ device \in Present \cup {NoCamera}
        /\ "between" \notin mishaps => pipeline = device
        /\ Cardinality(cUsed) = 1 /\ Present # {} /\ "failed" \notin mishaps =>
              device # NoCamera
=============================================================================
