--------------------------- MODULE MultiDeviceSync ---------------------------
(***************************************************************************)
(* testMultiDeviceSync of 3.advanced.multi_devices_sync: the main thread   *)
(* starts a depth and a color holder for every camera (the secondaries     *)
(* first), then shows one group of frames per device until ESC is pressed, *)
(* and stops the streams.  The window (CVWindow) is reduced to its keys    *)
(* and to the groups it is given.                                          *)
(***************************************************************************)
EXTENDS FramePairing

CONSTANTS
    DevList,        \* the order in which the context lists the cameras
    MaxStampWith    \* bound: MaxStamp, by the number of cameras connected

MaxDevices == Cardinality(Devices)

\* Each element of S exactly once.
Listing(s, S) ==
    /\ s \in [1 .. Cardinality(S) -> S]
    /\ \A i, j \in DOMAIN s : s[i] = s[j] => i = j

ASSUME DevListAssumption == Listing(DevList, Devices)
ASSUME MaxStampWithAssumption == MaxStampWith \in [1..MaxDevices -> 0..MaxStamp]

VARIABLES
    pc,        \* where testMultiDeviceSync is
    primary,   \* the cameras configured as PRIMARY
    startOrder,\* secondary_devices followed by primary_devices
    groups     \* the window's srcFrameGroups_: pair by group number

mainVars == <<pc, primary, startOrder, groups>>
split == <<primary, startOrder>>
vars == <<holderVars, pairingVars, mainVars>>

NoGroup == <<NoFrame, NoFrame>>
GroupIds == 1 .. MaxDevices

TypeOK ==
    /\ HoldersTypeOK
    /\ PairingTypeOK
    /\ pc \in {"create", "start", "mark", "run", "pairing", "stop", "done",
               "failed"}
    /\ primary \in SUBSET Devices
    /\ startOrder \in Seq(Devices)
    /\ groups \in [GroupIds -> (Frame \cup {NoFrame}) \X (Frame \cup {NoFrame})]

Position(d) == CHOOSE i \in DOMAIN DevList : DevList[i] = d

\* streamDevList split by sync mode: both lists keep its order.
StartOrders(connected, primaries) ==
    {s \in [1 .. Cardinality(connected) -> connected] :
        /\ Listing(s, connected)
        /\ \A i, j \in DOMAIN s : i < j =>
             \/ s[i] \notin primaries /\ s[j] \in primaries
             \/ /\ s[i] \in primaries <=> s[j] \in primaries
                /\ Position(s[i]) < Position(s[j])}

Init ==
    /\ HoldersInit
    /\ PairingInit
    /\ pc = "create"
    /\ \E connected \in (SUBSET Devices) \ {{}} :
         /\ primary \in SUBSET connected
         /\ startOrder \in StartOrders(connected, primary)
    /\ groups = [g \in GroupIds |-> NoGroup]

N == Len(startOrder)
Secondaries == N - Cardinality(primary)

\* Wrong variant of StartIndex: the primaries count from 0 again.
StartIndexFromZero(n) ==
    IF n <= Secondaries THEN n - 1 ELSE n - 1 - Secondaries

\* Wrong variant of StartIndex: the devices count from 1.
StartIndexFromOne(n) == n

\* startDeviceStreams(secondary_devices, 0) and (primary_devices, size): the
\* index of the n-th device started.
StartIndex(n) ==
    IF n <= Secondaries THEN n - 1 ELSE Secondaries + (n - 1 - Secondaries)

Started == Len(holderList)
Newest == holderList[Started]

\* createPipelineHolder and push_back: DEPTH, then COLOR, of the next device.
CreateHolder ==
    LET n == Started \div 2 + 1
        d == startOrder[n]
    IN
    /\ pc = "create" /\ Started < 2 * N
    /\ holderList' = Append(holderList, <<d, IF Started % 2 = 0 THEN "depth" ELSE "color">>)
    /\ deviceIndex' = [deviceIndex EXCEPT ![d] = StartIndex(n)]
    /\ pc' = "start"
    /\ UNCHANGED <<holderVars, destroy, turn, k, order, refTsp, refHalfTspGap,
                   cmp, taken, split, groups>>

\* holder->startStream(), up to the start of the pipeline ...
StartStream ==
    /\ pc = "start"
    /\ StartPipeline(Newest)
    /\ pc' = "mark"
    /\ UNCHANGED <<pairingVars, split, groups>>

\* ... or to an ob::Error on the way there, which it swallows.
StartStreamFails ==
    /\ pc = "start"
    /\ pc' = "create"
    /\ UNCHANGED <<holderVars, pairingVars, split, groups>>

StartStreamReturns ==
    /\ pc = "mark"
    /\ MarkStarted(Newest)
    /\ pc' = "create"
    /\ UNCHANGED <<pairingVars, split, groups>>

\* setPipelineHolderList, the window, and the loop.
EnterLoop ==
    /\ pc = "create" /\ Started = 2 * N
    /\ pc' = "run"
    /\ UNCHANGED <<holderVars, pairingVars, split, groups>>

\* win.run() without ESC, then getFramePairs.
RunWindow ==
    /\ pc = "run"
    /\ BeginPairing
    /\ pc' = "pairing"
    /\ UNCHANGED <<split, groups>>

\* win.run() with ESC: handleKeyPress closes the window, which clears its
\* groups; the loop ends and framePairingManager->release() follows.
PressEsc ==
    /\ pc = "run"
    /\ groups' = [g \in GroupIds |-> NoGroup]
    /\ destroy' = TRUE
    /\ pc' = "stop"
    /\ UNCHANGED <<holderVars, holderList, deviceIndex, turn, k, order, refTsp,
                   refHalfTspGap, cmp, taken, split>>

\* A step inside getFramePairs; when it gives up the loop continues.
Pairing ==
    /\ pc = "pairing"
    /\ PairingStep
    /\ pc' = IF turn' = "no" THEN "run" ELSE pc
    /\ UNCHANGED <<split, groups>>

\* The pairs reach the window: group i + 1 shows pair i.
PushPairs ==
    /\ pc = "pairing"
    /\ EndPairing
    /\ groups' = [g \in GroupIds |-> IF g - 1 \in DOMAIN FramePairs
                                       THEN FramePairs[g - 1] ELSE groups[g]]
    /\ pc' = "run"
    /\ UNCHANGED split

\* holder->stopStream() for each holder in turn, then pipelineHolderList.clear().
StopStreams ==
    /\ pc = "stop"
    /\ \/ /\ holderList # <<>>
          /\ StopStream(Head(holderList))
          /\ holderList' = Tail(holderList)
          /\ UNCHANGED pc
       \/ /\ holderList = <<>> /\ pc' = "done"
          /\ UNCHANGED <<holderVars, holderList>>
    /\ UNCHANGED <<deviceIndex, destroy, turn, k, order, refTsp, refHalfTspGap,
                   cmp, taken, split, groups>>

\* An ob::Error on the way leaves getFramePairs, reaches the handler of
\* testMultiDeviceSync, which waits for a key, and the process exits.
MainThrows ==
    /\ pc \in {"create", "run", "pairing"}
    /\ ReturnNothing
    /\ pc' = "failed"
    /\ UNCHANGED <<holderVars, split, groups>>

Main ==
    \/ CreateHolder \/ StartStream \/ StartStreamFails \/ StartStreamReturns
    \/ EnterLoop \/ RunWindow \/ PressEsc \/ Pairing \/ PushPairs \/ StopStreams

\* The SDK's thread of a holder.
FrameArrives(h) ==
    /\ pc # "failed"
    /\ \E t \in 0 .. MaxStampWith[N] : ProcessFrame(h, t)
    /\ UNCHANGED <<pairingVars, mainVars>>

Next == Main \/ MainThrows \/ \E h \in Holders : FrameArrives(h)

Spec == Init /\ [][Next]_vars

\* The main thread is scheduled; waiting for the frames ends after 200 ms.
Fairness ==
    /\ WF_vars(Main)
    /\ SF_vars(pc = "pairing" /\ TimeOut /\ pc' = "run" /\ UNCHANGED <<split, groups>>)

FairSpec == Spec /\ Fairness

-----------------------------------------------------------------------------
(* Properties *)

\* While the pairing uses fronts it has not taken yet, none of them is null:
\* frontFrame() and getFrame() are dereferenced without a test (lines 76, 87,
\* 143 of FramePairingManager.cpp), and what makes that safe is that only this
\* thread empties a queue.
NoNullFront ==
    /\ turn \in {"sort", "ref"} =>
         \A i \in DOMAIN holderList : obFrames[holderList[i]] # <<>>
    /\ turn \in {"compare", "take"} =>
         \A i \in k .. Len(order) : obFrames[order[i]] # <<>>

\* A queue never holds more than maxFrameSize_ frames, and always in the order
\* in which the camera delivered them.
QueuesAreOrdered ==
    \A h \in Holders :
        /\ Len(obFrames[h]) <= MaxFrameSize
        /\ \A i, j \in DOMAIN obFrames[h] : i < j => obFrames[h][i] < obFrames[h][j]

\* Pair i is the depth and the color frame of one camera, both there, and every
\* camera has a pair: the maps are filled by device index, which secondaries
\* and primaries count separately (lines 238 and 248 of the main program).
OnePairPerDevice ==
    turn = "pairs" =>
        /\ \A i \in DOMAIN FramePairs :
             /\ NoFrame \notin {Pair(i)[1], Pair(i)[2]}
             /\ Pair(i)[1].dev = Pair(i)[2].dev
        /\ \A j \in DOMAIN startOrder :
             \E i \in DOMAIN FramePairs : Pair(i)[1].dev = startOrder[j]

\* The frames given back together lie within half a frame interval after the
\* reference, unless their queue was full and dropped frames between the
\* comparison and getFrame(); then they can only be newer.
PairsAreClose ==
    turn = "pairs" =>
        \A d \in {startOrder[j] : j \in 1..N}, s \in {"depth", "color"} :
            LET f == taken[<<s, deviceIndex[d]>>] IN
            /\ f.tsp >= refTsp
            /\ <<d, s>> \notin dropped =>
                 \E h \in Holders : f.tsp - refTsp <= HalfTspGap[h]

\* What the window shows of a camera never goes back in time.
ViewNeverGoesBack ==
    [][\A g \in GroupIds : \A i \in {1, 2} :
          LET old == groups[g][i]  new == groups'[g][i] IN
          new # NoFrame /\ old # NoFrame /\ new # old =>
              old.dev = new.dev /\ old.tsp < new.tsp]_vars

\* Keys are read again and again: getFramePairs comes back, unless it waits for
\* a holder whose stream has not started (condVar_.wait has no time limit).
WaitsForAFailedStream ==
    \E i \in DOMAIN holderList : Blocked(holderList[i])

PairingComesBack == pc = "pairing" ~> (pc # "pairing" \/ WaitsForAFailedStream)
=============================================================================
