---------------------------- MODULE FramePairing ----------------------------
(***************************************************************************)
(* FramePairingManager::getFramePairs of the multi-device example, on the  *)
(* main thread: wait until every queue has a frame, order the holders by   *)
(* their fronts, compare each front with the first one, take it, and give  *)
(* back one (depth, color) pair per device.  Every look at a queue locks   *)
(* it anew, so the SDK's threads run between any two looks.                *)
(***************************************************************************)
EXTENDS PipelineHolder, FiniteSets

CONSTANTS
    Devices,      \* the cameras
    HalfTspGap,   \* halfTspGap of each holder (500/fps, rounded)
    Two64         \* 2^64: timestamps are unsigned

ASSUME HoldersAssumption == Holders = Devices \X {"depth", "color"}
ASSUME DevicesAssumption == IsFiniteSet(Devices)
ASSUME HalfTspGapAssumption == HalfTspGap \in [Holders -> Nat]
ASSUME Two64Assumption ==
    Two64 \in Nat /\ \A h \in Holders : MaxStamp + HalfTspGap[h] < Two64

VARIABLES
    holderList,    \* pipelineHolderList: the holders in the order of start
    deviceIndex,   \* deviceIndex_ of the holders of each device
    destroy,       \* destroy_
    turn,          \* where getFramePairs is; "no" outside of it
    k,             \* the loop's position
    order,         \* pipelineHolderVector
    refTsp, refHalfTspGap,
    cmp,           \* tarTsp of the front just compared
    taken          \* depthFramesMap and colorFramesMap: (type, index) to frame

pairingVars ==
    <<holderList, deviceIndex, destroy, turn, k, order, refTsp, refHalfTspGap, cmp, taken>>

NoFrame == [dev |-> "none", tsp |-> -1]
Indices == 0 .. Cardinality(Devices) - 1
Slots   == {"depth", "color"} \X Indices
Frame   == [dev : Devices, tsp : 0..MaxStamp]
NoFrames == [s \in Slots |-> NoFrame]
Turns == {"no", "checking", "sort", "ref", "compare", "take", "pairs"}

PairingTypeOK ==
    /\ holderList \in Seq(Holders)
    /\ deviceIndex \in [Devices -> Indices]
    /\ destroy \in BOOLEAN
    /\ turn \in Turns
    /\ k \in Nat
    /\ order \in Seq(Holders)
    /\ refTsp \in 0..MaxStamp /\ cmp \in 0..MaxStamp
    /\ refHalfTspGap \in Nat
    /\ taken \in [Slots -> Frame \cup {NoFrame}]

PairingInit ==
    /\ holderList = <<>>
    /\ deviceIndex = [d \in Devices |-> 0]
    /\ destroy = FALSE
    /\ turn = "no"
    /\ k = 1
    /\ order = <<>>
    /\ refTsp = 0 /\ refHalfTspGap = 0 /\ cmp = 0
    /\ taken = NoFrames

fixed == <<holderList, deviceIndex, destroy>>

\* depthPipelineHolderList_.size(): one entry per device index.
DepthHolders ==
    Cardinality({deviceIndex[h[1]] : h \in {holderList[i] : i \in DOMAIN holderList}})

\* getFramePairs returns nothing; what was taken is given up.
ReturnNothing ==
    /\ turn' = "no"
    /\ k' = 1 /\ order' = <<>> /\ refTsp' = 0 /\ refHalfTspGap' = 0 /\ cmp' = 0
    /\ taken' = NoFrames
    /\ UNCHANGED fixed

\* getFramePairs begins.
BeginPairing ==
    /\ turn = "no"
    /\ turn' = "checking"
    /\ dropped' = {}
    /\ UNCHANGED <<startStream, running, obFrames, stamp, k, order, refTsp,
                   refHalfTspGap, cmp, taken, fixed>>

\* pipelineHoldersFrameNotEmpty: the next holder is ready.  It sleeps when the
\* holder is Blocked: no action is enabled then.
HolderReady ==
    /\ turn = "checking" /\ k <= Len(holderList)
    /\ obFrames[holderList[k]] # <<>>
    /\ k' = k + 1
    /\ UNCHANGED <<holderVars, turn, order, refTsp, refHalfTspGap, cmp, taken, fixed>>

\* A holder is not ready: sleep 1 ms and begin again with the first ...
HolderNotReady ==
    /\ turn = "checking" /\ k <= Len(holderList)
    /\ NotReady(holderList[k])
    /\ k' = 1
    /\ UNCHANGED <<holderVars, turn, order, refTsp, refHalfTspGap, cmp, taken, fixed>>

\* Wrong variant of TimeOut: only the last holder gives up.
TimeOutOfTheLast ==
    /\ turn = "checking" /\ k = Len(holderList)
    /\ NotReady(holderList[k])
    /\ ReturnNothing
    /\ UNCHANGED holderVars

\* ... or, when more than 200 ms have passed, give up.
TimeOut ==
    /\ turn = "checking" /\ k <= Len(holderList)
    /\ NotReady(holderList[k])
    /\ ReturnNothing
    /\ UNCHANGED holderVars

\* Wrong variant of AllReady: the last holder is not looked at.
AllButTheLastReady ==
    /\ turn = "checking" /\ k >= Len(holderList) /\ ~destroy
    /\ turn' = "sort" /\ k' = 1
    /\ UNCHANGED <<holderVars, order, refTsp, refHalfTspGap, cmp, taken, fixed>>

\* All are ready (and the manager is not being destroyed).
AllReady ==
    /\ turn = "checking" /\ k > Len(holderList) /\ ~destroy
    /\ turn' = "sort" /\ k' = 1
    /\ UNCHANGED <<holderVars, order, refTsp, refHalfTspGap, cmp, taken, fixed>>

\* The holders in some order, each of them once.
Orders ==
    {o \in [DOMAIN holderList -> Holders] :
        /\ \A i \in DOMAIN holderList : \E j \in DOMAIN holderList : o[i] = holderList[j]
        /\ \A i \in DOMAIN holderList : \E j \in DOMAIN holderList : o[j] = holderList[i]
        /\ \A i, j \in DOMAIN holderList : o[i] = o[j] => i = j}

Full(h) == Len(obFrames[h]) >= MaxFrameSize

\* sortFrameMap: by the fronts.  The comparator reads the fronts again for every
\* comparison, so a holder whose full queue drops frames meanwhile can end up
\* anywhere.
SortFrameMap ==
    /\ turn = "sort"
    /\ \E o \in Orders :
         /\ \A i, j \in DOMAIN holderList :
              i < j => \/ Full(o[i]) \/ Full(o[j])
                       \/ FrontFrame(o[i]) <= FrontFrame(o[j])
         /\ order' = o
    /\ turn' = "ref"
    /\ UNCHANGED <<holderVars, k, refTsp, refHalfTspGap, cmp, taken, fixed>>

\* refTsp and refHalfTspGap, from the first holder.
TakeReference ==
    /\ turn = "ref"
    /\ refTsp' = FrontFrame(order[1])
    /\ refHalfTspGap' = HalfTspGap[order[1]]
    /\ turn' = "compare"
    /\ UNCHANGED <<holderVars, k, order, cmp, taken, fixed>>

\* Wrong variant of DiffTsp: signed, so that an older front passes.
DiffTspSigned(tar, ref) == tar - ref

\* tarTsp - refTsp in unsigned arithmetic: an older front is very far away.
DiffTsp(tar, ref) == IF tar >= ref THEN tar - ref ELSE Two64 + tar - ref

Larger(a, b) == IF a > b THEN a ELSE b

\* The loop's test: one front too far away and the turn gives back nothing.
CompareFront ==
    LET h == order[k]
        tar == FrontFrame(h)
        apart == DiffTsp(tar, refTsp) > Larger(HalfTspGap[h], refHalfTspGap)
    IN
    /\ turn = "compare"
    /\ \/ apart /\ ReturnNothing
       \/ /\ ~apart
          /\ cmp' = tar
          /\ refHalfTspGap' = HalfTspGap[h]
          /\ turn' = "take"
          /\ UNCHANGED <<k, order, refTsp, taken, fixed>>
    /\ UNCHANGED holderVars

\* The rest of the loop's body: what getFrame gives goes into the map of its
\* type under the device's index.  It can be newer than what was compared.
TakeFrame ==
    LET h == order[k] IN
    /\ turn = "take"
    /\ taken' = [taken EXCEPT ![<<h[2], deviceIndex[h[1]]>>] =
                    [dev |-> h[1], tsp |-> FrontFrame(h)]]
    /\ GetFrame(h)
    /\ k' = k + 1
    /\ turn' = IF k = Len(holderList) THEN "pairs" ELSE "compare"
    /\ UNCHANGED <<order, refTsp, refHalfTspGap, cmp, fixed>>

\* The pairs given back: one per index below the number of depth holders.
Pair(i) == <<taken[<<"depth", i>>], taken[<<"color", i>>]>>
FramePairs == [i \in 0 .. DepthHolders - 1 |-> Pair(i)]

EndPairing ==
    /\ turn = "pairs"
    /\ ReturnNothing
    /\ UNCHANGED holderVars

PairingStep ==
    \/ HolderReady \/ HolderNotReady \/ TimeOut \/ AllReady
    \/ SortFrameMap \/ TakeReference \/ CompareFront \/ TakeFrame
=============================================================================
