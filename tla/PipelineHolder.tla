--------------------------- MODULE PipelineHolder ---------------------------
(***************************************************************************)
(* The frame queues of the multi-device example                            *)
(* (3.advanced.multi_devices_sync/PipelineHolder.cpp): one holder per      *)
(* sensor and device.  The SDK's thread of a holder pushes into a bounded  *)
(* queue, the main thread looks at its front and takes it.  A frame is     *)
(* known by its timestamp.                                                 *)
(***************************************************************************)
EXTENDS Integers, Sequences

CONSTANTS
    Holders,        \* the PipelineHolder objects
    MaxFrameSize,   \* maxFrameSize_ (16 in the code)
    MaxStamp        \* bound: the last timestamp a camera delivers

ASSUME MaxFrameSizeAssumption == MaxFrameSize \in Nat \ {0}
ASSUME MaxStampAssumption == MaxStamp \in Nat

VARIABLES
    startStream,   \* startStream_ of each holder
    running,       \* the SDK's pipeline calls the callback
    obFrames,      \* the queue: timestamps, oldest first
    stamp,         \* the last timestamp the camera has delivered, or -1
    dropped        \* the holders whose queue has dropped its front since
                   \* this turn of pairing began (a history variable)

holderVars == <<startStream, running, obFrames, stamp, dropped>>

HoldersTypeOK ==
    /\ startStream \in [Holders -> BOOLEAN]
    /\ running \in [Holders -> BOOLEAN]
    /\ obFrames \in [Holders -> Seq(0..MaxStamp)]
    /\ stamp \in [Holders -> -1..MaxStamp]
    /\ dropped \in SUBSET Holders

HoldersInit ==
    /\ startStream = [h \in Holders |-> FALSE]
    /\ running = [h \in Holders |-> FALSE]
    /\ obFrames = [h \in Holders |-> <<>>]
    /\ stamp = [h \in Holders |-> -1]
    /\ dropped = {}

\* pipeline_->start; the callback runs before startStream_ is set.
StartPipeline(h) ==
    /\ ~running[h]
    /\ running' = [running EXCEPT ![h] = TRUE]
    /\ UNCHANGED <<startStream, obFrames, stamp, dropped>>

\* startStream_ = true, after the pipeline has started.
MarkStarted(h) ==
    /\ startStream' = [startStream EXCEPT ![h] = TRUE]
    /\ UNCHANGED <<running, obFrames, stamp, dropped>>

\* stopStream: no frame is queued any more; stopping the pipeline can fail.
StopStream(h) ==
    /\ startStream' = [startStream EXCEPT ![h] = FALSE]
    /\ \E on \in {FALSE, running[h]} : running' = [running EXCEPT ![h] = on]
    /\ UNCHANGED <<obFrames, stamp, dropped>>

\* Wrong variant of ProcessFrame: a full queue is not popped (the limit off
\* by one).
ProcessFrameLimitOffByOne(h, t) ==
    /\ running[h] /\ t > stamp[h]
    /\ stamp' = [stamp EXCEPT ![h] = t]
    /\ obFrames' = [obFrames EXCEPT ![h] =
         IF ~startStream[h] THEN @
         ELSE IF Len(@) > MaxFrameSize THEN Append(Tail(@), t) ELSE Append(@, t)]
    /\ UNCHANGED <<startStream, running, dropped>>

\* Wrong variant of ProcessFrame: a full queue loses its newest frame, which
\* is then pushed in front.
ProcessFrameAtTheFront(h, t) ==
    /\ running[h] /\ t > stamp[h]
    /\ stamp' = [stamp EXCEPT ![h] = t]
    /\ obFrames' = [obFrames EXCEPT ![h] = IF startStream[h] THEN <<t>> \o @ ELSE @]
    /\ UNCHANGED <<startStream, running, dropped>>

\* processFrame(frameSet) on the SDK's thread, with a frame of the holder's
\* type and timestamp t: pop of a full queue and push are one critical section.
\* The timestamps of a sensor are taken to increase.  This is an assumption about
\* the SDK: enableDeviceClockSync, which the main program calls at its start and
\* on key S, may correct a camera's clock, but not set it back behind a frame.
ProcessFrame(h, t) ==
    LET full == Len(obFrames[h]) >= MaxFrameSize IN
    /\ running[h] /\ t > stamp[h]
    /\ stamp' = [stamp EXCEPT ![h] = t]
    /\ IF startStream[h]
         THEN /\ obFrames' = [obFrames EXCEPT ![h] =
                                Append(IF full THEN Tail(@) ELSE @, t)]
              /\ dropped' = IF full THEN dropped \cup {h} ELSE dropped
         ELSE UNCHANGED <<obFrames, dropped>>
    /\ UNCHANGED <<startStream, running>>

\* What isFrameReady, frontFrame and getFrame find, under the queue's lock.
Blocked(h)  == obFrames[h] = <<>> /\ ~startStream[h]   \* condVar_.wait sleeps
NotReady(h) == obFrames[h] = <<>> /\ startStream[h]    \* false, or nullptr
FrontFrame(h) == Head(obFrames[h])

\* getFrame: the front is taken.
GetFrame(h) ==
    /\ obFrames[h] # <<>>
    /\ obFrames' = [obFrames EXCEPT ![h] = Tail(@)]
    /\ UNCHANGED <<startStream, running, stamp, dropped>>
=============================================================================
