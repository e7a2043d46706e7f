----------------------------- MODULE StreamLoop -----------------------------
(***************************************************************************)
(* The streaming half of webrtc_streamer/src/main.cpp with the compositor  *)
(* and the encoder it calls.  Two threads: run() takes framesets, composes,*)
(* encodes and sends; a libdatachannel thread runs handleControlMessage.   *)
(* They share compConfig without a lock (compose gets it by reference, and *)
(* each of its reads of the mode is a step) and the video track, whose state*)
(* the library changes.  Sizes are counted in                              *)
(* widths of the colour image: the encoder is made for two (line 75).      *)
(***************************************************************************)
EXTENDS Naturals

VARIABLES
    dummyMode,     \* the camera could not be initialised; device is null
    format,        \* the format of the colour stream: "rgb", "mjpg", "other"
    pc,            \* where run() stands
    sbsFrame,      \* the Mat that run() keeps from one turn to the next
    mode,          \* compConfig.mode
    showOverlay,   \* compConfig.showOverlay
    videoTrack,    \* "new", "open" or "closed"
    sent,          \* the layout of the image sent last, and how full it was
    failure,       \* what ended the process, or "none"
    switched       \* the mode has changed since compose first read it (a
                   \* history variable)

configVars == <<mode, showOverlay>>
fixedVars == <<dummyMode, format>>
loopVars == <<fixedVars, pc, sbsFrame, configVars, videoTrack, sent, failure,
              switched>>

\* The enumerators of CompositorConfig::Mode: SBS, COLOR_ONLY, DEPTH_ONLY.  The
\* page sends no other number.
Mode == 0..2

Layout == {"sbs", "color", "depth", "dummy"}

\* An image: how it is laid out, whether its caption, if any, names that
\* layout, whether it shows the frameset taken last, its width, and the part of
\* the width that shows something.
Image == [layout : Layout, captionFits : BOOLEAN, fresh : BOOLEAN,
          cols : 1..2, filled : 1..2]

Empty == [layout |-> "empty"]

NothingSent == [layout |-> "none", filled |-> 2]

TypeOK ==
    /\ dummyMode \in BOOLEAN
    /\ format \in {"rgb", "mjpg", "other"}
    /\ pc \in {"wait", "compose", "layout", "overlay", "caption", "fit", "check",
               "send", "dead"}
    /\ sbsFrame \in Image \cup {Empty}
    /\ mode \in Mode
    /\ showOverlay \in BOOLEAN
    /\ videoTrack \in {"new", "open", "closed"}
    /\ sent \in [layout : Layout \cup {"none"}, filled : 1..2]
    /\ failure \in {"none", "camera", "decode", "send", "device"}
    /\ switched \in BOOLEAN

\* After the constructor.  The profile is asked for with OB_FORMAT_ANY, so it
\* may have a format that the compositor does not know.
Init ==
    /\ dummyMode \in BOOLEAN
    /\ format \in {"rgb", "mjpg", "other"}
    /\ pc = "wait"
    /\ sbsFrame = Empty
    /\ mode = 0
    /\ showOverlay \in BOOLEAN
    /\ videoTrack = "new"
    /\ sent = NothingSent
    /\ failure = "none"
    /\ switched = FALSE

-----------------------------------------------------------------------------
(* SbsCompositor.                                                          *)

Filled(layout) == IF layout = "sbs" THEN 2 ELSE 1

\* Wrong variant of Composed: the size is that of two images in every mode.
ComposedTwice(layout) ==
    [layout |-> layout, captionFits |-> TRUE, fresh |-> TRUE,
     cols |-> 2 * Filled(layout), filled |-> Filled(layout)]

\* The image that compose makes.
Composed(layout) ==
    [layout |-> layout, captionFits |-> TRUE, fresh |-> TRUE,
     cols |-> Filled(layout), filled |-> Filled(layout)]

\* The layout when the mode is not COLOR_ONLY (second read, line 68).
LayoutOf(m) == IF m = 2 THEN "depth" ELSE "sbs"

\* Wrong variant of CaptionOf: two captions are swapped.
CaptionSwapped(m) == IF m = 1 THEN "depth" ELSE "color"

\* The layout that the text names when the mode is not SBS (line 78).
CaptionOf(m) == IF m = 1 THEN "color" ELSE "depth"

DummyImage ==
    [layout |-> "dummy", captionFits |-> TRUE, fresh |-> TRUE, cols |-> 2,
     filled |-> 2]

-----------------------------------------------------------------------------
(* run().                                                                  *)

\* The image left from the last turn no longer shows the last frameset.
Aged(image) == IF image = Empty THEN image ELSE [image EXCEPT !.fresh = FALSE]

\* Without a camera: a synthetic image every 33 ms.
Synthesise ==
    /\ pc = "wait" /\ dummyMode
    /\ sbsFrame' = DummyImage
    /\ pc' = "fit"
    /\ UNCHANGED <<fixedVars, configVars, videoTrack, sent, failure, switched>>

\* waitForFrameset returns a frameset with both frames.
TakeFrameset ==
    /\ pc = "wait" /\ ~dummyMode
    /\ sbsFrame' = Aged(sbsFrame)
    /\ pc' = "compose"
    /\ UNCHANGED <<fixedVars, configVars, videoTrack, sent, failure, switched>>

\* waitForFrameset throws, which leaves run() and ends the process.
CameraFails ==
    /\ pc = "wait" /\ ~dummyMode
    /\ pc' = "dead"
    /\ failure' = "camera"
    /\ UNCHANGED <<fixedVars, sbsFrame, configVars, videoTrack, sent, switched>>

\* Wrong variants of SkipFrameset: no continue; break.
SkipWithoutContinue ==
    /\ pc = "wait" /\ ~dummyMode
    /\ sbsFrame' = Aged(sbsFrame)
    /\ pc' = "fit"
    /\ UNCHANGED <<fixedVars, configVars, videoTrack, sent, failure, switched>>

SkipWithBreak ==
    /\ pc = "wait" /\ ~dummyMode
    /\ sbsFrame' = Aged(sbsFrame)
    /\ pc' = "dead"
    /\ UNCHANGED <<fixedVars, configVars, videoTrack, sent, failure, switched>>

\* A frameset without one of the frames: continue.
SkipFrameset ==
    /\ pc = "wait" /\ ~dummyMode
    /\ sbsFrame' = Aged(sbsFrame)
    /\ pc' = "wait"
    /\ UNCHANGED <<fixedVars, configVars, videoTrack, sent, failure, switched>>

\* compose up to its first read of the mode (line 66).
Compose ==
    /\ pc = "compose" /\ format # "other"
    /\ IF mode = 1 THEN sbsFrame' = Composed("color") /\ pc' = "overlay"
                   ELSE pc' = "layout" /\ UNCHANGED sbsFrame
    /\ switched' = FALSE
    /\ UNCHANGED <<fixedVars, configVars, videoTrack, sent, failure>>

\* compose, the second read (line 68).
ComposeRest ==
    /\ pc = "layout"
    /\ sbsFrame' = Composed(LayoutOf(mode))
    /\ pc' = "overlay"
    /\ UNCHANGED <<fixedVars, configVars, videoTrack, sent, failure, switched>>

\* compose returns early and leaves its output as it was.
ComposeNothing ==
    /\ pc = "compose" /\ format = "other"
    /\ pc' = "fit"
    /\ UNCHANGED <<fixedVars, sbsFrame, configVars, videoTrack, sent, failure,
                   switched>>

\* imdecode gives an empty image for a damaged frame, and resizing the depth
\* image to its size throws: run() and with it the process end.
ComposeDamaged ==
    /\ pc = "compose" /\ format = "mjpg"
    /\ pc' = "dead"
    /\ failure' = "decode"
    /\ UNCHANGED <<fixedVars, sbsFrame, configVars, videoTrack, sent, switched>>

\* The image with a caption that names a layout.
Captioned(layout) ==
    [sbsFrame EXCEPT !.captionFits = (layout = sbsFrame.layout)]

\* compose, the overlay: third read of the mode (line 77).
Overlay ==
    /\ pc = "overlay"
    /\ \/ ~showOverlay /\ pc' = "fit" /\ UNCHANGED sbsFrame
       \/ showOverlay /\ mode = 0 /\ pc' = "fit" /\ sbsFrame' = Captioned("sbs")
       \/ showOverlay /\ mode # 0 /\ pc' = "caption" /\ UNCHANGED sbsFrame
    /\ UNCHANGED <<fixedVars, configVars, videoTrack, sent, failure, switched>>

\* compose, the overlay: fourth read of the mode (line 78).
OverlayRest ==
    /\ pc = "caption"
    /\ sbsFrame' = Captioned(CaptionOf(mode))
    /\ pc' = "fit"
    /\ UNCHANGED <<fixedVars, configVars, videoTrack, sent, failure, switched>>

\* The image on a black canvas of the encoder's size.
Fitted(image) == [image EXCEPT !.cols = 2]

\* Pad or crop to the encoder's size, and encode.
Encode ==
    /\ pc = "fit" /\ sbsFrame # Empty
    /\ sbsFrame' = Fitted(sbsFrame)
    /\ pc' = "check"
    /\ UNCHANGED <<fixedVars, configVars, videoTrack, sent, failure, switched>>

\* There has been no image so far.
NothingToEncode ==
    /\ pc = "fit" /\ sbsFrame = Empty
    /\ pc' = "wait"
    /\ UNCHANGED <<fixedVars, sbsFrame, configVars, videoTrack, sent, failure,
                   switched>>

\* videoTrack->isOpen()
CheckTrack ==
    /\ pc = "check"
    /\ pc' = IF videoTrack = "open" THEN "send" ELSE "wait"
    /\ UNCHANGED <<fixedVars, sbsFrame, configVars, videoTrack, sent, failure,
                   switched>>

\* videoTrack->send throws when the track has closed since; nothing in run()
\* catches it.
Send ==
    /\ pc = "send"
    /\ IF videoTrack = "open"
       THEN sent' = [layout |-> sbsFrame.layout, filled |-> sbsFrame.filled]
            /\ pc' = "wait" /\ UNCHANGED failure
       ELSE failure' = "send" /\ pc' = "dead" /\ UNCHANGED sent
    /\ UNCHANGED <<fixedVars, sbsFrame, configVars, videoTrack, switched>>

LoopStep ==
    \/ Synthesise \/ TakeFrameset \/ SkipFrameset \/ CameraFails
    \/ Compose \/ ComposeRest \/ ComposeNothing \/ ComposeDamaged
    \/ Overlay \/ OverlayRest
    \/ Encode \/ NothingToEncode \/ CheckTrack \/ Send

-----------------------------------------------------------------------------
(* The library.                                                            *)

\* The peer connection is made: track and data channel open.
TrackOpens ==
    /\ pc # "dead" /\ videoTrack = "new"
    /\ videoTrack' = "open"
    /\ UNCHANGED <<fixedVars, pc, sbsFrame, configVars, sent, failure, switched>>

\* The peer connection ends, for good: there is one in the whole run.
TrackCloses ==
    /\ pc # "dead" /\ videoTrack = "open"
    /\ videoTrack' = "closed"
    /\ UNCHANGED <<fixedVars, pc, sbsFrame, configVars, sent, failure, switched>>

-----------------------------------------------------------------------------
(* handleControlMessage, one branch each; the library calls it while run() *)
(* is anywhere.                                                            *)

\* viz_mode: the number is cast to the enumeration.
SetMode(value) ==
    /\ pc # "dead"
    /\ mode' = value
    /\ switched' = (switched \/ value # mode)
    /\ UNCHANGED <<fixedVars, pc, sbsFrame, showOverlay, videoTrack, sent, failure>>

SetOverlay(value) ==
    /\ pc # "dead"
    /\ showOverlay' = value
    /\ UNCHANGED <<fixedVars, pc, sbsFrame, mode, videoTrack, sent, failure, switched>>

\* laser, auto_exposure, exposure, gain: a call on device, which is null in
\* dummy mode.  The try block does not catch that.
SetDevice ==
    /\ pc # "dead"
    /\ IF dummyMode THEN pc' = "dead" /\ failure' = "device"
                    ELSE UNCHANGED <<pc, failure>>
    /\ UNCHANGED <<fixedVars, sbsFrame, configVars, videoTrack, sent, switched>>

-----------------------------------------------------------------------------
(* What the streamer guarantees.                                           *)

\* sbsFrame outlives a turn of the loop, but an old image is never sent again:
\* what is about to be sent shows the frameset of this turn.
SendsTheCurrentImage == pc = "send" => sbsFrame.fresh

\* compose reads the mode up to four times and another thread may set it in
\* between: only then can the caption of an image name another layout than the
\* image has.
CaptionNamesLayout ==
    [][(pc = "overlay" \/ pc = "caption") /\ pc' = "fit"
          => sbsFrame'.captionFits \/ switched]_loopVars
=============================================================================
