------------------------------ MODULE VideoView ------------------------------
(***************************************************************************)
(* The viewing half of webrtc_streamer/web/index.html together with        *)
(* StreamLoop: the page shows the video through a shader whose mode it     *)
(* sets by itself, and asks the streamer for the same mode over the data   *)
(* channel "control".  Nothing is acknowledged.                            *)
(***************************************************************************)
EXTENDS StreamLoop, Sequences

CONSTANT MaxControls   \* bound: control messages on their way

ASSUME MaxControlsAssumption == MaxControls \in Nat

VARIABLES
    select,        \* the value of the "View Mode" select
    uMode,         \* the shader's mode
    shaderReady,   \* setup3DView has made the shader (first video metadata)
    dataChannel,   \* the page's end: "none", "open" or "closed"
    control,       \* control messages on their way to the streamer
    halfChange     \* the select has changed when just one of channel and
                   \* shader was there (a history variable)

viewVars == <<select, uMode, shaderReady, dataChannel, control, halfChange>>
vars == <<loopVars, viewVars>>

ControlMessage ==
    [type : {"viz_mode"}, value : 0..2]
    \cup [type : {"overlay"}, value : BOOLEAN]
    \cup [type : {"device"}]

ViewTypeOK ==
    /\ TypeOK
    /\ select \in 0..2
    /\ uMode \in 0..2
    /\ shaderReady \in BOOLEAN
    /\ dataChannel \in {"none", "open", "closed"}
    /\ control \in Seq(ControlMessage)
    /\ halfChange \in BOOLEAN

ViewInit ==
    /\ Init
    /\ select = 0
    /\ uMode = 0
    /\ shaderReady = FALSE
    /\ dataChannel = "none"
    /\ control = <<>>
    /\ halfChange = FALSE

\* ondatachannel and onopen, some time after the streamer's end has opened.
DataChannelOpens ==
    /\ videoTrack = "open" /\ dataChannel = "none"
    /\ dataChannel' = "open"
    /\ UNCHANGED <<loopVars, select, uMode, shaderReady, control, halfChange>>

\* The connection ends at the page; what is on its way is lost.
DataChannelCloses ==
    /\ videoTrack = "closed" /\ dataChannel = "open"
    /\ dataChannel' = "closed"
    /\ control' = <<>>
    /\ UNCHANGED <<loopVars, select, uMode, shaderReady, halfChange>>

\* onloadedmetadata: setup3DView, with uMode 0, whatever the select says.
MakeShader ==
    /\ sent # NothingSent /\ ~shaderReady
    /\ shaderReady' = TRUE
    /\ UNCHANGED <<loopVars, select, uMode, dataChannel, control, halfChange>>

\* sendControl: dropped unless the channel is open.
SendControl(m) ==
    control' = IF dataChannel = "open" THEN Append(control, m) ELSE control

\* Wrong variant of UpdateShaderMode: the shader is not told.
KeepShaderMode(value) == UNCHANGED uMode

\* updateShaderMode: without effect before there is a shader.
UpdateShaderMode(value) ==
    uMode' = IF shaderReady THEN value ELSE uMode

\* The user picks a view (line 48).
ChangeView(value) ==
    /\ Len(control) < MaxControls
    /\ value # select
    /\ select' = value
    /\ SendControl([type |-> "viz_mode", value |-> value])
    /\ UpdateShaderMode(value)
    /\ halfChange' = (halfChange \/ (shaderReady # (dataChannel = "open")))
    /\ UNCHANGED <<loopVars, shaderReady, dataChannel>>

\* The user works one of the other controls (lines 25 to 45 and 55 to 61).
ChangeOther(m) ==
    /\ Len(control) < MaxControls
    /\ SendControl(m)
    /\ UNCHANGED <<loopVars, select, uMode, shaderReady, dataChannel, halfChange>>

\* handleControlMessage, one branch for each type.
Handle(m) ==
    \/ m.type = "viz_mode" /\ SetMode(m.value)
    \/ m.type = "overlay" /\ SetOverlay(m.value)
    \/ m.type = "device" /\ SetDevice

\* Wrong variant of HandleControlMessage: the newest message comes first.
HandleNewestFirst ==
    /\ control # <<>> /\ videoTrack = "open"
    /\ control' = SubSeq(control, 1, Len(control) - 1)
    /\ Handle(control[Len(control)])
    /\ UNCHANGED <<select, uMode, shaderReady, dataChannel, halfChange>>

\* dc->onMessage: handleControlMessage on a library thread, in order.
HandleControlMessage ==
    /\ control # <<>> /\ videoTrack = "open"
    /\ control' = Tail(control)
    /\ Handle(Head(control))
    /\ UNCHANGED <<select, uMode, shaderReady, dataChannel, halfChange>>

PageStep ==
    \/ DataChannelOpens
    \/ DataChannelCloses
    \/ MakeShader
    \/ \E value \in 0..2 : ChangeView(value)
    \/ \E value \in BOOLEAN : ChangeOther([type |-> "overlay", value |-> value])
    \/ ChangeOther([type |-> "device"])
    \/ HandleControlMessage

Next ==
    \/ (LoopStep \/ TrackOpens \/ TrackCloses) /\ UNCHANGED viewVars
    \/ PageStep

Spec == ViewInit /\ [][Next]_vars

Do(A) == A /\ UNCHANGED viewVars

\* run() keeps running, the camera that works delivers complete framesets
\* again and again, and the channel delivers what it was given.  Nothing makes
\* the user act or the connection end.
Fairness ==
    /\ WF_vars(Do(Synthesise))
    /\ SF_vars(Do(TakeFrameset))
    /\ WF_vars(Do(Compose))
    /\ WF_vars(Do(ComposeRest))
    /\ WF_vars(Do(ComposeNothing))
    /\ WF_vars(Do(Overlay))
    /\ WF_vars(Do(OverlayRest))
    /\ WF_vars(Do(Encode))
    /\ WF_vars(Do(NothingToEncode))
    /\ WF_vars(Do(CheckTrack))
    /\ WF_vars(Do(Send))
    /\ WF_vars(HandleControlMessage)

FairSpec == Spec /\ Fairness

-----------------------------------------------------------------------------
\* The page draws what the streamer composes: once the messages have arrived,
\* the shader and the compositor are in the same mode, unless the select was
\* changed in the time when only one of them could hear it.
ViewsAgree ==
    shaderReady /\ dataChannel = "open" /\ control = <<>> /\ ~halfChange
        => uMode = mode

\* As long as the track is open and the colour format is one the compositor
\* knows, images keep being sent, whatever is changed in the meantime.
KeepsSending ==
    (/\ <>[](videoTrack = "open" /\ failure = "none")
     /\ [](dummyMode \/ format # "other"))
    => []<>(pc = "send")

\* The page has asked for a mode, and for no other since.
AskedFor(m) ==
    \E i \in DOMAIN control :
        /\ control[i].type = "viz_mode" /\ control[i].value = m
        /\ \A j \in DOMAIN control : j > i => control[j].type # "viz_mode"

\* The view picked last takes effect and stays: when the page has asked for it
\* over the open channel and the user leaves it at that, what is sent is in the
\* end always laid out that way, whatever run() was doing with compConfig
\* when the message came and however many older requests were on their way.
ViewTakesEffect ==
    \A m \in Mode :
        (/\ <>(AskedFor(m) /\ [](select = m /\ videoTrack = "open" /\ failure = "none"))
         /\ [](~dummyMode /\ format # "other"))
        => <>[](sent.layout = <<"sbs", "color", "depth">>[m + 1])

-----------------------------------------------------------------------------
(* What comments in the sources say.                                       *)

\* "Send via WebRTC if track is open" (main.cpp, line 268).
SendsOnlyOnOpenTrack == failure # "send"

\* "Full frame is color" (index.html, line 266): an image that is shown in the
\* colour mode is filled by the colour image.
FullFrameIsColor ==
    sent.layout = "color" /\ uMode = 1 => sent.filled = 2
=============================================================================
