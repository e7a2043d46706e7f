-------------------------- MODULE VideoViewProofs --------------------------
(***************************************************************************)
(* Proofs about VideoView, and so about StreamLoop, for every MaxControls: *)
(* the types, what is sent, what the caption says and in which mode page   *)
(* and compositor are.                                                     *)
(***************************************************************************)
EXTENDS VideoView, TLAPS

\* The layout that belongs to a mode.
LayoutFor(m) ==
    CASE m = 1 -> "color"
      [] m = 2 -> "depth"
      [] OTHER -> "sbs"

\* What sbsFrame is at each place of the loop.  Where run() is about to fit or
\* encode an image, the image is one of this turn; the only way to get there
\* without one is a format compose does not know, and then there never was one.
LoopInv ==
    /\ pc \in {"compose", "layout"} => ~dummyMode
    /\ pc = "layout" => format # "other"
    /\ pc \in {"overlay", "caption"} => sbsFrame \in Image /\ sbsFrame.fresh
    /\ pc = "overlay" => sbsFrame.captionFits
    /\ pc = "fit" => sbsFrame = Empty \/ sbsFrame.fresh
    /\ pc \in {"check", "send"} =>
           sbsFrame \in Image /\ sbsFrame.fresh
    /\ ~dummyMode /\ format = "other" => sbsFrame = Empty
    /\ pc = "layout" /\ ~switched => mode # 1
    /\ pc = "overlay" /\ ~switched => sbsFrame.layout = LayoutFor(mode)
    /\ pc = "caption" /\ ~switched => mode # 0 /\ sbsFrame.layout = LayoutFor(mode)

\* A message of the sequence s asks for a mode.
AsksForMode(s, i) == s[i].type = "viz_mode"

NoModeIn(s) == \A i \in 1..Len(s) : ~AsksForMode(s, i)

\* The last message of s that asks for a mode asks for this one.
LastModeIn(s, value) ==
    \E i \in 1..Len(s) :
        /\ AsksForMode(s, i)
        /\ s[i].value = value
        /\ \A j \in (i + 1)..Len(s) : ~AsksForMode(s, j)

\* The mode the compositor will be in when the messages have arrived is the
\* one of the shader.
ViewInv ==
    /\ ~shaderReady => uMode = 0
    /\ dataChannel = "none" => mode = 0 /\ control = <<>>
    /\ ~halfChange /\ dataChannel # "closed" /\ ~(shaderReady /\ dataChannel = "open")
           => uMode = 0 /\ mode = 0 /\ NoModeIn(control)
    /\ ~halfChange /\ shaderReady /\ dataChannel = "open"
           => LastModeIn(control, uMode) \/ (NoModeIn(control) /\ uMode = mode)

IInv == ViewTypeOK /\ LoopInv /\ ViewInv

-----------------------------------------------------------------------------
\* The steps, one by one.
LEMMA NextCases ==
    ASSUME Next
    PROVE  \/ Synthesise /\ UNCHANGED viewVars
           \/ TakeFrameset /\ UNCHANGED viewVars
           \/ SkipFrameset /\ UNCHANGED viewVars
           \/ CameraFails /\ UNCHANGED viewVars
           \/ Compose /\ UNCHANGED viewVars
           \/ ComposeRest /\ UNCHANGED viewVars
           \/ ComposeNothing /\ UNCHANGED viewVars
           \/ ComposeDamaged /\ UNCHANGED viewVars
           \/ Overlay /\ UNCHANGED viewVars
           \/ OverlayRest /\ UNCHANGED viewVars
           \/ Encode /\ UNCHANGED viewVars
           \/ NothingToEncode /\ UNCHANGED viewVars
           \/ CheckTrack /\ UNCHANGED viewVars
           \/ Send /\ UNCHANGED viewVars
           \/ TrackOpens /\ UNCHANGED viewVars
           \/ TrackCloses /\ UNCHANGED viewVars
           \/ DataChannelOpens
           \/ DataChannelCloses
           \/ MakeShader
           \/ \E value \in 0..2 : ChangeView(value)
           \/ \E m \in ControlMessage : m.type # "viz_mode" /\ ChangeOther(m)
           \/ HandleControlMessage
  <1>1. \A value \in BOOLEAN :
           [type |-> "overlay", value |-> value] \in ControlMessage
    BY DEF ControlMessage
  <1>2. [type |-> "device"] \in ControlMessage
    BY DEF ControlMessage
  <1>3. CASE \E value \in BOOLEAN : ChangeOther([type |-> "overlay", value |-> value])
    BY <1>1, <1>3
  <1>4. CASE ChangeOther([type |-> "device"])
    BY <1>2, <1>4
  <1> QED
    BY <1>3, <1>4 DEF Next, LoopStep, PageStep

\* A control message is handled by one of the branches.
LEMMA HandleCases ==
    ASSUME HandleControlMessage, control \in Seq(ControlMessage)
    PROVE  \/ Head(control).type = "viz_mode" /\ Head(control).value \in Mode
              /\ SetMode(Head(control).value)
           \/ Head(control).type = "overlay" /\ Head(control).value \in BOOLEAN
              /\ SetOverlay(Head(control).value)
           \/ Head(control).type = "device" /\ SetDevice
  <1>1. Head(control) \in ControlMessage
    BY DEF HandleControlMessage
  <1> QED
    BY <1>1 DEF HandleControlMessage, Handle, ControlMessage, Mode

LEMMA InitIInv == ViewInit => IInv
  <1> SUFFICES ASSUME ViewInit PROVE IInv
    OBVIOUS
  <1>1. sent \in [layout : Layout \cup {"none"}, filled : 1..2]
    BY DEF ViewInit, Init, NothingSent
  <1>2. mode \in Mode /\ select \in 0..2 /\ uMode \in 0..2
    BY DEF ViewInit, Init, Mode
  <1>3. TypeOK
    BY <1>1, <1>2 DEF ViewInit, Init, TypeOK
  <1>4. control \in Seq(ControlMessage)
    BY DEF ViewInit
  <1>5. ViewTypeOK
    BY <1>2, <1>3, <1>4 DEF ViewInit, ViewTypeOK
  <1>6. LoopInv
    BY DEF ViewInit, Init, LoopInv
  <1>7. ViewInv
    BY DEF ViewInit, Init, ViewInv, NoModeIn
  <1> QED
    BY <1>5, <1>6, <1>7 DEF IInv

-----------------------------------------------------------------------------
(* The loop.                                                               *)

LEMMA ComposedIsImage ==
    ASSUME NEW layout \in Layout
    PROVE  /\ Composed(layout) \in Image
           /\ Composed(layout).fresh /\ Composed(layout).captionFits
           /\ Composed(layout).layout = layout
  BY DEF Composed, Filled, Image

LEMMA CaptionedIsImage ==
    ASSUME sbsFrame \in Image, NEW layout \in Layout
    PROVE  /\ Captioned(layout) \in Image
           /\ Captioned(layout).fresh = sbsFrame.fresh
           /\ Captioned(layout).layout = sbsFrame.layout
           /\ Captioned(layout).captionFits <=> layout = sbsFrame.layout
  BY DEF Captioned, Image

LEMMA DummyIsImage == DummyImage \in Image /\ DummyImage.fresh
  BY DEF DummyImage, Image, Layout

LEMMA AgedType ==
    ASSUME NEW image \in Image \cup {Empty}
    PROVE  /\ Aged(image) \in Image \cup {Empty}
           /\ image = Empty => Aged(image) = Empty
  BY DEF Aged, Image

LEMMA FittedIsImage ==
    ASSUME NEW image \in Image
    PROVE  /\ Fitted(image) \in Image
           /\ Fitted(image).fresh = image.fresh
  BY DEF Fitted, Image

LEMMA EmptyIsNoImage == Empty \notin Image
  BY DEF Empty, Image, Layout

\* TypeOK and LoopInv together are kept by every step of the loop.
LEMMA LoopKeepsInv ==
    ASSUME TypeOK, LoopInv, LoopStep
    PROVE  TypeOK' /\ LoopInv'
  <1> USE EmptyIsNoImage
  <1>1. CASE Synthesise
    BY <1>1, DummyIsImage DEF Synthesise, TypeOK, LoopInv, fixedVars, configVars
  <1>2. CASE TakeFrameset
    BY <1>2, AgedType DEF TakeFrameset, TypeOK, LoopInv, fixedVars, configVars
  <1>3. CASE SkipFrameset
    BY <1>3, AgedType DEF SkipFrameset, TypeOK, LoopInv, fixedVars, configVars
  <1>14. CASE CameraFails
    BY <1>14 DEF CameraFails, TypeOK, LoopInv, fixedVars, configVars
  <1>4. CASE Compose
    <2>1. "color" \in Layout /\ LayoutFor(1) = "color"
      BY DEF Layout, LayoutFor
    <2>2. UNCHANGED <<dummyMode, format, mode, showOverlay, videoTrack, sent, failure>>
      BY <1>4 DEF Compose, fixedVars, configVars
    <2>3. pc = "compose" /\ format # "other" /\ switched' = FALSE
      BY <1>4 DEF Compose
    <2>4. CASE mode = 1
      <3>1. pc' = "overlay" /\ sbsFrame' = Composed("color")
        BY <1>4, <2>4 DEF Compose
      <3>2. /\ sbsFrame' \in Image /\ sbsFrame'.fresh /\ sbsFrame'.captionFits
            /\ sbsFrame'.layout = LayoutFor(mode')
        BY <2>1, <2>2, <2>4, <3>1, ComposedIsImage
      <3> QED
        BY <2>2, <2>3, <3>1, <3>2 DEF TypeOK, LoopInv
    <2>5. CASE mode # 1
      <3>1. pc' = "layout" /\ sbsFrame' = sbsFrame
        BY <1>4, <2>5 DEF Compose
      <3> QED
        BY <2>2, <2>3, <2>5, <3>1 DEF TypeOK, LoopInv
    <2> QED
      BY <2>4, <2>5
  <1>12. CASE ComposeRest
    <2>1. LayoutOf(mode) \in Layout
      BY DEF Layout, LayoutOf
    <2>2. mode # 1 => LayoutOf(mode) = LayoutFor(mode)
      BY DEF LayoutOf, LayoutFor
    <2>3. sbsFrame' \in Image /\ sbsFrame'.fresh
          /\ sbsFrame'.captionFits /\ sbsFrame'.layout = LayoutOf(mode)
      BY <1>12, <2>1, ComposedIsImage DEF ComposeRest
    <2> QED
      BY <1>12, <2>2, <2>3 DEF ComposeRest, TypeOK, LoopInv, fixedVars, configVars
  <1>5. CASE ComposeNothing
    BY <1>5 DEF ComposeNothing, TypeOK, LoopInv, fixedVars, configVars
  <1>6. CASE ComposeDamaged
    BY <1>6 DEF ComposeDamaged, TypeOK, LoopInv, fixedVars, configVars
  <1>7. CASE Overlay
    <2>1. /\ sbsFrame' \in Image
          /\ sbsFrame'.fresh = sbsFrame.fresh
          /\ sbsFrame'.layout = sbsFrame.layout
      BY <1>7, CaptionedIsImage DEF Overlay, LoopInv, Layout
    <2> QED
      BY <1>7, <2>1 DEF Overlay, TypeOK, LoopInv, fixedVars, configVars
  <1>13. CASE OverlayRest
    <2>1. CaptionOf(mode) \in Layout
      BY DEF CaptionOf, Layout
    <2>2. sbsFrame' \in Image /\ sbsFrame'.fresh = sbsFrame.fresh
      BY <1>13, <2>1, CaptionedIsImage DEF OverlayRest, LoopInv
    <2> QED
      BY <1>13, <2>2 DEF OverlayRest, TypeOK, LoopInv, fixedVars, configVars
  <1>8. CASE Encode
    BY <1>8, FittedIsImage DEF Encode, TypeOK, LoopInv, fixedVars, configVars
  <1>9. CASE NothingToEncode
    BY <1>9 DEF NothingToEncode, TypeOK, LoopInv, fixedVars, configVars
  <1>10. CASE CheckTrack
    BY <1>10 DEF CheckTrack, TypeOK, LoopInv, fixedVars, configVars
  <1>11. CASE Send
    <2>1. [layout |-> sbsFrame.layout, filled |-> sbsFrame.filled]
             \in [layout : Layout \cup {"none"}, filled : 1..2]
      BY <1>11 DEF Send, LoopInv, Image
    <2> QED
      BY <1>11, <2>1 DEF Send, TypeOK, LoopInv, fixedVars, configVars
  <1> QED
    BY <1>1, <1>2, <1>3, <1>4, <1>5, <1>6, <1>7, <1>8, <1>9, <1>10, <1>11,
       <1>12, <1>13, <1>14
       DEF LoopStep

\* Setting the mode, the overlay or the device, and the track's changes.
LEMMA OthersKeepInv ==
    ASSUME TypeOK, LoopInv,
           \/ TrackOpens
           \/ TrackCloses
           \/ \E value \in Mode : SetMode(value)
           \/ \E value \in BOOLEAN : SetOverlay(value)
           \/ SetDevice
    PROVE  TypeOK' /\ LoopInv'
  <1>1. CASE TrackOpens \/ TrackCloses
    BY <1>1 DEF TrackOpens, TrackCloses, TypeOK, LoopInv, fixedVars, configVars
  <1>2. ASSUME NEW value \in Mode, SetMode(value)
        PROVE  TypeOK' /\ LoopInv'
    <2>1. switched' \in BOOLEAN
      BY <1>2 DEF SetMode, TypeOK
    <2>2. TypeOK'
      BY <1>2, <2>1 DEF SetMode, TypeOK, fixedVars
    <2>3. pc' = "overlay" /\ ~switched' => mode' = mode /\ ~switched
      BY <1>2 DEF SetMode
    <2>4. LoopInv'
      BY <1>2, <2>3 DEF SetMode, LoopInv, fixedVars
    <2> QED
      BY <2>2, <2>4
  <1>3. ASSUME NEW value \in BOOLEAN, SetOverlay(value)
        PROVE  TypeOK' /\ LoopInv'
    BY <1>3 DEF SetOverlay, TypeOK, LoopInv, fixedVars
  <1>4. CASE SetDevice
    BY <1>4 DEF SetDevice, TypeOK, LoopInv, fixedVars, configVars
  <1> QED
    BY <1>1, <1>2, <1>3, <1>4

-----------------------------------------------------------------------------
(* The messages on their way.                                              *)

\* Putting a message at the end, and taking the first one.
LEMMA AppendModes ==
    ASSUME NEW s \in Seq(ControlMessage), NEW m \in ControlMessage
    PROVE  /\ m.type = "viz_mode" => LastModeIn(Append(s, m), m.value)
           /\ m.type # "viz_mode" =>
                /\ NoModeIn(s) => NoModeIn(Append(s, m))
                /\ \A v : LastModeIn(s, v) => LastModeIn(Append(s, m), v)
  BY DEF LastModeIn, NoModeIn, AsksForMode

LEMMA TailModes ==
    ASSUME NEW s \in Seq(ControlMessage), s # <<>>
    PROVE  /\ NoModeIn(s) => NoModeIn(Tail(s)) /\ Head(s).type # "viz_mode"
           /\ \A v : LastModeIn(s, v) =>
                \/ LastModeIn(Tail(s), v)
                \/ /\ NoModeIn(Tail(s))
                   /\ Head(s).type = "viz_mode" /\ Head(s).value = v
  <1>1. \A i \in 1..Len(Tail(s)) : Tail(s)[i] = s[i + 1]
    OBVIOUS
  <1>2. Len(Tail(s)) = Len(s) - 1 /\ Head(s) = s[1] /\ Len(s) \in Nat \ {0}
    OBVIOUS
  <1>3. NoModeIn(s) => NoModeIn(Tail(s)) /\ Head(s).type # "viz_mode"
    BY <1>1, <1>2 DEF NoModeIn, AsksForMode
  <1>4. ASSUME NEW v, LastModeIn(s, v)
        PROVE  \/ LastModeIn(Tail(s), v)
               \/ /\ NoModeIn(Tail(s))
                  /\ Head(s).type = "viz_mode" /\ Head(s).value = v
    <2>1. PICK i \in 1..Len(s) :
            /\ AsksForMode(s, i)
            /\ s[i].value = v
            /\ \A j \in (i + 1)..Len(s) : ~AsksForMode(s, j)
      BY <1>4 DEF LastModeIn
    <2>2. CASE i = 1
      BY <1>1, <1>2, <2>1, <2>2 DEF NoModeIn, AsksForMode
    <2>3. CASE i # 1
      <3>1. i - 1 \in 1..Len(Tail(s)) /\ Tail(s)[i - 1] = s[i]
        BY <1>1, <1>2, <2>1, <2>3
      <3>2. \A j \in (i - 1 + 1)..Len(Tail(s)) : ~AsksForMode(Tail(s), j)
        BY <1>1, <1>2, <2>1 DEF AsksForMode
      <3> QED
        BY <2>1, <3>1, <3>2 DEF LastModeIn, AsksForMode
    <2> QED
      BY <2>2, <2>3
  <1> QED
    BY <1>3, <1>4

-----------------------------------------------------------------------------
(* The steps of the page.                                                  *)

ViewType ==
    /\ select \in 0..2
    /\ uMode \in 0..2
    /\ shaderReady \in BOOLEAN
    /\ dataChannel \in {"none", "open", "closed"}
    /\ control \in Seq(ControlMessage)
    /\ halfChange \in BOOLEAN

LEMMA ViewTypeIsBoth == ViewTypeOK <=> TypeOK /\ ViewType
  BY DEF ViewTypeOK, ViewType

\* run() and the track do not touch the page; only messages change the mode.
LEMMA LoopKeepsView ==
    ASSUME ViewType, ViewInv, UNCHANGED viewVars, mode' = mode
    PROVE  ViewType' /\ ViewInv'
  <1>1. ViewType'
    BY DEF ViewType, viewVars
  <1>2. ViewInv'
    BY DEF ViewInv, viewVars
  <1> QED
    BY <1>1, <1>2

LEMMA ChannelKeepsView ==
    ASSUME ViewType, ViewInv, DataChannelOpens \/ DataChannelCloses \/ MakeShader
    PROVE  ViewType' /\ ViewInv'
  <1>1. CASE DataChannelOpens
    <2>1. NoModeIn(<<>>)
      BY DEF NoModeIn
    <2>2. UNCHANGED <<select, uMode, shaderReady, control, halfChange, mode>>
      BY <1>1 DEF DataChannelOpens, loopVars, configVars
    <2>3. mode = 0 /\ control = <<>> /\ dataChannel' = "open"
      BY <1>1 DEF DataChannelOpens, ViewInv
    <2>4. ~halfChange => uMode = 0
      BY <1>1 DEF DataChannelOpens, ViewInv
    <2>5. ViewInv'
      BY <2>1, <2>2, <2>3, <2>4 DEF ViewInv
    <2> QED
      BY <2>2, <2>3, <2>5 DEF ViewType
  <1>2. CASE DataChannelCloses
    <2>1. UNCHANGED <<select, uMode, shaderReady, halfChange, mode>>
      BY <1>2 DEF DataChannelCloses, loopVars, configVars
    <2>2. control' = <<>> /\ dataChannel' = "closed"
      BY <1>2 DEF DataChannelCloses
    <2>3. ViewInv'
      BY <2>1, <2>2 DEF ViewInv
    <2>4. control' \in Seq(ControlMessage)
      BY <2>2
    <2> QED
      BY <2>1, <2>2, <2>3, <2>4 DEF ViewType
  <1>3. CASE MakeShader
    <2>1. UNCHANGED <<select, uMode, dataChannel, control, halfChange, mode>>
      BY <1>3 DEF MakeShader, loopVars, configVars
    <2>2. shaderReady' = TRUE /\ ~shaderReady
      BY <1>3 DEF MakeShader
    <2>3. ViewInv'
      BY <2>1, <2>2 DEF ViewInv
    <2> QED
      BY <2>1, <2>2, <2>3 DEF ViewType
  <1> QED
    BY <1>1, <1>2, <1>3

LEMMA ChangeViewKeepsView ==
    ASSUME ViewType, ViewInv, NEW value \in 0..2, ChangeView(value)
    PROVE  ViewType' /\ ViewInv'
  <1> DEFINE m == [type |-> "viz_mode", value |-> value]
  <1>1. m \in ControlMessage
    BY DEF ControlMessage
  <1>2. UNCHANGED <<shaderReady, dataChannel, mode>>
    BY DEF ChangeView, loopVars, configVars
  <1>3. /\ dataChannel = "open" => control' = Append(control, m)
        /\ dataChannel # "open" => control' = control
    BY DEF ChangeView, SendControl
  <1>4. /\ shaderReady => uMode' = value
        /\ ~shaderReady => uMode' = uMode
    BY DEF ChangeView, UpdateShaderMode
  <1>5. ~halfChange' => ~halfChange /\ (shaderReady <=> dataChannel = "open")
    BY DEF ChangeView, ViewType
  <1>6. control' \in Seq(ControlMessage)
    BY <1>1, <1>3 DEF ViewType
  <1>7. ViewType'
    <2>1. select' \in 0..2 /\ uMode' \in 0..2
      BY <1>4 DEF ChangeView, ViewType
    <2>2. halfChange' \in BOOLEAN
      BY DEF ChangeView, ViewType
    <2> QED
      BY <1>2, <1>6, <2>1, <2>2 DEF ViewType
  <1>8. dataChannel = "open" => LastModeIn(control', value)
    BY <1>1, <1>3, AppendModes DEF ViewType
  <1>9. ViewInv'
    BY <1>2, <1>3, <1>4, <1>5, <1>8 DEF ViewInv
  <1> QED
    BY <1>7, <1>9

LEMMA ChangeOtherKeepsView ==
    ASSUME ViewType, ViewInv, NEW m \in ControlMessage, m.type # "viz_mode",
           ChangeOther(m)
    PROVE  ViewType' /\ ViewInv'
  <1>1. UNCHANGED <<select, uMode, shaderReady, dataChannel, halfChange, mode>>
    BY DEF ChangeOther, loopVars, configVars
  <1>2. control' = IF dataChannel = "open" THEN Append(control, m) ELSE control
    BY DEF ChangeOther, SendControl
  <1>3. control' \in Seq(ControlMessage)
    BY <1>2 DEF ViewType
  <1>4. /\ NoModeIn(control) => NoModeIn(control')
        /\ \A v : LastModeIn(control, v) => LastModeIn(control', v)
    BY <1>2, AppendModes DEF ViewType
  <1>5. dataChannel = "none" => control' = control
    BY <1>2
  <1>6. ViewType'
    BY <1>1, <1>3 DEF ViewType
  <1>7. ViewInv'
    BY <1>1, <1>4, <1>5 DEF ViewInv
  <1> QED
    BY <1>6, <1>7

LEMMA HandleKeepsView ==
    ASSUME ViewType, ViewInv, HandleControlMessage
    PROVE  ViewType' /\ ViewInv'
  <1>1. UNCHANGED <<select, uMode, shaderReady, dataChannel, halfChange>>
    BY DEF HandleControlMessage
  <1>2. control # <<>> /\ control' = Tail(control)
    BY DEF HandleControlMessage
  <1>3. control \in Seq(ControlMessage)
    BY DEF ViewType
  <1>4. \/ Head(control).type = "viz_mode" /\ mode' = Head(control).value
        \/ Head(control).type # "viz_mode" /\ mode' = mode
    BY <1>3, HandleCases DEF SetMode, SetOverlay, SetDevice, configVars
  <1>5. control' \in Seq(ControlMessage)
    BY <1>2, <1>3
  <1>6. ViewType'
    BY <1>1, <1>5 DEF ViewType
  <1>7. NoModeIn(control) => NoModeIn(control') /\ mode' = mode
    BY <1>2, <1>3, <1>4, TailModes
  <1>8. \A v : LastModeIn(control, v) =>
               LastModeIn(control', v) \/ (NoModeIn(control') /\ mode' = v)
    BY <1>2, <1>3, <1>4, TailModes
  <1>9. dataChannel # "none"
    BY <1>2 DEF ViewInv
  <1>10. ViewInv'
    BY <1>1, <1>7, <1>8, <1>9 DEF ViewInv
  <1> QED
    BY <1>6, <1>10

-----------------------------------------------------------------------------
(* The invariant, and what follows from it.                                *)

LEMMA NextIInv == IInv /\ [Next]_vars => IInv'
  <1> SUFFICES ASSUME IInv, [Next]_vars
               PROVE  IInv'
    OBVIOUS
  <1> USE DEF IInv
  <1>1. CASE UNCHANGED vars
    <2>1. TypeOK' /\ LoopInv'
      BY <1>1, ViewTypeIsBoth
         DEF vars, loopVars, fixedVars, configVars, TypeOK, LoopInv
    <2>2. mode' = mode /\ UNCHANGED viewVars
      BY <1>1 DEF vars, loopVars, configVars
    <2> QED
      BY <2>1, <2>2, ViewTypeIsBoth, LoopKeepsView DEF ViewTypeOK, ViewType
  <1>2. CASE (LoopStep \/ TrackOpens \/ TrackCloses) /\ UNCHANGED viewVars
    <2>1. TypeOK' /\ LoopInv'
      BY <1>2, ViewTypeIsBoth, LoopKeepsInv, OthersKeepInv
    <2>2. mode' = mode
      BY <1>2 DEF LoopStep, Synthesise, TakeFrameset, SkipFrameset, CameraFails, Compose,
                  ComposeRest, ComposeNothing, ComposeDamaged, Overlay, OverlayRest,
                  Encode, NothingToEncode, CheckTrack, Send, TrackOpens,
                  TrackCloses, configVars
    <2> QED
      BY <1>2, <2>1, <2>2, ViewTypeIsBoth, LoopKeepsView DEF ViewTypeOK, ViewType
  <1>3. CASE HandleControlMessage
    <2>1. TypeOK' /\ LoopInv'
      BY <1>3, ViewTypeIsBoth, HandleCases, OthersKeepInv DEF ViewType
    <2> QED
      BY <1>3, <2>1, ViewTypeIsBoth, HandleKeepsView DEF ViewTypeOK, ViewType
  <1>4. CASE \/ DataChannelOpens \/ DataChannelCloses \/ MakeShader
             \/ \E value \in 0..2 : ChangeView(value)
             \/ \E m \in ControlMessage : m.type # "viz_mode" /\ ChangeOther(m)
    <2>1. UNCHANGED loopVars
      BY <1>4 DEF DataChannelOpens, DataChannelCloses, MakeShader, ChangeView,
                  ChangeOther
    <2>2. TypeOK' /\ LoopInv'
      BY <2>1, ViewTypeIsBoth DEF loopVars, fixedVars, configVars, TypeOK, LoopInv
    <2>3. ViewType' /\ ViewInv'
      BY <1>4, ViewTypeIsBoth, ChannelKeepsView, ChangeViewKeepsView,
         ChangeOtherKeepsView
    <2> QED
      BY <2>2, <2>3 DEF ViewTypeOK, ViewType
  <1> QED
    BY <1>1, <1>2, <1>3, <1>4, NextCases DEF LoopStep

\* The invariant holds in every state run(), the callbacks and the page reach.
THEOREM Invariance == Spec => []IInv
  BY InitIInv, NextIInv, PTL DEF Spec

\* Every variable of the loop and of the page has its type.
THEOREM TypeCorrect == Spec => []ViewTypeOK
  <1>1. IInv => ViewTypeOK
    BY DEF IInv
  <1> QED
    BY <1>1, Invariance, PTL

\* What run() is about to send shows the frameset of this turn.
THEOREM OnlyTheCurrentImageIsSent == Spec => []SendsTheCurrentImage
  <1>1. IInv => SendsTheCurrentImage
    BY DEF IInv, LoopInv, SendsTheCurrentImage
  <1> QED
    BY <1>1, Invariance, PTL

\* Page and compositor are in the same mode when all messages have arrived,
\* however many there may be on their way.
THEOREM PageAndCompositorAgree == Spec => []ViewsAgree
  <1>1. IInv => ViewsAgree
    <2> SUFFICES ASSUME IInv, shaderReady, dataChannel = "open", control = <<>>,
                        ~halfChange
                 PROVE  uMode = mode
      BY DEF ViewsAgree
    <2>1. ~LastModeIn(control, uMode)
      BY DEF LastModeIn
    <2> QED
      BY <2>1 DEF IInv, ViewInv
  <1> QED
    BY <1>1, Invariance, PTL

\* A caption names the layout of its image unless the mode has changed
\* between the reads of compose.
THEOREM CaptionAlwaysNamesLayout == Spec => CaptionNamesLayout
  <1>1. ASSUME IInv, Next, pc \in {"overlay", "caption"}, pc' = "fit"
        PROVE  Overlay \/ OverlayRest
    BY <1>1, NextCases
       DEF Synthesise, TakeFrameset, SkipFrameset, CameraFails, Compose, ComposeRest,
           ComposeNothing, ComposeDamaged, Encode, NothingToEncode, CheckTrack, Send,
           TrackOpens, TrackCloses, DataChannelOpens, DataChannelCloses, MakeShader,
           ChangeView, ChangeOther, HandleControlMessage, Handle, SetMode, SetOverlay,
           SetDevice, loopVars
  <1>2. ASSUME IInv, [Next]_vars, pc \in {"overlay", "caption"}, pc' = "fit"
        PROVE  sbsFrame'.captionFits \/ switched
    <2>1. Overlay \/ OverlayRest
      BY <1>1, <1>2 DEF vars, loopVars
    <2>2. sbsFrame \in Image /\ mode \in 0..2
      BY <1>2 DEF IInv, LoopInv, ViewTypeOK, TypeOK, Mode
    <2>3. ~switched /\ pc = "overlay" => sbsFrame.layout = LayoutFor(mode)
      BY <1>2 DEF IInv, LoopInv
    <2>4. ~switched /\ pc = "caption" => mode # 0 /\ sbsFrame.layout = LayoutFor(mode)
      BY <1>2 DEF IInv, LoopInv
    <2>5. CASE OverlayRest
      <3>1. mode # 0 => CaptionOf(mode) = LayoutFor(mode)
        BY <2>2 DEF CaptionOf, LayoutFor
      <3>2. CaptionOf(mode) \in Layout
        BY DEF CaptionOf, Layout
      <3> QED
        BY <2>2, <2>4, <2>5, <3>1, <3>2, CaptionedIsImage DEF OverlayRest
    <2>6. CASE Overlay /\ showOverlay
      <3>1. LayoutFor(0) = "sbs" /\ "sbs" \in Layout
        BY DEF LayoutFor, Layout
      <3> QED
        BY <1>2, <2>2, <2>3, <2>6, <3>1, CaptionedIsImage DEF Overlay
    <2>7. CASE Overlay /\ ~showOverlay
      BY <1>2, <2>7 DEF Overlay, IInv, LoopInv
    <2> QED
      BY <2>1, <2>5, <2>6, <2>7
  <1>3. IInv /\ [Next]_vars
          => [(pc = "overlay" \/ pc = "caption") /\ pc' = "fit"
                => sbsFrame'.captionFits \/ switched]_loopVars
    BY <1>2
  <1> QED
    BY <1>3, Invariance, PTL DEF Spec, CaptionNamesLayout
=============================================================================
