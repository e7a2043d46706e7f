----------------------------- MODULE LocalViewers -----------------------------
(***************************************************************************)
(* The two viewers of the verification tool: view_camera shows color and   *)
(* depth in a window each, view_sbs one composed image.  The user ends     *)
(* them by a key in a window, by a key on the console (view_camera only)   *)
(* or by closing a window; all of that is looked at between two framesets, *)
(* for which the loop waits up to 100 ms.                                  *)
(***************************************************************************)
EXTENDS Integers, Sequences

CONSTANT MaxTyped   \* bound: characters waiting on the console, and keys in
                    \* the windows' queue

ASSUME MaxTypedAssumption == MaxTyped \in Nat

VARIABLES
    vPc,       \* where main is
    viewer,    \* "view_camera" or "view_sbs"
    enabled,   \* the streams enabled in the config
    visible,   \* the windows on the screen
    clicked,   \* the windows whose close button was clicked since waitKey
    pressed,   \* the keys pressed in the windows: "quit" (q, Q, ESC) or "other"
    console,   \* the characters on stdin, likewise
    frames,    \* the frames of the frameset at hand
    streaming, \* the pipeline runs
    vExit      \* how main ended: "" while it runs

viewerVars == <<vPc, viewer, enabled, visible, clicked, pressed, console, frames,
                streaming, vExit>>
userVars == <<clicked, pressed, console>>

Keys == {"quit", "other"}

ViewerTypeOK ==
    /\ vPc \in {"idle", "keys", "console", "windows", "wait", "show", "stop", "end"}
    /\ viewer \in {"view_camera", "view_sbs"}
    /\ enabled \in SUBSET {"color", "depth"} /\ frames \in SUBSET enabled
    /\ visible \in SUBSET {"color", "depth", "sbs"} /\ clicked \in SUBSET visible
    /\ streaming \in BOOLEAN
    /\ pressed \in Seq(Keys) /\ console \in Seq(Keys)
    /\ vExit \in {"", "0", "-1"}

ViewerInit ==
    /\ vPc = "idle" /\ viewer = "view_camera"
    /\ enabled = {} /\ visible = {} /\ clicked = {} /\ frames = {}
    /\ pressed = <<>> /\ console = <<>>
    /\ streaming = FALSE /\ vExit = ""

Windows == IF viewer = "view_camera" THEN {"color", "depth"} ELSE {"sbs"}

\* A device, the streams that have profiles (view_sbs wants both), the start of
\* the pipeline, and the windows.
StartViewer ==
    /\ vPc = "idle"
    /\ viewer' \in {"view_camera", "view_sbs"}
    /\ enabled' \in SUBSET {"color", "depth"}
    /\ viewer' = "view_sbs" => enabled' = {"color", "depth"}
    /\ visible' = Windows'
    /\ streaming' = TRUE
    /\ vPc' = "keys"
    /\ UNCHANGED <<userVars, frames, vExit>>

\* No device, no profiles, or an ob::Error on the way: -1.  The destructors stop
\* the pipeline.
ViewerFails(pc) ==
    /\ vPc = pc
    /\ vPc' = "end" /\ vExit' = "-1"
    /\ streaming' = FALSE
    /\ UNCHANGED <<viewer, enabled, visible, userVars, frames>>

\* cv::waitKey(1): what the user did to the windows takes effect, and the next
\* key of their queue is returned, if there is one.
LookAtKeys ==
    /\ vPc = "keys"
    /\ visible' = visible \ clicked /\ clicked' = {}
    /\ LET next == IF viewer = "view_camera" THEN "console" ELSE "windows" IN
       IF pressed = <<>>
         THEN vPc' = next /\ UNCHANGED pressed
         ELSE /\ pressed' = Tail(pressed)
              /\ vPc' = IF Head(pressed) = "quit" THEN "stop" ELSE next
    /\ UNCHANGED <<viewer, enabled, console, frames, streaming, vExit>>

\* select and read: one character, if there is one.
ReadConsole ==
    /\ vPc = "console"
    /\ IF console = <<>>
         THEN vPc' = "windows" /\ UNCHANGED console
         ELSE /\ console' = Tail(console)
              /\ vPc' = IF Head(console) = "quit" THEN "stop" ELSE "windows"
    /\ UNCHANGED <<viewer, enabled, visible, clicked, pressed, frames, streaming, vExit>>

\* Wrong variant of CheckWindows: only the first window is looked at.
CheckColorWindow ==
    /\ vPc = "windows"
    /\ vPc' = IF visible \cap {"color", "sbs"} # {} THEN "wait" ELSE "stop"
    /\ UNCHANGED <<viewer, enabled, visible, userVars, frames, streaming, vExit>>

CheckWindows ==
    /\ vPc = "windows"
    /\ vPc' = IF Windows \subseteq visible THEN "wait" ELSE "stop"
    /\ UNCHANGED <<viewer, enabled, visible, userVars, frames, streaming, vExit>>

\* waitForFrameset(100): some frames, or nothing and the loop begins again.
WaitForFrameset ==
    /\ vPc = "wait"
    /\ \/ frames' \in SUBSET enabled /\ vPc' = "show"
       \/ frames' = {} /\ vPc' = "keys"
    /\ UNCHANGED <<viewer, enabled, visible, userVars, streaming, vExit>>

\* imshow makes a window that is not there.  view_camera shows each frame that
\* it can decode; view_sbs shows what compose leaves in sbsFrame, if anything.
ShowFrames ==
    /\ vPc = "show"
    /\ \E shown \in SUBSET Windows :
         /\ visible' = visible \cup shown
         /\ IF viewer = "view_camera" THEN shown \subseteq frames
            ELSE shown # {} => frames = {"color", "depth"}
    /\ frames' = {}
    /\ vPc' = "keys"
    /\ UNCHANGED <<viewer, enabled, userVars, streaming, vExit>>

StopViewer ==
    /\ vPc = "stop"
    /\ streaming' = FALSE /\ visible' = {} /\ clicked' = {}
    /\ vPc' = "end" /\ vExit' = "0"
    /\ UNCHANGED <<viewer, enabled, pressed, console, frames>>

\* The SDK throws in waitForFrameset or stop, compose in view_sbs on a damaged
\* frame (which only view_sbs catches as a std::exception).
ViewerThrows ==
    \/ \E pc \in {"idle", "wait", "stop"} : ViewerFails(pc)
    \/ viewer = "view_sbs" /\ frames = {"color", "depth"} /\ ViewerFails("show")

ViewerMain ==
    \/ LookAtKeys \/ ReadConsole \/ CheckWindows \/ WaitForFrameset \/ ShowFrames
    \/ StopViewer

\* The user, at any time.
PressKey(k) ==
    /\ vPc \notin {"idle", "end"} /\ visible # {} /\ Len(pressed) < MaxTyped
    /\ pressed' = Append(pressed, k)
    /\ UNCHANGED <<vPc, viewer, enabled, visible, clicked, console, frames, streaming, vExit>>

ClickClose(w) ==
    /\ vPc \notin {"idle", "end"} /\ w \in visible
    /\ clicked' = clicked \cup {w}
    /\ UNCHANGED <<vPc, viewer, enabled, visible, pressed, console, frames, streaming, vExit>>

TypeOnConsole(c) ==
    /\ vPc \notin {"idle", "end"} /\ Len(console) < MaxTyped
    /\ console' = Append(console, c)
    /\ UNCHANGED <<vPc, viewer, enabled, visible, clicked, pressed, frames, streaming, vExit>>

ViewerNext ==
    \/ StartViewer \/ ViewerMain \/ ViewerThrows
    \/ \E w \in visible : ClickClose(w)
    \/ \E k \in Keys : PressKey(k) \/ TypeOnConsole(k)

\* One thread, and every call of its loop returns, with frames or without.
ViewerFairness == WF_viewerVars(ViewerMain)

ViewerSpec == ViewerInit /\ [][ViewerNext]_viewerVars /\ ViewerFairness

-----------------------------------------------------------------------------
(* Properties *)

\* Whichever way the user asks for it, the viewer ends, also when no frame ever
\* comes, other keys or characters wait before the q, or the next
\* imshow would make the closed window again; and then nothing streams.
AskedToEnd ==
    /\ vPc \notin {"idle", "end"}
    /\ \/ clicked # {}
       \/ \E i \in DOMAIN pressed : pressed[i] = "quit"
       \/ viewer = "view_camera" /\ \E i \in DOMAIN console : console[i] = "quit"

QuitIsHeard == AskedToEnd ~> (vPc = "end" /\ ~streaming)
=============================================================================
