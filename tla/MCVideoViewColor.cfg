\* A full frame is a colour frame (index.html, line 266)
SPECIFICATION Spec
CONSTANTS
    MaxControls = 2
INVARIANT FullFrameIsColor
CHECK_DEADLOCK FALSE
