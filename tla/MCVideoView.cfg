\* A viewer that changes the mode while the loop runs.
SPECIFICATION FairSpec
CONSTANTS
    MaxControls = 2
INVARIANTS
    ViewTypeOK
    SendsTheCurrentImage
    ViewsAgree
PROPERTIES
    CaptionNamesLayout
    KeepsSending
    ViewTakesEffect
CHECK_DEADLOCK FALSE
