\* run() sends only on an open track (main.cpp, line 268)
SPECIFICATION Spec
CONSTANTS
    MaxControls = 2
INVARIANT SendsOnlyOnOpenTrack
CHECK_DEADLOCK FALSE
