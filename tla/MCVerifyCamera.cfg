\* Two cameras, three frame periods of time, two frames wanted.
SPECIFICATION FairSpec
CONSTANTS
    CommandLines <- MCCommandLines
    MaxDevices = 2
    DefaultTimeout = 3
    DefaultFrames = 2
    Wait = 2
INVARIANTS
    TypeOK
    ExitSumsUp
    TimeIsBounded
PROPERTIES
    Terminates
CHECK_DEADLOCK FALSE
