\* Two groups of two frame types in the window; a camera that connects at most
\* three times; two devices to update; two cameras, three plugs, two changes.
SPECIFICATION Spec
CONSTANTS
    Groups = {0, 1}
    Types = {1, 2}
    Serials = {"own", "other"}
    MaxConnections = 3
    NumDevices = 2
    Cameras = {"a", "b"}
    MaxPlugs = 3
    MaxChanges = 2
    MaxTyped = 2
INVARIANTS
    ProgramsTypeOK
    ClearedAfterTheThread
    GridFits
    SecondUpdateIsAfterTheReboot
    ListedAsReported
    NothingPlaysAtTheEnd
    PublishedFramesAreKnown
    OpenDeviceIsConnected
PROPERTIES
    DrawsAgainAndAgain
    CloseEnds
    PlaybackEnds
    PlaysAgainAndAgain
    QuitIsHeard
CHECK_DEADLOCK FALSE
