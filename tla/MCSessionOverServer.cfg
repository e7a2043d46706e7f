\* Two pages over the detailed server, each of which handles one description,
\* while the connection of the streamer may end; safety.
SPECIFICATION OverSpec
CONSTANTS
    b1 = b1
    b2 = b2
    Streamer = Streamer
    None = None
    Browser <- TwoPages
    MaxInFlight = 1
    MaxTexts = 1
    Droppable <- StreamerConnection
INVARIANTS
    OverTypeOK
    AppliedAnswerIsOurs
CHECK_DEADLOCK FALSE
SYMMETRY PageSymmetry
