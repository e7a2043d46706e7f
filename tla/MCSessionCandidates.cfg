\* One page: the complete offer and answer (main.cpp, line 161).
SPECIFICATION FairSpec
CONSTANTS
    b1 = b1
    b2 = b2
    Streamer = Streamer
    None = None
    Browser <- OnePage
    MaxInFlight = 3
    MaxTexts = 8
    Droppable <- NoConnection
PROPERTY CandidatesExchanged
CHECK_DEADLOCK FALSE
