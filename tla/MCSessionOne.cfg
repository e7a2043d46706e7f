\* One page: the exchange comes to its end.
SPECIFICATION FairSpec
CONSTANTS
    b1 = b1
    b2 = b2
    Streamer = Streamer
    None = None
    Browser <- OnePage
    MaxInFlight = 3
    MaxTexts = 8
    Droppable <- AnyConnection
INVARIANTS
    NoOfferLeftOpen
PROPERTIES
    EveryPageGetsAnOffer
    StreamerGetsAnswer
CHECK_DEADLOCK FALSE
