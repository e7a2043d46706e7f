\* One camera with five frame times, or two cameras with two.
SPECIFICATION FairSpec
CONSTANTS
    d1 = d1
    d2 = d2
    Devices <- MCDevices
    Holders <- MCHolders
    DevList <- MCDevList
    HalfTspGap <- MCHalfTspGap
    MaxFrameSize = 2
    MaxStamp = 4
    MaxStampWith <- MCMaxStampWith
    Two64 = 1000
INVARIANTS
    TypeOK
    NoNullFront
    QueuesAreOrdered
    OnePairPerDevice
    PairsAreClose
PROPERTIES
    ViewNeverGoesBack
    PairingComesBack
CHECK_DEADLOCK FALSE
