\* Three connections, two texts, every interleaving of the callbacks.
SPECIFICATION MCSpec
CONSTANTS
    c1 = c1
    c2 = c2
    c3 = c3
    MaxSends = 2
    Client <- MCClient
    Msg <- MCMsg
INVARIANTS
    TypeOK
    LiveClientsRegistered
PROPERTIES
    RoleSticks
    IsBroadcastHub
    NothingStuck
CHECK_DEADLOCK FALSE
