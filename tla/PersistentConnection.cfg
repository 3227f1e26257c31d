SPECIFICATION FairConnectionSpec
CONSTANTS
    WithAuth = TRUE
    MaySwitch = TRUE
    MaxPendingAuths = 3
INVARIANTS
    ConnectionTypeOK
    RetriesFromDisconnected
    SocketMatchesState
    NeverStranded
    InterruptedIsOffline
PROPERTIES
    ComesUp
