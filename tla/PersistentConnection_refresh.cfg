SPECIFICATION ConnectionSpec
CONSTANTS
    WithAuth = TRUE
    MaySwitch = TRUE
    MaxPendingAuths = 3
INVARIANTS
    RefusedTokenIsRefreshed
