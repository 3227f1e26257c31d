SPECIFICATION Spec
CONSTANTS
    page = page
    pic = pic
    Leaves <- MCLeaves
    Footprints <- MCFootprints
    Refused <- MCRefused
    WithAuth = TRUE
    MaySwitch = TRUE
    MayDie = FALSE
    MaxPendingAuths = 1
    MaxWrites = 2
    MaxListens = 1
INVARIANTS
    SettledSurvives
    LastWriteWins
    SentOncePerSession
    CompletedOnce
    PendingIsOutstanding
PROPERTIES
    ImplementsPromise
