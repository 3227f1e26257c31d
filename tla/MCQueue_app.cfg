SPECIFICATION FairSpec
CONSTANTS
    page = page
    pic = pic
    Leaves <- MCLeaves
    Footprints <- MCFootprints
    Refused = {}
    WithAuth = FALSE
    MaySwitch = FALSE
    MayDie = TRUE
    MaxPendingAuths = 1
    MaxWrites = 4
    MaxListens = 0
INVARIANTS
    TypeOK
    SettledSurvives
    LastWriteWins
    SentOncePerSession
    CompletedOnce
    PendingIsOutstanding
    CompletedInOrder
PROPERTIES
    ImplementsPromise
    EveryWriteSettles
