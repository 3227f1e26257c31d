SPECIFICATION FairSpec
CONSTANTS
    page = page
    pic = pic
    Leaves <- MCLeaves
    Footprints <- MCFootprints
    Refused = {}
    WithAuth = FALSE
    MaySwitch = FALSE
    MayDie = FALSE
    MaxPendingAuths = 1
    MaxWrites = 1
    MaxListens = 1
PROPERTIES
    EveryAnswerReported
