SPECIFICATION Spec
CONSTANTS
    page = page
    pic = pic
    Leaves <- MCLeaves
    Footprints <- MCFootprints
    Refused = {}
    WithAuth = FALSE
    MaySwitch = TRUE
    MayDie = FALSE
    MaxPendingAuths = 1
    MaxWrites = 2
    MaxListens = 1
INVARIANTS
    RemovesKnownWrites
