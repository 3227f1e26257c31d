CONSTANTS
    orderA = orderA
    orderB = orderB
    WorkOrders = {orderA}
    Ratings = {"5"}
    Reasons = {1}
    Images = {"jpeg", "undecodable"}
    MaxForms = 1
    MaxDepth = 4
    MaxBatches = 1
    MaxPicked = 2
    MaxBacks = 1
SPECIFICATION Spec
INVARIANTS
    FreshPageInSync
PROPERTIES
    UndecodableStopsFour
\* The inspector may stop tapping, and the bounds end every behaviour.
CHECK_DEADLOCK FALSE
