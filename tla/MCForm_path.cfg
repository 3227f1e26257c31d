CONSTANTS
    orderA = orderA
    orderB = orderB
    WorkOrders = {orderA}
    Ratings = {"5"}
    Reasons = {}
    Images = {}
    MaxForms = 2
    MaxDepth = 9
    MaxBatches = 0
    MaxPicked = 0
    MaxBacks = 0
SPECIFICATION Spec
INVARIANTS
    PathFollowsJob
\* The inspector may stop tapping, and the bounds end every behaviour.
CHECK_DEADLOCK FALSE
