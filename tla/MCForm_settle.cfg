CONSTANTS
    orderA = orderA
    orderB = orderB
    WorkOrders = {orderA, orderB}
    Ratings = {"5"}
    Reasons = {}
    Images = {"jpeg"}
    MaxForms = 2
    MaxDepth = 2
    MaxBatches = 2
    MaxPicked = 2
    MaxBacks = 0
SPECIFICATION FairSpec
PROPERTIES
    UploadsSettle
\* The inspector may stop tapping, and the bounds end every behaviour.
CHECK_DEADLOCK FALSE
