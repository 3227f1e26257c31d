CONSTANTS
    orderA = orderA
    orderB = orderB
    WorkOrders = {orderA, orderB}
    Ratings = {"5"}
    Reasons = {}
    Images = {"jpeg"}
    MaxForms = 2
    MaxDepth = 4
    MaxBatches = 2
    MaxPicked = 2
    MaxBacks = 0
SYMMETRY OrderSymmetry
SPECIFICATION Spec
INVARIANTS
    FiledWhereOpen
    PictureFiledOnce
PROPERTIES
    PicturesStay
\* The inspector may stop tapping, and the bounds end every behaviour.
CHECK_DEADLOCK FALSE
