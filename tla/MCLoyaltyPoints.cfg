CONSTANTS
    o1 = o1  o2 = o2  c1 = c1  c2 = c2
    None = None
    Order = {o1, o2}
    Customer = {c1, c2}
    Paid = 2
    Floors <- MCFloors
    Case <- MCCase
SPECIFICATION FairSpec
INVARIANT PointsAgree
PROPERTIES RisesTold CatchesUp
CHECK_DEADLOCK FALSE
