CONSTANTS
    None = None
    Amount <- MCAmount
    MaxDue = 2
    Case <- MCCase
SPECIFICATION FairSpec
INVARIANTS RepairSound MoneyAgrees
PROPERTIES RepairEnds
CHECK_DEADLOCK FALSE
