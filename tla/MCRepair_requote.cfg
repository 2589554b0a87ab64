CONSTANTS
    None = None
    Amount <- MCAmount
    MaxDue = 2
    Case <- RequoteCase
SPECIFICATION FairSpec
PROPERTIES EstimateIsMailed
CHECK_DEADLOCK FALSE
