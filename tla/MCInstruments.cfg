CONSTANTS
    v1 = v1  v2 = v2  d1 = d1  d2 = d2  o1 = o1
    None = None
    Code = {v1, v2}
    Draft = {d1, d2}
    Order = {o1}
    Case <- MCCase
SPECIFICATION FairSpec
INVARIANTS HoldsAgree SalesAgree
PROPERTIES SpentStays HoldsEnd
CHECK_DEADLOCK FALSE
