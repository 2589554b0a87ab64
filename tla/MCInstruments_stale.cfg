CONSTANTS
    v1 = v1  v2 = v2  d1 = d1  d2 = d2  o1 = o1
    None = None
    Code = {v1, v2}
    Draft = {d1, d2}
    Order = {o1}
    Case <- StaleCase
SPECIFICATION Spec
INVARIANT HeldIsReserved
CHECK_DEADLOCK FALSE
