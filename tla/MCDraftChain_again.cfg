\* One edit and one cash tag; nothing fails.
CONSTANTS
    r1 = r1  r2 = r2  r3 = r3  r4 = r4  r5 = r5  x1 = x1
    None = None
    Run = {r1}
    Direct = {}
    MaxPass = 3
    MaxEdits = 1
    MaxCash = 1
    Faults = {}
    MaxFaults = 0
    MaxInline = 0
    MaxEvents = 2
SPECIFICATION Spec
INVARIANT CashOnce
CHECK_DEADLOCK FALSE
