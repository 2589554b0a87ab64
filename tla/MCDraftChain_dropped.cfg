\* Three edits; nothing fails.
CONSTANTS
    r1 = r1  r2 = r2  r3 = r3  r4 = r4  r5 = r5  x1 = x1
    None = None
    Run = {r1}
    Direct = {}
    MaxPass = 3
    MaxEdits = 3
    MaxCash = 0
    Faults = {}
    MaxFaults = 0
    MaxInline = 0
    MaxEvents = 3
SPECIFICATION Spec
INVARIANT NetFollows
CHECK_DEADLOCK FALSE
