\* Two webhook handlers and one recomputeCollection, used again and again; any
\* two events among edits, cash tags, recomputes and failures.
CONSTANTS
    r1 = r1  r2 = r2  r3 = r3  r4 = r4  r5 = r5  x1 = x1
    None = None
    Run = {r1, r2, x1}
    Direct = {x1}
    MaxPass = 3
    MaxEdits = 2
    MaxCash = 2
    Faults = {"hang", "fetchFails", "readFails", "stepFails"}
    MaxFaults = 1
    MaxInline = 1
    MaxEvents = 2
SPECIFICATION FairSpec
INVARIANTS ChainSound FiguresAgree PaymentsAgree
PROPERTY StormEnds
CHECK_DEADLOCK FALSE
