\* Two links; nothing fails.
CONSTANTS
    l1 = l1  l2 = l2  l3 = l3  r1 = r1  r2 = r2  r3 = r3  r4 = r4
    NoLink = NoLink
    Link = {l1, l2}
    Staff = {r1, r2}
    Faults = {}
    MaxFaults = 0
SPECIFICATION LinksSpec
INVARIANT RightAmount
CHECK_DEADLOCK FALSE
