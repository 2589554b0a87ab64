CONSTANTS
    d1 = d1  d2 = d2  d3 = d3
    None = None
    Doc = {d1, d2, d3}
    Advance = {d1}
    MaxLegs = 2
    Case <- MCCase
SPECIFICATION FairSpec
INVARIANTS SettlesOnce AccountsAgree
PROPERTIES FinalStays AdvanceEnds
CHECK_DEADLOCK FALSE
