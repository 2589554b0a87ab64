\* First mints only, every document under a lock or requested once, nothing
\* fails: no number is lost, every mint concludes and every lock is released.
CONSTANTS
    p1 = p1  p2 = p2  p3 = p3  o1 = o1  o2 = o2  d1 = d1  d2 = d2
    m1 = m1  n1 = n1  n2 = n2  s1 = s1  s2 = s2
    None = None
    Store = {s1}
    Order = {o1, o2}
    Draft = {d1}
    Manual = {}
    Note = {n1}
    Chained = {d1}
    Correctable = {}
    Cancellable = {}
    Pass = {p1, p2, p3}
    Faults = {}
    MaxEdits = 0
    MaxFaults = 0
SPECIFICATION FairSpec
PROPERTIES ImplementsSeries MintEnds
