\* Two vouchers; the answer of one database call is lost.
CONSTANTS
    p1 = p1  p2 = p2  p3 = p3  o1 = o1  o2 = o2  d1 = d1  d2 = d2
    m1 = m1  n1 = n1  n2 = n2  s1 = s1  s2 = s2
    None = None
    Store = {s1}
    Order = {}
    Draft = {}
    Manual = {}
    Note = {n1,n2}
    Chained = {}
    Correctable = {}
    Cancellable = {}
    Pass = {p1,p2}
    Faults = {"lostReply"}
    MaxEdits = 0
    MaxFaults = 1
SPECIFICATION Spec
INVARIANT NoSharedPrint
CHECK_DEADLOCK FALSE
