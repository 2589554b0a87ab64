\* A draft is voided and raised again while another one is numbered.
CONSTANTS
    p1 = p1  p2 = p2  p3 = p3  o1 = o1  o2 = o2  d1 = d1  d2 = d2
    m1 = m1  n1 = n1  n2 = n2  s1 = s1  s2 = s2
    None = None
    Store = {s1}
    Order = {}
    Draft = {d1,d2}
    Manual = {}
    Note = {}
    Chained = {d1,d2}
    Correctable = {}
    Cancellable = {d1}
    Pass = {p1,p2}
    Faults = {}
    MaxEdits = 1
    MaxFaults = 0
SPECIFICATION Spec
PROPERTY VoidedNotHandedBack
