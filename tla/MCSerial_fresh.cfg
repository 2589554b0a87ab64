\* An order, a hand-raised document and a voucher, minted once each by three
\* passes; two calls fail or the process restarts.
CONSTANTS
    p1 = p1  p2 = p2  p3 = p3  o1 = o1  o2 = o2  d1 = d1  d2 = d2
    m1 = m1  n1 = n1  n2 = n2  s1 = s1  s2 = s2
    None = None
    Store = {s1}
    Order = {o1}
    Draft = {}
    Manual = {m1}
    Note = {n1}
    Chained = {}
    Correctable = {}
    Cancellable = {}
    Pass = {p1, p2, p3}
    Faults = {"fails", "restart"}
    MaxEdits = 0
    MaxFaults = 2
SPECIFICATION Spec
SYMMETRY PassSymmetry
INVARIANT FirstMintsAgree
PROPERTY NumberIsPermanent
