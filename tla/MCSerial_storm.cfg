\* An order, a draft and a hand-raised document, two stores; one
\* correction or cancellation and one failure.
CONSTANTS
    p1 = p1  p2 = p2  p3 = p3  o1 = o1  o2 = o2  d1 = d1  d2 = d2
    m1 = m1  n1 = n1  n2 = n2  s1 = s1  s2 = s2
    None = None
    Store = {s1, s2}
    Order = {o1}
    Draft = {d1}
    Manual = {m1}
    Note = {}
    Chained = {d1}
    Correctable = {o1, d1}
    Cancellable = {d1}
    Pass = {p1, p2}
    Faults = {"fails", "lostReply", "restart"}
    MaxEdits = 1
    MaxFaults = 1
SPECIFICATION Spec
SYMMETRY StoreSymmetry
INVARIANTS PassesSound ReissueSafe FirstMintsAgree
PROPERTIES OrderPrintsOnce NumberIsPermanent
