\* One payment is pushed and cancelled; nothing fails.
CONSTANTS
    t1 = t1  t2 = t2  d1 = d1  r1 = r1  r2 = r2  r3 = r3  k1 = k1  k2 = k2
    None = None
    Txn = {t1}
    Draft = {d1}
    Request = {r1, r2}
    Tick = {k1}
    Ops = {"push", "cancel"}
    Faults = {}
    MaxFaults = 0
SPECIFICATION Spec
INVARIANT CancelledNotCharged
CHECK_DEADLOCK FALSE
