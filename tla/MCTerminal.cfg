\* Two payments of a draft, two ticks that may overlap, three requests of any
\* kind, one failure.
CONSTANTS
    t1 = t1  t2 = t2  d1 = d1  r1 = r1  r2 = r2  r3 = r3  k1 = k1  k2 = k2
    None = None
    Txn = {t1, t2}
    Draft = {d1}
    Request = {r1, r2, r3}
    Tick = {k1, k2}
    Ops = {"push", "check", "cancel", "postback"}
    Faults = {"timeout", "refused", "unreachable", "restart", "unwritten",
              "unrecorded"}
    MaxFaults = 1
SPECIFICATION FairSpec
INVARIANTS RowsSound PollerCountsOnce
PROPERTIES PaidNeverFails ChargeIsRecorded
CHECK_DEADLOCK FALSE
