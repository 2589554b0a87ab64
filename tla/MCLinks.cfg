\* Two links, three requests of the staff, two failures of different kinds.
CONSTANTS
    l1 = l1  l2 = l2  l3 = l3  r1 = r1  r2 = r2  r3 = r3  r4 = r4
    NoLink = NoLink
    Link = {l1, l2}
    Staff = {r1, r2, r3}
    Faults = {"redelivered", "insertFails", "unwritten", "unrecorded", "restart"}
    MaxFaults = 2
SPECIFICATION LinksFairSpec
INVARIANT RecordsSound
PROPERTIES SuccessStays LinkPaidIsRecorded
CHECK_DEADLOCK FALSE
