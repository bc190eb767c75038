\* Two checkouts of one free merchant, one order short of the cap.
SPECIFICATION Spec
CONSTANTS
    Requests = {r1, r2}
    Poller = poller
    Cap = 1
    CycleLength = 1
    Amounts = {10}
    Plans = {"free"}
    PlanEnds = {0}
    MaxClock = 2
    MaxOrders = 2
    MaxRotations = 0
    MaxCredits = 0
PROPERTY QuotaKept
