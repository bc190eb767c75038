\* Checkouts and secret rotations wait for the row the poller's pass has locked.
SPECIFICATION FairSpec
CONSTANTS
    Requests = {r1, r2}
    Poller = poller
    Cap = 2
    CycleLength = 1
    Amounts = {10}
    Plans = {"free"}
    PlanEnds = {0}
    MaxClock = 1
    MaxOrders = 2
    MaxRotations = 1
    MaxCredits = 1
INVARIANT SecretIsLastIssued
PROPERTY CheckoutsGetOn
