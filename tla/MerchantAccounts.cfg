\* Two requests and the poller on one merchant's row.
SPECIFICATION Spec
CONSTANTS
    Requests = {r1, r2}
    Poller = poller
    Cap = 1
    CycleLength = 1
    Amounts = {10}
    Plans = {"free", "pro"}
    PlanEnds = {2}
    MaxClock = 2
    MaxOrders = 2
    MaxRotations = 0
    MaxCredits = 2
INVARIANTS
    TypeOK
    UniqueIndex
    CountIsTrueAlone
    VolumeIsTrue
PROPERTIES
    QuotaKeptAlone
    ModeGovernsCycleAlone
