\* Two overlapping registrations and a push over two users' devices.
SPECIFICATION Spec
CONSTANTS
    Users = {"ann", "bob"}
    Tokens = {"phone", "tablet"}
    Requests = {"r1", "r2"}
    Pushes = {"p1"}
    MaxRows = 3
INVARIANTS
    TypeOK
    OneUserPerDevice
    LastRegistrationHolds
PROPERTIES
    PrunedWasDeclaredDead
