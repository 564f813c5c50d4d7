SPECIFICATION Spec
CONSTANTS
    Server = {a, b}
    FailureThreshold = 2
    Cooldown = 2
    MaxInFlight = 3
    Shared = TRUE
INVARIANTS
    TripsAtThreshold
    LateFailuresAreBounded
PROPERTIES
    RestEnds
