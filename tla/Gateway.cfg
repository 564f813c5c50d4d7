SPECIFICATION Spec
CONSTANTS
    Call = {c1, c2, c3}
    Caller <- Everyone
    Catalogue <- ReadAndAct
    Tenant = {t1}
    ALL_TENANTS = ALL_TENANTS
    BundleVersion = {"v1"}
    MaxToolCalls = 2
    FailureThreshold = 1
    Cooldown = 1
SYMMETRY Interchangeable
INVARIANTS
    TypeOK
    SentWasPermitted
    SentIsClaimed
    TrailIsTrue
PROPERTIES
    UsesBreaker
CHECK_DEADLOCK FALSE
