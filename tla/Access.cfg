SPECIFICATION Spec
CONSTANTS
    Tenant = {t1, t2}
    ALL_TENANTS = ALL_TENANTS
    Candidate <- AnyBoundary
INVARIANTS
    TypeOK
    BundleAgreesWithRegistry
    ToolsTrackTheRegistry
CHECK_DEADLOCK FALSE
