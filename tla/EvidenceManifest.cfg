SPECIFICATION Spec
CONSTANTS
    read = read
    query = query
    Call <- ReadAndQuery
    Excerpt = {e1, e2}
    Claim = {k1}
    Attempt = {a1, a2}
    Reread <- SeenDrifted
    CapabilityOf <- DocumentAndQuery
    Clearance = {"internal"}
    HandClasses = {"restricted"}
    MaxAsks = 2
    MaxVerdicts = 2
SYMMETRY Interchangeable
INVARIANTS
    ManifestReadersAreCleared
CHECK_DEADLOCK FALSE
