CONSTANTS
    tenant = tenant
    site = site
    inner = inner
    stranger = stranger
    engine = engine
    Call = {c1, c2}
    Tenant = {tenant}
    Host <- Hosts
    Approved <- ApprovedHosts
    Public <- PublicHosts
    SearchEngine = engine
    Key <- Keys
    Limit = 1
    Window = 2
    Margin = 1
    DefaultLifetime = 2
    Lifetime = {1, 3}
    MaxRedirects = 1
    MaxClock = 3
    None = None
SYMMETRY Interchangeable
SPECIFICATION Spec
INVARIANTS
    TypeOK
    WindowIsKept
    TokensOutliveTheirCalls
    OutboundIsEntitled
CHECK_DEADLOCK FALSE
