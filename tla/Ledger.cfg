SPECIFICATION LedgerSpec
CONSTANTS
    AgentCall = {r1, r2, r3}
    Meter = {"tokens", "cost"}
    Limit <- TwoEach
    MaxToolCalls = 2
    MaxSpend = 2
    MaxParks = 2
    UsageShared = TRUE
INVARIANTS
    ClaimsFitTheBudget
    OvershootIsBounded
CHECK_DEADLOCK FALSE
