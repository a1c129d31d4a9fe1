CONSTANTS
    r1 = r1  r2 = r2  r3 = r3
    NoRow = NoRow
    Requests = {r1, r2, r3}
    Bodies = {"one", "two"}
    Body <- MCBody
    ClaimRetries = 1
    Slow = {}
    DbFaults = {"abort", "lost"}
CHECK_DEADLOCK FALSE
SPECIFICATION FairSpec
INVARIANTS OneProducer PaidIsReplayed ReplaySameBody
PROPERTY ClaimsEnd
