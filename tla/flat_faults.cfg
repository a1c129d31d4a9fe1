CONSTANTS
    r1 = r1  r2 = r2  r3 = r3
    userA = userA  userB = userB  global = global
    Requests = {r1, r2}
    Counters = {userA, userB, global}
    Rows <- MCRows
    ReqRow <- MCReqRow
    Cap <- MCCap
    ReqCap <- MCReqCap
    Est <- MCEst
    FbEst <- MCFbEst
    Safety <- MCSafety
    Actual <- MCActual
    Slow = {r1}
    DbFaults = {"abort", "lost"}
CHECK_DEADLOCK FALSE
SPECIFICATION FairSpec
INVARIANTS LeasesSound CapRespected LedgerExact
PROPERTY HoldsDrain
