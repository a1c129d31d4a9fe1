CONSTANTS
    r1 = r1  r2 = r2  r3 = r3  org = org  teamA = teamA  teamB = teamB
    Requests = {r1, r2, r3}
    Nodes = {org, teamA, teamB}
    NoCap = NoCap
    Cells <- MCCells
    NodeOf <- MCNodeOf
    Shards <- MCShards
    Path <- MCPath
    NodeCap <- MCNodeCap
    NodeReqCap <- MCNodeReqCap
    Est <- MCEst
    Safety <- MCSafety
    Actual <- MCActual
    Slow = {r1}
    DbFaults = {"abort", "lost"}
CHECK_DEADLOCK FALSE
SPECIFICATION NodeFairSpec
INVARIANTS NodesExact NodeCapRespected
PROPERTIES PathsHoldOnce PathHoldsDrain
