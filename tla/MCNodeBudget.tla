---------------------------- MODULE MCNodeBudget ----------------------------
(***************************************************************************)
(* An organisation with two shards above two teams.  r1 and r3 fall on one *)
(* shard of the root, r2 on the other; r1 and r2 share a team.  A shard's  *)
(* share of the root admits one hold, the team's cap two; the second team  *)
(* has no dollar cap.                                                      *)
(***************************************************************************)
EXTENDS NodeBudget, TLC

CONSTANTS r1, r2, r3, org, teamA, teamB

MCCells  == {<<org, 0>>, <<org, 1>>, <<teamA, 0>>, <<teamB, 0>>}
MCNodeOf == [c \in Cells |-> c[1]]
MCShards == [n \in Nodes |-> IF n = org THEN 2 ELSE 1]
MCPath   == [r \in Requests |->
    CASE r = r1 -> {<<org, 0>>, <<teamA, 0>>}
      [] r = r2 -> {<<org, 1>>, <<teamA, 0>>}
      [] OTHER  -> {<<org, 0>>, <<teamB, 0>>}]
MCNodeCap    == org :> 4 @@ teamA :> 3 @@ teamB :> NoCap
MCNodeReqCap == org :> 5 @@ teamA :> NoCap @@ teamB :> 1
MCEst        == [r \in Requests |-> IF r = r2 THEN 1 ELSE 2]
MCSafety     == [r \in Requests |-> IF r = r1 THEN 1 ELSE 0]
MCActual     == [r \in Requests |-> IF r = r1 THEN {1, 4} ELSE {1}]
=============================================================================
