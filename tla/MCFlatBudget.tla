---------------------------- MODULE MCFlatBudget ----------------------------
(***************************************************************************)
(* Three requests: r1 and r2 of one user, r3 of another, all on the global *)
(* row.  The caps admit two primary holds and not three, one top-up and    *)
(* not two, so every rejection and every race for the last dollar happens. *)
(***************************************************************************)
EXTENDS FlatBudget, TLC

CONSTANTS r1, r2, r3, userA, userB, global

Only(f) == [r \in Requests |-> f[r]]

MCRows == Only(r1 :> {userA, global} @@ r2 :> {userA, global} @@ r3 :> {userB, global})
MCReqRow == Only(r1 :> userA @@ r2 :> userA @@ r3 :> userB)
MCCap == userA :> 4 @@ userB :> 3 @@ global :> 5
MCReqCap == userA :> 2 @@ userB :> 1 @@ global :> 9
MCEst == Only(r1 :> 2 @@ r2 :> 2 @@ r3 :> 2)
MCFbEst == Only(r1 :> 3 @@ r2 :> 2 @@ r3 :> 3)
MCSafety == Only(r1 :> 1 @@ r2 :> 0 @@ r3 :> 1)
(* cheaper than the hold, and dearer than it *)
MCActual == Only(r1 :> {1, 4} @@ r2 :> {1} @@ r3 :> {1})
=============================================================================
