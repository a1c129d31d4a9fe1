--------------------------- MODULE MCPolicyStore ---------------------------
(***************************************************************************)
(* Two versions of two authors and three activations: two that race and a  *)
(* rollback to the first version.  Ann has a stable identity besides her   *)
(* name; the second version changes a boot-only field and leaves a model   *)
(* without a price, which only the older replica accepts.                  *)
(***************************************************************************)
EXTENDS PolicyStore, TLC

CONSTANTS v1, v2, ann, annSub, bob, c1, c2, c3

MCIdentity == ann :> annSub @@ bob :> bob
MCNames == ann :> {ann, annSub} @@ bob :> {bob}
MCBootFields == v1 :> 0 @@ v2 :> 1
MCReplicas ==
    {[approvalRequired |-> TRUE, hotReload |-> TRUE, strictPricing |-> FALSE, bootFields |-> 0],
     [approvalRequired |-> TRUE, hotReload |-> FALSE, strictPricing |-> FALSE, bootFields |-> 1],
     [approvalRequired |-> FALSE, hotReload |-> FALSE, strictPricing |-> TRUE, bootFields |-> 0]}
MCAuthor == v1 :> ann @@ v2 :> bob
MCTarget == c1 :> v1 @@ c2 :> v2 @@ c3 :> v1
=============================================================================
