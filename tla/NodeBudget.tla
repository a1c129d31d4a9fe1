----------------------------- MODULE NodeBudget -----------------------------
(***************************************************************************)
(* The hierarchical budget ledger: the counter rows of a tree of budget    *)
(* nodes, sharded to spread load, and the requests that reserve along the  *)
(* whole path from the root to their leaf.  Three things differ from the   *)
(* flat ledger: a settle books the spend whether or not its lease is still *)
(* there, there is no top-up, and the sweep is one transaction.            *)
(* A database transaction is one action and may fail: "abort" (nothing     *)
(* happened) or "lost" (it committed, the caller sees an error).           *)
(***************************************************************************)
EXTENDS Holds

CONSTANTS
    Nodes,
    Cells,      \* rows of budget_node_counters: one shard of a node's window
    NodeOf,     \* NodeOf[c]: the node row c belongs to
    Shards,     \* Shards[n]: shard_count of node n
    Path,       \* Path[r]: the rows on the path of r, by its shard key
    NodeCap,    \* NodeCap[n]: cap_usd, or NoCap
    NodeReqCap, \* NodeReqCap[n]: request_cap, or NoCap
    NoCap

ASSUME NodeFinite == IsFiniteSet(Cells)
ASSUME NodeShape ==
    /\ NodeOf \in [Cells -> Nodes]
    /\ Shards \in [Nodes -> Nat \ {0}]
    /\ Path \in [Requests -> SUBSET Cells]
    /\ \A n \in Nodes : Cardinality({c \in Cells : NodeOf[c] = n}) <= Shards[n]
    /\ \A r \in Requests : \A c, d \in Path[r] : NodeOf[c] = NodeOf[d] => c = d
ASSUME NodeCaps ==
    /\ NoCap \notin Nat
    /\ NodeCap \in [Nodes -> Nat \cup {NoCap}]
    /\ NodeReqCap \in [Nodes -> Nat \cup {NoCap}]

VARIABLES
    nodeUsed, nodeReserved, nodeRequests,   \* the columns of each row
    nodeLeases, \* the requests with a row in budget_node_leases
    nodeAged,   \* the leases older than the sweep's cutoff
    nodePc,     \* where each request is
    nodeOuter,  \* the requests unwinding in the outer catch
    nodeSpend,  \* spend[r]: the delivered call's cost
    booked,     \* history: how often a settle of r booked its spend
    freed,      \* history: how often the hold of r was given back
    overrun     \* history: overrun[c]: booked beyond what was held on row c

ledger      == <<nodeUsed, nodeReserved, nodeRequests>>
lease       == <<nodeLeases, nodeAged>>
nodeClient  == <<nodePc, nodeOuter, nodeSpend>>
nodeHistory == <<booked, freed, overrun>>
nodeVars    == <<ledger, lease, nodeClient, nodeHistory>>

NodePC == Ended \cup {"new", "held", "settling", "rejected", "unwinding", "freeing"}

-----------------------------------------------------------------------------
Plus(f, S, n)  == [c \in Cells |-> IF c \in S THEN f[c] + n ELSE f[c]]
Minus(f, S, n) == [c \in Cells |-> IF c \in S THEN Less(f[c], n) ELSE f[c]]

NodeGoto(r, s) == nodePc' = [nodePc EXCEPT ![r] = s]

NodeInit ==
    /\ nodeUsed     = [c \in Cells |-> 0]
    /\ nodeReserved = [c \in Cells |-> 0]
    /\ nodeRequests = [c \in Cells |-> 0]
    /\ nodeLeases   = {}
    /\ nodeAged     = {}
    /\ nodePc       = [r \in Requests |-> "new"]
    /\ nodeOuter    = {}
    /\ nodeSpend    = [r \in Requests |-> 0]
    /\ booked       = [r \in Requests |-> 0]
    /\ freed        = [r \in Requests |-> 0]
    /\ overrun      = [c \in Cells |-> 0]

(* Mutant: every shard is given the whole cap of its node.                 *)
FitsNode(r, c) ==
    LET n == NodeOf[c]
    IN /\ NodeCap[n] # NoCap => nodeUsed[c] + nodeReserved[c] + Est[r] <= NodeCap[n]
       /\ NodeReqCap[n] # NoCap => nodeRequests[c] + 1 <= NodeReqCap[n]

(* NODE_RESERVE_SQL on one row: the shard's share of the cap, an exact     *)
(* fraction for dollars and a floored one for requests.                    *)
Fits(r, c) ==
    LET n == NodeOf[c]
    IN /\ NodeCap[n] # NoCap =>
            (nodeUsed[c] + nodeReserved[c] + Est[r]) * Shards[n] <= NodeCap[n]
       /\ NodeReqCap[n] # NoCap =>
            nodeRequests[c] + 1 <= NodeReqCap[n] \div Shards[n]

(* reservePath: every row of the path fits, or nothing is held.            *)
ReservePath(r, x) ==
    /\ nodePc[r] = "new"
    /\ \A c \in Path[r] : Fits(r, c)
    /\ IF Committed(x)
       THEN /\ nodeReserved' = Plus(nodeReserved, Path[r], Est[r])
            /\ nodeRequests' = Plus(nodeRequests, Path[r], 1)
            /\ nodeLeases'   = nodeLeases \cup {r}
       ELSE UNCHANGED <<nodeReserved, nodeRequests, nodeLeases>>
    /\ NodeGoto(r, IF Failed(x) THEN "failed" ELSE "held")
    /\ UNCHANGED <<nodeUsed, nodeAged, nodeOuter, nodeSpend, nodeHistory>>

ReserveRejected(r) ==
    /\ nodePc[r] = "new"
    /\ \E c \in Path[r] : ~Fits(r, c)
    /\ NodeGoto(r, "rejected")
    /\ UNCHANGED <<ledger, lease, nodeOuter, nodeSpend, nodeHistory>>

(* recordIncurredPathCost: no cap, no lease; nothing to book, no error.    *)
IncurResults(r) == IF Safety[r] = 0 THEN {"ok"} ELSE Results
Incur(r) ==
    /\ nodeUsed' = Plus(nodeUsed, Path[r], Safety[r])
    /\ overrun'  = Plus(overrun, Path[r], Safety[r])

BookRejectedSafety(r, x) ==
    /\ nodePc[r] = "rejected"
    /\ IF Committed(x) THEN Incur(r) ELSE UNCHANGED <<nodeUsed, overrun>>
    /\ NodeGoto(r, IF Failed(x) THEN "failed" ELSE "done")
    /\ UNCHANGED <<nodeReserved, nodeRequests, lease, nodeOuter, nodeSpend, booked, freed>>

-----------------------------------------------------------------------------
(* The call delivers, on the primary or on a fallback of any price: there  *)
(* is no top-up, a dearer one settles against the same hold.               *)
NodeDeliver(r, a) ==
    /\ nodePc[r] = "held"
    /\ nodeSpend' = [nodeSpend EXCEPT ![r] = a]
    /\ NodeGoto(r, "settling")
    /\ UNCHANGED <<ledger, lease, nodeOuter, nodeHistory>>

NodeProviderFails(r) ==
    /\ nodePc[r] = "held"
    /\ nodeOuter' = nodeOuter \cup {r}
    /\ NodeGoto(r, "unwinding")
    /\ UNCHANGED <<ledger, lease, nodeSpend, nodeHistory>>

NodeFallbackBlocked(r) ==
    /\ nodePc[r] = "held"
    /\ NodeGoto(r, "unwinding")
    /\ UNCHANGED <<ledger, lease, nodeOuter, nodeSpend, nodeHistory>>

(* Mutants: the spend is dropped when the lease is gone, as the flat       *)
(* ledger does; what is freed is the spend.                                *)
SettleLikeFlat(r) ==
    IF r \in nodeLeases
    THEN /\ nodeLeases'   = nodeLeases \ {r}
         /\ nodeUsed'     = Plus(nodeUsed, Path[r], nodeSpend[r])
         /\ nodeReserved' = Minus(nodeReserved, Path[r], Est[r])
         /\ booked'       = [booked EXCEPT ![r] = @ + 1]
         /\ overrun'      = Plus(overrun, Path[r], Less(nodeSpend[r], Est[r]))
    ELSE UNCHANGED <<nodeLeases, nodeUsed, nodeReserved, booked, overrun>>

(* Mutant: the hold is freed whether or not the lease was still there.     *)
SettleFreesAlways(r) ==
    /\ nodeLeases'   = nodeLeases \ {r}
    /\ nodeUsed'     = Plus(nodeUsed, Path[r], nodeSpend[r])
    /\ nodeReserved' = Minus(nodeReserved, Path[r], Est[r])
    /\ booked'       = [booked EXCEPT ![r] = @ + 1]
    /\ overrun'      = Plus(overrun, Path[r], Less(nodeSpend[r], Est[r]))

(* settlePath: the spend is booked regardless; the hold is freed only by   *)
(* the transaction that deletes the lease.                                 *)
SettleEffect(r) ==
    LET held == IF r \in nodeLeases THEN Est[r] ELSE 0
    IN /\ nodeLeases'   = nodeLeases \ {r}
       /\ nodeUsed'     = Plus(nodeUsed, Path[r], nodeSpend[r])
       /\ nodeReserved' = Minus(nodeReserved, Path[r], held)
       /\ booked'       = [booked EXCEPT ![r] = @ + 1]
       /\ overrun'      = Plus(overrun, Path[r], Less(nodeSpend[r], held))

(* One attempt: on an error the pipeline only logs.                        *)
SettlePath(r, x) ==
    /\ nodePc[r] = "settling"
    /\ IF Committed(x) THEN SettleEffect(r)
       ELSE UNCHANGED <<nodeLeases, nodeUsed, nodeReserved, booked, overrun>>
    /\ NodeGoto(r, IF Failed(x) THEN "failed" ELSE "settled")
    /\ UNCHANGED <<nodeRequests, nodeAged, nodeOuter, nodeSpend, freed>>

-----------------------------------------------------------------------------
(* releaseEntries for the leases in S, which are dropped.                  *)
Freed(S, c) == {r \in S : c \in Path[r]}
FreeHolds(S) ==
    /\ nodeLeases'   = nodeLeases \ S
    /\ nodeReserved' = [c \in Cells |-> Less(nodeReserved[c], Total(Freed(S, c), Est))]
    /\ nodeRequests' = [c \in Cells |-> Less(nodeRequests[c], Cardinality(Freed(S, c)))]
    /\ freed'        = [r \in Requests |-> IF r \in S THEN freed[r] + 1 ELSE freed[r]]

AfterNodeUnwindError(r) ==
    /\ nodeOuter' = nodeOuter \cup {r}
    /\ NodeGoto(r, IF r \in nodeOuter THEN "failed" ELSE "unwinding")

(* releaseWithSafety: book the classifier spend, then releasePath.         *)
UnwindIncur(r, x) ==
    /\ nodePc[r] = "unwinding"
    /\ IF Committed(x) THEN Incur(r) ELSE UNCHANGED <<nodeUsed, overrun>>
    /\ IF Failed(x) THEN AfterNodeUnwindError(r)
       ELSE NodeGoto(r, "freeing") /\ UNCHANGED nodeOuter
    /\ UNCHANGED <<nodeReserved, nodeRequests, lease, nodeSpend, booked, freed>>

UnwindRelease(r, x) ==
    /\ nodePc[r] = "freeing"
    /\ IF Committed(x) THEN FreeHolds({r} \cap nodeLeases)
       ELSE UNCHANGED <<nodeLeases, nodeReserved, nodeRequests, freed>>
    /\ IF Failed(x) THEN AfterNodeUnwindError(r)
       ELSE NodeGoto(r, "done") /\ UNCHANGED nodeOuter
    /\ UNCHANGED <<nodeUsed, nodeAged, nodeSpend, booked, overrun>>

NodeCrash(r) ==
    /\ nodePc[r] \notin Ended
    /\ NodeGoto(r, "crashed")
    /\ UNCHANGED <<ledger, lease, nodeOuter, nodeSpend, nodeHistory>>

NodeAge(r) ==
    /\ r \in nodeLeases \ nodeAged
    /\ nodePc[r] \in Ended \/ r \in Slow
    /\ nodeAged' = nodeAged \cup {r}
    /\ UNCHANGED <<ledger, nodeLeases, nodeClient, nodeHistory>>

(* Mutant: the sweep returns the holds and keeps their leases.             *)
SweepKeepsLeases ==
    /\ nodeLeases \cap nodeAged # {}
    /\ nodeReserved' = [c \in Cells |->
            Less(nodeReserved[c], Total(Freed(nodeLeases \cap nodeAged, c), Est))]
    /\ UNCHANGED <<nodeUsed, nodeRequests, lease, nodeClient, nodeHistory>>

(* cleanupStaleNodeLeases: all stale leases or none, in one transaction.   *)
CleanupStaleNodeLeases ==
    /\ nodeLeases \cap nodeAged # {}
    /\ FreeHolds(nodeLeases \cap nodeAged)
    /\ UNCHANGED <<nodeUsed, nodeAged, nodeClient, booked, overrun>>

NodeStep(r) ==
    \/ ReserveRejected(r) \/ NodeProviderFails(r) \/ NodeFallbackBlocked(r)
    \/ \E a \in Actual[r] : NodeDeliver(r, a)
    \/ \E x \in Results : ReservePath(r, x) \/ SettlePath(r, x) \/ UnwindRelease(r, x)
    \/ \E x \in IncurResults(r) : BookRejectedSafety(r, x) \/ UnwindIncur(r, x)

NodeNext ==
    \/ \E r \in Requests : NodeStep(r) \/ NodeCrash(r) \/ NodeAge(r)
    \/ CleanupStaleNodeLeases

NodeSpec == NodeInit /\ [][NodeNext]_nodeVars

(* A started request reaches an end, leases age, the sweep keeps coming.   *)
NodeFairness ==
    /\ \A r \in Requests :
          WF_nodeVars(NodeStep(r) /\ nodePc[r] # "new") /\ WF_nodeVars(NodeAge(r))
    /\ WF_nodeVars(CleanupStaleNodeLeases)

NodeFairSpec == NodeSpec /\ NodeFairness

-----------------------------------------------------------------------------
Held(c)      == Total(Freed(nodeLeases, c), Est)
ShardsOf(n)  == {c \in Cells : NodeOf[c] = n}
OnNode(n, f) == Total(ShardsOf(n), f)

(* Each variable holds a value of its kind.                                *)
NodeTypeOK ==
    /\ nodeUsed \in [Cells -> Nat] /\ nodeReserved \in [Cells -> Nat]
    /\ nodeRequests \in [Cells -> Nat]
    /\ nodeLeases \subseteq Requests /\ nodeAged \subseteq Requests
    /\ nodePc \in [Requests -> NodePC]
    /\ nodeOuter \subseteq Requests /\ nodeSpend \in [Requests -> Nat]
    /\ booked \in [Requests -> Nat] /\ freed \in [Requests -> Nat]
    /\ overrun \in [Cells -> Nat]

(* On every row of every path exactly the live leases are reserved: no     *)
(* settle, release or sweep frees a hold twice or strands one, not even    *)
(* when a slow request races the sweep (budgets/repo.ts:375-395).          *)
PathHoldsExact == \A c \in Cells : nodeReserved[c] = Held(c)

(* The shards of a node together stay within the cap of the node, save for *)
(* what was booked beyond its hold (budgets/repo.ts:294-297).              *)
NodeCapRespected ==
    \A n \in Nodes : NodeCap[n] # NoCap =>
        OnNode(n, nodeUsed) + OnNode(n, nodeReserved) <= NodeCap[n] + OnNode(n, overrun)

(* A request counts on every row of its path or on none: all requests that *)
(* hold, or have settled a hold the sweep did not take from them.          *)
PathRequestsExact ==
    \A c \in Cells :
        nodeRequests[c] = Cardinality({r \in Requests :
            c \in Path[r] /\ (r \in nodeLeases \/ (booked[r] > 0 /\ freed[r] = 0))})

(* Money and requests of a path go from all of its rows or from none.      *)
PathExact == PathHoldsExact /\ PathRequestsExact

(* The spend of a settled request is booked, even when the sweep had taken *)
(* its hold (used_usd is booked regardless, budgets/repo.ts:379).          *)
SettledIsBooked ==
    \A r \in Requests : nodePc[r] = "settled" => booked[r] = 1

(* Nodes are exact: what a path holds goes from all of its rows, and what  *)
(* it has spent stays on all of them.                                      *)
NodesExact == NodeTypeOK /\ PathExact /\ SettledIsBooked

-----------------------------------------------------------------------------
(* What became of the hold of a request, and what a row may carry.         *)
HoldOf(r) ==
    CASE booked[r] > 0 -> "settled"
      [] booked[r] = 0 /\ r \in nodeLeases -> "open"
      [] booked[r] = 0 /\ r \notin nodeLeases /\ freed[r] > 0 -> "freed"
      [] OTHER -> "none"

RowLimit(c) ==
    IF NodeCap[NodeOf[c]] = NoCap THEN NoCap ELSE NodeCap[NodeOf[c]] \div Shards[NodeOf[c]]

Ledger == INSTANCE HoldLedger WITH
    Rows <- Cells, On <- Path, NoLimit <- NoCap,
    Limit <- [c \in Cells |-> RowLimit(c)],
    hold  <- [r \in Requests |-> HoldOf(r)],
    held  <- nodeReserved,
    spent <- nodeUsed

(* Leases, the sweep, unwinding and failures do not show: whatever they do, *)
(* each step moves the money of all rows of a path together, opens a hold  *)
(* once and only where every row has room, ends it once, and books a spend *)
(* once, even when the sweep came first (budgets/repo.ts:247-470).         *)
PathsHoldOnce == Ledger!Spec

(* Every path reservation is given back in the end.                        *)
PathHoldsDrain == \A r \in Requests : r \in nodeLeases ~> r \notin nodeLeases
=============================================================================
