----------------------------- MODULE FlatBudget -----------------------------
(***************************************************************************)
(* The flat budget ledger: the rows of budget_counters, the single-use     *)
(* rows of budget_reservation_leases, the gateway requests that reserve,   *)
(* top up, settle and release against them, and the maintenance sweep that *)
(* frees the holds of requests that never came back.                       *)
(*                                                                         *)
(* Every database transaction is one atomic action: each runs under        *)
(* BEGIN/COMMIT with row locks on every counter it changes.  What is NOT   *)
(* atomic is modelled as separate actions: the awaits between the calls of *)
(* one request, and the sweep's SELECT and its per-row release.            *)
(* A transaction may also fail: "abort" (nothing happened, the caller sees *)
(* an error) or "lost" (it committed, the caller sees an error).           *)
(***************************************************************************)
EXTENDS Holds

CONSTANTS
    Counters,   \* rows of budget_counters (scope, project, key, window)
    Rows,       \* Rows[r]: the rows dimensionsFor derives for request r
    ReqRow,     \* ReqRow[r]: the user_daily row, the one that counts requests
    Cap,        \* Cap[c]: the USD cap of row c
    ReqCap,     \* ReqCap[c]: the request cap of row c
    FbEst       \* FbEst[r]: what r holds once it falls back, safety spend included

ASSUME RowsAssumption ==
    /\ Rows \in [Requests -> SUBSET Counters]
    /\ ReqRow \in [Requests -> Counters]
    /\ \A r \in Requests : ReqRow[r] \in Rows[r]
ASSUME CapAssumption ==
    /\ Cap \in [Counters -> Nat]
    /\ ReqCap \in [Counters -> Nat]
ASSUME CostAssumption ==
    /\ FbEst \in [Requests -> Nat]
    /\ \A r \in Requests : \A a \in Actual[r] : a >= Safety[r]

VARIABLES
    used,       \* used[c]: used_usd
    reserved,   \* reserved[c]: reserved_usd
    requests,   \* requests[c]: requests_used
    leases,     \* the requests that have a row in budget_reservation_leases
    leaseEst,   \* leaseEst[r]: estimated_cost of that row
    aged,       \* the leases older than the sweep's cutoff
    batch,      \* the stale rows a sweep has read and not yet released
    snap,       \* snap[r]: the estimated_cost the sweep read
    pc,         \* where each request is
    hold,       \* hold[r]: reservedUsd, the request's own idea of its hold
    outer,      \* the requests whose unwinding runs in the outer catch
    spend,      \* spend[r]: what the provider reported, once delivered
    booked,     \* history: how often a settle of r changed the counters
    freed,      \* history: how often a release of r changed the counters
    cost,       \* history: money really spent on behalf of r
    charge,     \* history: money booked in used_usd on behalf of r
    overrun     \* history: overrun[c]: money booked beyond what was held

ledger  == <<used, reserved, requests>>
lease   == <<leases, leaseEst, aged>>
sweep   == <<batch, snap>>
client  == <<pc, hold, outer, spend>>
history == <<booked, freed, cost, charge, overrun>>
vars    == <<ledger, lease, sweep, client, history>>

Waiting == {"held", "fallback"}
PC      == Waiting \cup Ended
           \cup {"new", "settling", "resettling", "rejected", "unwinding", "freeing"}

-----------------------------------------------------------------------------
(* What one statement does to the rows S of a counter column f.            *)
Plus(f, S, n)  == [c \in Counters |-> IF c \in S THEN f[c] + n ELSE f[c]]
Minus(f, S, n) == [c \in Counters |-> IF c \notin S THEN f[c]
                                      ELSE IF f[c] >= n THEN f[c] - n ELSE 0]
Excess(a, h)   == IF a > h THEN a - h ELSE 0

(* Mutant: the money other requests hold is left out of the check.         *)
FitsUsedOnly(r, usd, n) ==
    /\ \A c \in Rows[r] : used[c] + usd <= Cap[c]
    /\ requests[ReqRow[r]] + n <= ReqCap[ReqRow[r]]

(* RESERVE_SQL over every row of r: all fit, or the transaction rolls back. *)
Fits(r, usd, n) ==
    /\ \A c \in Rows[r] : used[c] + reserved[c] + usd <= Cap[c]
    /\ requests[ReqRow[r]] + n <= ReqCap[ReqRow[r]]

Goto(r, state) == pc' = [pc EXCEPT ![r] = state]

-----------------------------------------------------------------------------
Init ==
    /\ used     = [c \in Counters |-> 0]
    /\ reserved = [c \in Counters |-> 0]
    /\ requests = [c \in Counters |-> 0]
    /\ leases   = {}
    /\ leaseEst = [r \in Requests |-> 0]
    /\ aged     = {}
    /\ batch    = {}
    /\ snap     = [r \in Requests |-> 0]
    /\ pc       = [r \in Requests |-> "new"]
    /\ hold     = [r \in Requests |-> 0]
    /\ outer    = {}
    /\ spend    = [r \in Requests |-> 0]
    /\ booked   = [r \in Requests |-> 0]
    /\ freed    = [r \in Requests |-> 0]
    /\ cost     = Safety
    /\ charge   = [r \in Requests |-> 0]
    /\ overrun  = [c \in Counters |-> 0]

(* reserveBudget: counters first, then the lease, in one transaction.  A   *)
(* "lost" commit leaves a lease whose request answered 500.                *)
Reserve(r, x) ==
    /\ pc[r] = "new"
    /\ Fits(r, Est[r], 1)
    /\ IF Committed(x)
       THEN /\ reserved' = Plus(reserved, Rows[r], Est[r])
            /\ requests' = Plus(requests, {ReqRow[r]}, 1)
            /\ leases'   = leases \cup {r}
            /\ leaseEst' = [leaseEst EXCEPT ![r] = Est[r]]
       ELSE UNCHANGED <<reserved, requests, leases, leaseEst>>
    /\ hold' = [hold EXCEPT ![r] = Est[r]]
    /\ Goto(r, IF Failed(x) THEN "failed" ELSE "held")
    /\ UNCHANGED <<used, aged, sweep, outer, spend, history>>

ReserveRejected(r) ==
    /\ pc[r] = "new"
    /\ ~Fits(r, Est[r], 1)
    /\ Goto(r, "rejected")
    /\ UNCHANGED <<ledger, lease, sweep, hold, outer, spend, history>>

(* recordIncurredCost: no cap check, no lease; every row of r.  Nothing to *)
(* book means no transaction, hence no error.                              *)
IncurResults(r) == IF Safety[r] = 0 THEN {"ok"} ELSE Results
Incur(r) ==
    /\ used'    = Plus(used, Rows[r], Safety[r])
    /\ charge'  = [charge EXCEPT ![r] = @ + Safety[r]]
    /\ overrun' = Plus(overrun, Rows[r], Safety[r])

(* The reservation was refused: the classifier spend is booked and the     *)
(* request answered; an error there is answered with a 500.                *)
BookRejectedSafety(r, x) ==
    /\ pc[r] = "rejected"
    /\ IF Committed(x) THEN Incur(r) ELSE UNCHANGED <<used, charge, overrun>>
    /\ Goto(r, IF Failed(x) THEN "failed" ELSE "done")
    /\ UNCHANGED <<reserved, requests, lease, sweep, hold, outer, spend,
                   booked, freed, cost>>

-----------------------------------------------------------------------------
(* The model call, primary or fallback, delivers and reports its cost.     *)
Deliver(r, a) ==
    /\ pc[r] \in Waiting
    /\ spend' = [spend EXCEPT ![r] = a]
    /\ cost'  = [cost EXCEPT ![r] = a]
    /\ Goto(r, "settling")
    /\ UNCHANGED <<ledger, lease, sweep, hold, outer, booked, freed, charge, overrun>>

(* The model call fails with no fallback left, or anything else throws:    *)
(* the outer catch of executeProviderWithFallback unwinds.                 *)
ProviderFails(r) ==
    /\ pc[r] \in Waiting
    /\ outer' = outer \cup {r}
    /\ Goto(r, "unwinding")
    /\ UNCHANGED <<ledger, lease, sweep, hold, spend, history>>

(* The primary failed and the re-evaluation blocks: unwound in the inner   *)
(* try, so an error on the way runs the outer catch as well.               *)
FallbackBlocked(r) ==
    /\ pc[r] = "held"
    /\ Goto(r, "unwinding")
    /\ UNCHANGED <<ledger, lease, sweep, hold, outer, spend, history>>

(* What the fallback needs beyond the hold.                                *)
Extra(r) == FbEst[r] - hold[r]

(* A fallback that costs no more than the hold needs no top-up.            *)
FallbackWithinHold(r) ==
    /\ pc[r] = "held"
    /\ Extra(r) <= 0
    /\ Goto(r, "fallback")
    /\ UNCHANGED <<ledger, lease, sweep, hold, outer, spend, history>>

(* topUpBudget: the difference is reserved on every row and added to the   *)
(* lease, unless the lease is gone: then everything is rolled back.        *)
TopUp(r, x) ==
    /\ pc[r] = "held"
    /\ Extra(r) > 0
    /\ r \in leases
    /\ Fits(r, Extra(r), 0)
    /\ IF Committed(x)
       THEN /\ reserved' = Plus(reserved, Rows[r], Extra(r))
            /\ leaseEst' = [leaseEst EXCEPT ![r] = @ + Extra(r)]
       ELSE UNCHANGED <<reserved, leaseEst>>
    /\ hold'  = IF Failed(x) THEN hold ELSE [hold EXCEPT ![r] = FbEst[r]]
    /\ outer' = IF Failed(x) THEN outer \cup {r} ELSE outer
    /\ Goto(r, IF Failed(x) THEN "unwinding" ELSE "fallback")
    /\ UNCHANGED <<used, requests, leases, aged, sweep, spend, history>>

TopUpRejected(r) ==
    /\ pc[r] = "held"
    /\ Extra(r) > 0
    /\ r \notin leases \/ ~Fits(r, Extra(r), 0)
    /\ Goto(r, "unwinding")
    /\ UNCHANGED <<ledger, lease, sweep, hold, outer, spend, history>>

-----------------------------------------------------------------------------
(* recordActualCost: the delete of the lease decides; without it nothing   *)
(* is booked and nothing is freed.                                         *)
SettleEffect(r) ==
    IF r \in leases
    THEN /\ leases'   = leases \ {r}
         /\ used'     = Plus(used, Rows[r], spend[r])
         /\ reserved' = Minus(reserved, Rows[r], hold[r])
         /\ booked'   = [booked EXCEPT ![r] = @ + 1]
         /\ charge'   = [charge EXCEPT ![r] = @ + spend[r]]
         /\ overrun'  = Plus(overrun, Rows[r], Excess(spend[r], hold[r]))
    ELSE UNCHANGED <<leases, used, reserved, booked, charge, overrun>>

(* Mutant: the first error is taken for a success.                         *)
SettleNoRetry(r, x) ==
    /\ pc[r] \in {"settling", "resettling"}
    /\ IF Committed(x) THEN SettleEffect(r)
       ELSE UNCHANGED <<leases, used, reserved, booked, charge, overrun>>
    /\ Goto(r, "settled")
    /\ UNCHANGED <<requests, leaseEst, aged, sweep, hold, outer, spend, freed, cost>>

(* settleActualCostWithRetry: one retry, then the sweep's business.        *)
Settle(r, x) ==
    /\ pc[r] \in {"settling", "resettling"}
    /\ IF Committed(x) THEN SettleEffect(r)
       ELSE UNCHANGED <<leases, used, reserved, booked, charge, overrun>>
    /\ Goto(r, IF ~Failed(x) THEN "settled"
               ELSE IF pc[r] = "settling" THEN "resettling" ELSE "failed")
    /\ UNCHANGED <<requests, leaseEst, aged, sweep, hold, outer, spend, freed, cost>>

(* Mutants: a release not gated on the lease; one that leaves it behind.   *)
ReleaseUngated(r, n) ==
    /\ leases'   = leases \ {r}
    /\ reserved' = Minus(reserved, Rows[r], n)
    /\ requests' = Minus(requests, {ReqRow[r]}, 1)
    /\ freed'    = [freed EXCEPT ![r] = @ + 1]
ReleaseKeepsLease(r, n) ==
    /\ reserved' = Minus(reserved, Rows[r], n)
    /\ requests' = Minus(requests, {ReqRow[r]}, 1)
    /\ UNCHANGED <<leases, freed>>

(* releaseBudget of request r for the amount n, on behalf of the request   *)
(* itself or of the sweep.                                                 *)
ReleaseEffect(r, n) ==
    IF r \in leases
    THEN /\ leases'   = leases \ {r}
         /\ reserved' = Minus(reserved, Rows[r], n)
         /\ requests' = Minus(requests, {ReqRow[r]}, 1)
         /\ freed'    = [freed EXCEPT ![r] = @ + 1]
    ELSE UNCHANGED <<leases, reserved, requests, freed>>

(* An error while unwinding in the inner try enters the outer catch, which *)
(* unwinds again from the start; an error there is answered with a 500.    *)
AfterUnwindError(r) ==
    /\ outer' = outer \cup {r}
    /\ Goto(r, IF r \in outer THEN "failed" ELSE "unwinding")

(* releaseWithSafety, first half: book the classifier spend.               *)
UnwindIncur(r, x) ==
    /\ pc[r] = "unwinding"
    /\ IF Committed(x) THEN Incur(r) ELSE UNCHANGED <<used, charge, overrun>>
    /\ IF Failed(x) THEN AfterUnwindError(r)
       ELSE Goto(r, "freeing") /\ UNCHANGED outer
    /\ UNCHANGED <<reserved, requests, lease, sweep, hold, spend, booked, freed, cost>>

(* releaseWithSafety, second half: free the hold.                          *)
UnwindRelease(r, x) ==
    /\ pc[r] = "freeing"
    /\ IF Committed(x) THEN ReleaseEffect(r, hold[r])
       ELSE UNCHANGED <<leases, reserved, requests, freed>>
    /\ IF Failed(x) THEN AfterUnwindError(r)
       ELSE Goto(r, "done") /\ UNCHANGED outer
    /\ UNCHANGED <<used, leaseEst, aged, sweep, hold, spend, booked, cost, charge, overrun>>

(* The process serving r dies.                                             *)
Crash(r) ==
    /\ pc[r] \notin Ended
    /\ Goto(r, "crashed")
    /\ UNCHANGED <<ledger, lease, sweep, hold, outer, spend, history>>

-----------------------------------------------------------------------------
(* Time passes: the lease crosses the sweep's cutoff.  A live request's    *)
(* lease does so only if the request may outlive RESERVATION_STALE_MS.     *)
Age(r) ==
    /\ r \in leases \ aged
    /\ pc[r] \in Ended \/ r \in Slow
    /\ aged' = aged \cup {r}
    /\ UNCHANGED <<ledger, leases, leaseEst, sweep, client, history>>

(* findStaleReservationLeases.  The SELECT ... FOR UPDATE runs outside a   *)
(* transaction, so its locks are gone before the first release starts.     *)
(* One sweeper at a time: the tick holds the maintenance advisory lock.    *)
SweepSelect ==
    /\ batch = {}
    /\ leases \cap aged # {}
    /\ batch' = leases \cap aged
    /\ snap'  = [r \in Requests |-> IF r \in batch' THEN leaseEst[r] ELSE 0]
    /\ UNCHANGED <<ledger, lease, client, history>>

(* One iteration of cleanupStaleReservationLeases, with the row it read.   *)
SweepRelease(r) ==
    /\ r \in batch
    /\ batch' = batch \ {r}
    /\ ReleaseEffect(r, snap[r])
    /\ UNCHANGED <<used, leaseEst, aged, snap, client, booked, cost, charge, overrun>>

(* A release of the sweep fails: the loop throws and the rest of the batch *)
(* waits for the next tick; the row itself may or may not have been freed. *)
SweepFails(r, x) ==
    /\ r \in batch
    /\ IF Committed(x) THEN ReleaseEffect(r, snap[r])
       ELSE UNCHANGED <<leases, reserved, requests, freed>>
    /\ batch' = {}
    /\ UNCHANGED <<used, leaseEst, aged, snap, client, booked, cost, charge, overrun>>

-----------------------------------------------------------------------------
(* The steps a live request takes on its own behalf.                       *)
Step(r) ==
    \/ ReserveRejected(r)
    \/ ProviderFails(r) \/ FallbackBlocked(r) \/ FallbackWithinHold(r) \/ TopUpRejected(r)
    \/ \E a \in Actual[r] : Deliver(r, a)
    \/ \E x \in Results :
        Reserve(r, x) \/ TopUp(r, x) \/ Settle(r, x) \/ UnwindRelease(r, x)
    \/ \E x \in IncurResults(r) : BookRejectedSafety(r, x) \/ UnwindIncur(r, x)

Next ==
    \/ \E r \in Requests :
        \/ Step(r) \/ Crash(r) \/ Age(r) \/ SweepRelease(r)
        \/ \E x \in DbFaults : SweepFails(r, x)
    \/ SweepSelect

Spec == Init /\ [][Next]_vars

(* Every call of a request is bounded by a timeout, so a request that has  *)
(* started goes on to an end; leases age; the maintenance timer keeps      *)
(* firing, and the database does not fail every sweep of a row forever.    *)
Fairness ==
    /\ \A r \in Requests :
        /\ WF_vars(Step(r) /\ pc[r] # "new")
        /\ WF_vars(Age(r))
        /\ SF_vars(SweepRelease(r))
    /\ WF_vars(SweepSelect)

FairSpec == Spec /\ Fairness

-----------------------------------------------------------------------------
(* What row c owes the holders of the live leases that touch it.           *)
Holders(c) == {r \in leases : c \in Rows[r]}
Held(c)    == Total(Holders(c), leaseEst)

(* Each variable holds a value of its kind; the counters are never         *)
(* negative, which the code's GREATEST(0, ...) and its gates provide.      *)
TypeOK ==
    /\ used \in [Counters -> Nat] /\ reserved \in [Counters -> Nat]
    /\ requests \in [Counters -> Nat]
    /\ leases \subseteq Requests /\ leaseEst \in [Requests -> Nat]
    /\ aged \subseteq Requests
    /\ batch \subseteq Requests /\ snap \in [Requests -> Nat]
    /\ pc \in [Requests -> PC] /\ hold \in [Requests -> Nat]
    /\ outer \subseteq Requests /\ spend \in [Requests -> Nat]
    /\ booked \in [Requests -> Nat] /\ freed \in [Requests -> Nat]
    /\ cost \in [Requests -> Nat] /\ charge \in [Requests -> Nat]
    /\ overrun \in [Counters -> Nat]

(* The lease row is a single-use token: whatever the interleaving of the   *)
(* settle, its retry, the release and the sweep, exactly one of them ever  *)
(* changes the counters (consumeReservationLease, db/pool.ts:111-141).     *)
SingleUse ==
    \A r \in Requests :
        /\ booked[r] + freed[r] <= 1
        /\ r \in leases => booked[r] + freed[r] = 0

(* Nobody frees money that backs somebody else's live lease: a row never   *)
(* reserves less than its live leases hold (the "double-free a shared      *)
(* counter" of db/pool.ts:121-123).                                        *)
NoDoubleFree == \A c \in Counters : Held(c) <= reserved[c]

(* A lease is given back once, and no more than what it held: the settle,  *)
(* its retry, the release and a sweep that releases what it read earlier   *)
(* all race for it.                                                        *)
LeasesSound == SingleUse /\ NoDoubleFree

(* The strengthening under which SingleUse, NoDoubleFree and CapRespected  *)
(* are inductive: a request that has not reserved has left no trace, and   *)
(* neither the request nor the sweep believes in more than the lease says. *)
FreshUntouched ==
    \A r \in Requests : pc[r] = "new" =>
        r \notin leases \cup batch /\ booked[r] + freed[r] = 0
HoldCovered == \A r \in leases : hold[r] <= leaseEst[r]
SnapCovered == \A r \in leases \cap batch : snap[r] <= leaseEst[r]
LeaseInv    == SingleUse /\ FreshUntouched /\ HoldCovered /\ SnapCovered

(* Concurrent requests cannot overshoot a cap: whatever a row holds above  *)
(* its cap is spend that was booked beyond what its request had reserved.  *)
CapRespected ==
    \A c \in Counters : used[c] + reserved[c] <= Cap[c] + overrun[c]

(* requests_used counts the requests still in flight and those settled; a  *)
(* request whose hold was freed, by itself or by the sweep, counts no more.*)
RequestsExact ==
    \A c \in Counters :
        requests[c] = Cardinality({r \in Requests :
                          ReqRow[r] = c /\ (r \in leases \/ booked[r] > 0)})

(* A settle that was acknowledged, on the first attempt or on the retry of *)
(* one whose commit was lost, has booked the spend exactly once, provided  *)
(* the request did not outlive RESERVATION_STALE_MS.                       *)
PromptSpendBooked ==
    \A r \in Requests \ Slow : pc[r] = "settled" => booked[r] = 1

(* While its model call is in flight, a request within the stale window is *)
(* backed by its lease: no sweep takes the hold from under it.             *)
HoldBacked ==
    \A r \in Requests \ Slow :
        pc[r] \in Waiting \cup {"settling"} => r \in leases /\ leaseEst[r] >= hold[r]

(* Nothing but a top-up strands money: a row reserves exactly what its     *)
(* live leases hold, whatever fails or crashes, as long as no request on   *)
(* it disagrees with its lease about a top-up (the commit was lost) or     *)
(* left a topped-up lease to the sweep, which may have read it earlier.    *)
Steady(r) ==
    /\ leaseEst[r] \in {0, hold[r]}
    /\ r \in aged => leaseEst[r] = Est[r]
HoldsExact ==
    \A c \in Counters :
        (\A r \in Requests : c \in Rows[r] => Steady(r)) => reserved[c] = Held(c)

(* The rows say what is going on: the money reserved on them, the requests *)
(* they count and the leases behind the calls in flight agree.             *)
BooksExact == HoldsExact /\ RequestsExact /\ HoldBacked

(* Once no lease is left, no money is reserved (usage/repo.ts:366-371).    *)
NoStrandedHold == leases = {} => \A c \in Counters : reserved[c] = 0

(* Nobody is charged more than what was spent on the request's behalf,     *)
(* but for the classifier spend of a request whose unwinding entered the   *)
(* outer catch: recordIncurredCost is gated by no lease and may run twice. *)
NeverOvercharged ==
    \A r \in Requests : charge[r] <= cost[r] + IF r \in outer THEN Safety[r] ELSE 0

(* What was spent is booked once: no acknowledged settle is missing, no    *)
(* retry or unwinding charges again.                                       *)
SpendExact == PromptSpendBooked /\ NeverOvercharged

(* The ledger is exact: what is held, what is counted and what is spent.   *)
LedgerExact == BooksExact /\ SpendExact

(* Every hold is given back in the end: by the request or by the sweep.    *)
HoldsDrain == \A r \in Requests : r \in leases ~> r \notin leases
=============================================================================
