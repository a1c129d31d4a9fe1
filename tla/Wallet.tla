------------------------------- MODULE Wallet -------------------------------
(***************************************************************************)
(* The prepaid credit wallet: billing_accounts, the crash ledger           *)
(* billing_reservation_leases, the requests that hold credits and the      *)
(* maintenance sweep.  Unlike the flat ledger a request can hold TWO       *)
(* leases under one hold id, the base reserve and a fallback top-up, and   *)
(* each ages on its own.                                                   *)
(* In "hybrid" mode the internal budget ledger is reserved between the     *)
(* wallet's steps; here it only answers ok, rejects or throws.             *)
(***************************************************************************)
EXTENDS Holds

CONSTANTS
    Accounts,
    Account,    \* Account[r]: the (tenant, user) row request r pays from
    Balance,    \* Balance[a]: the prepaid credits to start with
    Extra,      \* Extra[r]: what a dearer fallback adds to the base reserve, Est[r]
    Modes       \* billing modes to start in

ASSUME WalletAccounts ==
    /\ Account \in [Requests -> Accounts]
    /\ Balance \in [Accounts -> Nat]
ASSUME WalletExtra == Extra \in [Requests -> Nat]
ASSUME WalletModes == Modes \subseteq {"hybrid", "credits_only"}

VARIABLES
    mode,       \* the deployment's billing mode
    credits,    \* credits[a]: credits_usd
    reserved,   \* reserved[a]: credits_reserved_usd
    leases,     \* rows <<r, kind>> of billing_reservation_leases
    aged,       \* the rows older than RESERVATION_STALE_MS
    pc,         \* where each request is
    hold,       \* hold[r]: reservedUsd, what the request will ask to free
    outer,      \* requests unwinding in the outer catch
    spend,      \* spend[r]: the delivered call's cost
    debits,     \* history: how often a gated settle of r hit the wallet
    excess,     \* history: excess[a]: debits beyond what the debtor held
    stranded    \* history: stranded[a]: held by rows a settle deleted for less

table   == <<credits, reserved, leases>>
client  == <<pc, hold, outer, spend>>
history == <<debits, excess, stranded>>
vars    == <<mode, table, aged, client, history>>

Kinds == {"base", "extra"}
Rows  == Requests \X Kinds
PC    == Ended \cup {"new", "funded", "internal", "undo", "broke", "held", "internalTopUp",
                     "undoTopUp", "fallback", "settling", "unwinding"}

-----------------------------------------------------------------------------
Amount == [l \in Rows |-> IF l[2] = "base" THEN Est[l[1]] ELSE Extra[l[1]]]
RowsOf(r) == {l \in leases : l[1] = r}

Available(r)  == credits[Account[r]] - reserved[Account[r]]

Goto(r, state) == pc' = [pc EXCEPT ![r] = state]

-----------------------------------------------------------------------------
Init ==
    /\ mode \in Modes
    /\ credits  = Balance
    /\ reserved = [a \in Accounts |-> 0]
    /\ leases   = {}
    /\ aged     = {}
    /\ pc       = [r \in Requests |-> "new"]
    /\ hold     = [r \in Requests |-> 0]
    /\ outer    = {}
    /\ spend    = [r \in Requests |-> 0]
    /\ debits   = [r \in Requests |-> 0]
    /\ excess   = [a \in Accounts |-> 0]
    /\ stranded = [a \in Accounts |-> 0]

(* The balance check inside the UPDATE.                                    *)
Affords(r, n) == Available(r) >= n

(* Mutant: no row for a hold of nothing.                                   *)
LeaseNonZero(r, kind, n) ==
    /\ reserved' = [reserved EXCEPT ![Account[r]] = @ + n]
    /\ leases'   = IF n = 0 THEN leases ELSE leases \cup {<<r, kind>>}

(* reserveCredits in the repository: hold n and write the lease row, the   *)
(* zero-amount one included.                                               *)
Lease(r, kind, n) ==
    /\ reserved' = [reserved EXCEPT ![Account[r]] = @ + n]
    /\ leases'   = leases \cup {<<r, kind>>}

(* A hold of nothing needs a funded wallet, read before the lease is       *)
(* written: the balance may be gone by then.                               *)
FundedForNothing(r) ==
    /\ pc[r] = "new" /\ Est[r] = 0
    /\ Available(r) > 0
    /\ Goto(r, "funded")
    /\ UNCHANGED <<mode, table, aged, hold, outer, spend, history>>

ReserveCredits(r, x) ==
    /\ \/ pc[r] = "new" /\ Est[r] > 0 /\ Affords(r, Est[r])
       \/ pc[r] = "funded"
    /\ IF Committed(x) THEN Lease(r, "base", Est[r]) ELSE UNCHANGED <<reserved, leases>>
    /\ hold' = [hold EXCEPT ![r] = Est[r]]
    /\ Goto(r, IF Failed(x) THEN "failed"
               ELSE IF mode = "hybrid" THEN "internal" ELSE "held")
    /\ UNCHANGED <<mode, credits, aged, outer, spend, history>>

ReserveCreditsRejected(r) ==
    /\ pc[r] = "new"
    /\ IF Est[r] = 0 THEN Available(r) <= 0 ELSE ~Affords(r, Est[r])
    /\ Goto(r, "broke")
    /\ UNCHANGED <<mode, table, aged, hold, outer, spend, history>>

(* reserveBudget of the internal ledger accepts, rejects or throws.        *)
InternalReserve(r) ==
    /\ pc[r] = "internal"
    /\ \/ Goto(r, "held")
       \/ Goto(r, "undo")
       \/ DbFaults # {} /\ Goto(r, "failed")
    /\ UNCHANGED <<mode, table, aged, hold, outer, spend, history>>

-----------------------------------------------------------------------------
(* Mutant: a settle not gated on the delete of the hold's rows.            *)
SettleUngated(r, actual, n) ==
    /\ leases'   = leases \ RowsOf(r)
    /\ credits'  = [credits EXCEPT ![Account[r]] = Less(@, actual)]
    /\ reserved' = [reserved EXCEPT ![Account[r]] = Less(@, n)]
    /\ debits'   = [debits EXCEPT ![r] = @ + 1]
    /\ excess'   = [excess EXCEPT ![Account[r]] = @ + Less(actual, n)]
    /\ UNCHANGED stranded

(* settleCredits with a hold id: the delete of ALL rows of the hold gates  *)
(* the update, whatever their number; n is what the caller says it held.   *)
SettleHold(r, actual, n) ==
    IF RowsOf(r) # {}
    THEN /\ leases'   = leases \ RowsOf(r)
         /\ credits'  = [credits EXCEPT ![Account[r]] = Less(@, actual)]
         /\ reserved' = [reserved EXCEPT ![Account[r]] = Less(@, n)]
         /\ debits'   = [debits EXCEPT ![r] = @ + 1]
         /\ excess'   = [excess EXCEPT ![Account[r]] = @ + Less(actual, n)]
         /\ stranded' = [stranded EXCEPT ![Account[r]] = @ + Less(Total(RowsOf(r), Amount), n)]
    ELSE UNCHANGED <<table, history>>

(* releaseCredits with a hold id: ONE row of that amount, the oldest, and  *)
(* what that row held.                                                     *)
ReleaseOne(r, n) ==
    LET match == {l \in RowsOf(r) : Amount[l] = n}
        row   == IF <<r, "base">> \in match THEN <<r, "base">> ELSE <<r, "extra">>
    IN IF match # {}
       THEN /\ leases'   = leases \ {row}
            /\ reserved' = [reserved EXCEPT ![Account[r]] = Less(@, n)]
       ELSE UNCHANGED <<leases, reserved>>

(* The internal ledger refused: give the base reserve back.                *)
UndoReserve(r, x) ==
    /\ pc[r] = "undo"
    /\ IF Committed(x) THEN ReleaseOne(r, Est[r]) ELSE UNCHANGED <<leases, reserved>>
    /\ Goto(r, IF Failed(x) THEN "failed" ELSE "broke")
    /\ UNCHANGED <<mode, credits, aged, hold, outer, spend, history>>

(* incurSafety without a hold: an unconditional debit; no statement at all *)
(* when there is nothing to book.                                          *)
BookResults(r) == IF Safety[r] = 0 THEN {"ok"} ELSE Results
BookSafety(r, x) ==
    /\ pc[r] = "broke"
    /\ IF Committed(x)
       THEN /\ credits' = [credits EXCEPT ![Account[r]] = Less(@, Safety[r])]
            /\ excess'  = [excess EXCEPT ![Account[r]] = @ + Safety[r]]
       ELSE UNCHANGED <<credits, excess>>
    /\ Goto(r, IF Failed(x) THEN "failed" ELSE "done")
    /\ UNCHANGED <<mode, reserved, leases, aged, hold, outer, spend, debits, stranded>>

-----------------------------------------------------------------------------
Deliver(r, a) ==
    /\ pc[r] \in {"held", "fallback"}
    /\ spend' = [spend EXCEPT ![r] = a]
    /\ Goto(r, "settling")
    /\ UNCHANGED <<mode, table, aged, hold, outer, history>>

ProviderFails(r) ==
    /\ pc[r] \in {"held", "fallback"}
    /\ outer' = outer \cup {r}
    /\ Goto(r, "unwinding")
    /\ UNCHANGED <<mode, table, aged, hold, spend, history>>

FallbackBlocked(r) ==
    /\ pc[r] = "held"
    /\ Goto(r, "unwinding")
    /\ UNCHANGED <<mode, table, aged, hold, outer, spend, history>>

(* topUp, first half: the extra credits under the same hold id.  In        *)
(* credits_only mode there is no internal ledger to ask.                   *)
TopUpCredits(r, x) ==
    /\ pc[r] = "held" /\ hold[r] = Est[r]
    /\ Extra[r] > 0 /\ Affords(r, Extra[r])
    /\ IF Committed(x) THEN Lease(r, "extra", Extra[r]) ELSE UNCHANGED <<reserved, leases>>
    /\ outer' = IF Failed(x) THEN outer \cup {r} ELSE outer
    /\ hold'  = IF Failed(x) \/ mode = "hybrid" THEN hold
                ELSE [hold EXCEPT ![r] = @ + Extra[r]]
    /\ Goto(r, IF Failed(x) THEN "unwinding"
               ELSE IF mode = "hybrid" THEN "internalTopUp" ELSE "fallback")
    /\ UNCHANGED <<mode, credits, aged, spend, history>>

TopUpCreditsRejected(r) ==
    /\ pc[r] = "held"
    /\ Extra[r] > 0 /\ ~Affords(r, Extra[r])
    /\ Goto(r, "unwinding")
    /\ UNCHANGED <<mode, table, aged, hold, outer, spend, history>>

(* topUp, second half: topUpBudget accepts, rejects or throws.             *)
InternalTopUp(r) ==
    /\ pc[r] = "internalTopUp"
    /\ \/ /\ hold' = [hold EXCEPT ![r] = @ + Extra[r]]
          /\ Goto(r, "fallback")
          /\ UNCHANGED outer
       \/ /\ Goto(r, "undoTopUp")
          /\ UNCHANGED <<hold, outer>>
       \/ /\ DbFaults # {}
          /\ outer' = outer \cup {r}
          /\ Goto(r, "undoTopUp")
          /\ UNCHANGED hold
    /\ UNCHANGED <<mode, table, aged, spend, history>>

(* The extra credits are given back.  An error there is swallowed after a  *)
(* throw and propagates after a rejection: the outer catch either way.     *)
UndoTopUp(r, x) ==
    /\ pc[r] = "undoTopUp"
    /\ IF Committed(x) THEN ReleaseOne(r, Extra[r]) ELSE UNCHANGED <<leases, reserved>>
    /\ outer' = IF Failed(x) THEN outer \cup {r} ELSE outer
    /\ Goto(r, "unwinding")
    /\ UNCHANGED <<mode, credits, aged, hold, spend, history>>

AfterUnwindError(r) ==
    /\ outer' = outer \cup {r}
    /\ Goto(r, IF r \in outer THEN "failed" ELSE "unwinding")

(* release: the classifier spend is debited and the hold freed.            *)
Unwind(r, x) ==
    /\ pc[r] = "unwinding"
    /\ IF Committed(x) THEN SettleHold(r, Safety[r], hold[r]) ELSE UNCHANGED <<table, history>>
    /\ IF Failed(x) THEN AfterUnwindError(r)
       ELSE Goto(r, "done") /\ UNCHANGED outer
    /\ UNCHANGED <<mode, aged, hold, spend>>

(* The internal ledger's incur or release throws before the wallet's turn. *)
UnwindThrows(r) ==
    /\ pc[r] = "unwinding"
    /\ mode = "hybrid" /\ DbFaults # {}
    /\ AfterUnwindError(r)
    /\ UNCHANGED <<mode, table, aged, hold, spend, history>>

(* settleBillingCredits: one attempt; an error is logged and the lease is  *)
(* left for the sweep.                                                     *)
Settle(r, x) ==
    /\ pc[r] = "settling"
    /\ IF Committed(x) THEN SettleHold(r, spend[r], hold[r]) ELSE UNCHANGED <<table, history>>
    /\ Goto(r, IF Failed(x) THEN "failed" ELSE "settled")
    /\ UNCHANGED <<mode, aged, hold, outer, spend>>

Crash(r) ==
    /\ pc[r] \notin Ended
    /\ Goto(r, "crashed")
    /\ UNCHANGED <<mode, table, aged, hold, outer, spend, history>>

-----------------------------------------------------------------------------
(* The base row was written first and grows old first.                     *)
Age(l) ==
    /\ l \in leases \ aged
    /\ l[2] = "extra" => <<l[1], "base">> \notin leases \ aged
    /\ pc[l[1]] \in Ended \/ l[1] \in Slow
    /\ aged' = aged \cup {l}
    /\ UNCHANGED <<mode, table, client, history>>

(* Mutant: only the base reserve's rows are looked at.                     *)
SweepBaseOnly ==
    LET stale == {l \in leases \cap aged : l[2] = "base"}
        due(a) == Total({l \in stale : Account[l[1]] = a}, Amount)
    IN /\ stale # {}
       /\ leases'   = leases \ stale
       /\ reserved' = [a \in Accounts |-> Less(reserved[a], due(a))]
       /\ UNCHANGED <<mode, credits, aged, client, history>>

(* cleanupStaleBillingLeases: one statement deletes every stale row and    *)
(* returns the sums to the wallets.                                        *)
Sweep ==
    LET stale == leases \cap aged
        due(a) == Total({l \in stale : Account[l[1]] = a}, Amount)
    IN /\ stale # {}
       /\ leases'   = leases \ stale
       /\ reserved' = [a \in Accounts |-> Less(reserved[a], due(a))]
       /\ UNCHANGED <<mode, credits, aged, client, history>>

Step(r) ==
    \/ FundedForNothing(r) \/ ReserveCreditsRejected(r) \/ InternalReserve(r)
    \/ ProviderFails(r) \/ FallbackBlocked(r) \/ TopUpCreditsRejected(r)
    \/ InternalTopUp(r) \/ UnwindThrows(r)
    \/ \E a \in Actual[r] : Deliver(r, a)
    \/ \E x \in BookResults(r) : BookSafety(r, x)
    \/ \E x \in Results :
        \/ ReserveCredits(r, x) \/ UndoReserve(r, x)
        \/ TopUpCredits(r, x) \/ UndoTopUp(r, x) \/ Unwind(r, x) \/ Settle(r, x)

Next ==
    \/ \E r \in Requests : Step(r) \/ Crash(r)
    \/ \E l \in Rows : Age(l)
    \/ Sweep

Spec == Init /\ [][Next]_vars

(* A started request reaches an end, rows grow old, the sweep keeps coming. *)
Fairness ==
    /\ \A r \in Requests : WF_vars(Step(r) /\ pc[r] # "new")
    /\ \A l \in Rows : WF_vars(Age(l))
    /\ WF_vars(Sweep)

FairSpec == Spec /\ Fairness

-----------------------------------------------------------------------------
Leased(a) == Total({l \in leases : Account[l[1]] = a}, Amount)

(* Each variable holds a value of its kind; the counters are never         *)
(* negative, which the code's GREATEST(0, ...) and its gates provide.      *)
TypeOK ==
    /\ mode \in Modes
    /\ credits \in [Accounts -> Nat] /\ reserved \in [Accounts -> Nat]
    /\ leases \subseteq Rows /\ aged \subseteq Rows
    /\ pc \in [Requests -> PC] /\ hold \in [Requests -> Nat]
    /\ outer \subseteq Requests /\ spend \in [Requests -> Nat]
    /\ debits \in [Requests -> Nat] /\ excess \in [Accounts -> Nat]
    /\ stranded \in [Accounts -> Nat]

(* The wallet never reserves less than its live leases hold: freeing the   *)
(* same hold twice would let other requests spend credits already promised *)
(* (db/pool.ts:117-124, of every reservation ledger).                      *)
WalletCovered == \A a \in Accounts : Leased(a) <= reserved[a]

(* ... and never more, but for a hold that was topped up by a commit whose *)
(* answer was lost, or whose undo failed: its settle frees the smaller     *)
(* amount the request knows of and deletes both rows.  Nothing else leaks. *)
HoldsExact == \A a \in Accounts : Leased(a) + stranded[a] = reserved[a]

(* What a wallet has promised it has, up to the overspend it forgives.     *)
HoldsBacked == \A a \in Accounts : reserved[a] <= credits[a] + excess[a]

(* Retried and racing settles of one hold debit the wallet once.           *)
DebitedOnce == \A r \in Requests : debits[r] <= 1

(* A delivered request whose settle was acknowledged has been debited,     *)
(* even when its estimate was zero, unless it outlived its own lease.      *)
SettledIsDebited ==
    \A r \in Requests \ Slow : pc[r] = "settled" => debits[r] = 1

(* A delivered call is paid for once, out of credits that were there when  *)
(* it reserved them.                                                       *)
DebitExact == DebitedOnce /\ SettledIsDebited /\ HoldsBacked

(* The wallet is exact: what it reserves and what it has paid.             *)
WalletExact == TypeOK /\ WalletCovered /\ HoldsExact /\ DebitExact

(* Every wallet lease is consumed in the end.                              *)
LeasesDrain == \A l \in Rows : l \in leases ~> l \notin leases
=============================================================================
